-------------------------- MODULE ModuleMintsProofs --------------------------
(***************************************************************************)
(* What a mint's outcome says of the host, of the answer and of what was   *)
(* asked is so: for any number of minters, bindings and sources, changes   *)
(* of the host's standing and faulty answers.                              *)
(***************************************************************************)
EXTENDS ModuleMints, TLAPS

\* An answer was a standing the host had during the request, or a failure.
Arrived(a, seen) ==
  /\ a.fault = "cut" \/ a.status = NoAnswer <=> a.cause # "none"
  /\ a.status # NoAnswer => \E s \in seen : Status[s] = a.status

\* What holds of one mint r, while the host stands so towards it.
Fine(r, stands) ==
  /\ r.phase \in {"sent", "answered"} =>
       /\ stands \in r.seen
       /\ r.kind # "module" => r.asked # NoSubject
  /\ r.phase = "answered" => Arrived(r.answer, r.seen)
  /\ r.phase \in {"returned", "stopped"} =>
       \/ /\ r.seen # {} /\ Arrived(r.answer, r.seen)
          /\ r.err = Outcome(r.kind, r.asked, r.answer)
       \/ r.seen = {} /\ r.err \in {{"ErrInvalidExchange"}, {"ErrInvalidCredentials"}}

Mints == [phase : {"idle", "sent", "answered", "returned", "stopped"},
          kind : Kinds,
          asked : Subjects \cup {NoSubject},
          seen : SUBSET Standings,
          answer : Answers,
          err : SUBSET Errors]

AllFine == \A m \in Minters : Fine(minter[m], standing[m])

IInv ==
  /\ standing \in [Minters -> Standings]
  /\ minter \in [Minters -> Mints]
  /\ changes \in 0 .. MaxChanges /\ faults \in 0 .. MaxFaults
  /\ AllFine

-----------------------------------------------------------------------------
(* The classification of an answer. *)

LEMMA Statuses ==
  /\ \A s \in Standings : Status[s] \in {200, 401, 403, 412, 502, 503}
  /\ Status["ok"] = 200 /\ Status["unproven"] = 401 /\ Status["denied"] = 403
  /\ Status["nothing"] = 412 /\ Status["failing"] = 502 /\ Status["unestablished"] = 503
  /\ Standings = {"ok", "unproven", "denied", "nothing", "failing", "unestablished"}
BY DEF Status, Standings

\* Each status stands for one standing.
LEMMA StandingOf ==
  ASSUME NEW s \in Standings
  PROVE  /\ Status[s] = 200 => s = "ok"
         /\ Status[s] = 401 => s = "unproven"
         /\ Status[s] = 403 => s = "denied"
         /\ Status[s] = 412 => s = "nothing"
         /\ Status[s] = 503 => s = "unestablished"
BY Statuses

LEMMA TransportErrors ==
  ASSUME NEW cause \in Causes
  PROVE  /\ TransportError(cause) \subseteq Errors
         /\ "BrokerError" \notin TransportError(cause)
         /\ "ErrNoHostStateToMintFor" \notin TransportError(cause)
         /\ TransportError(cause) # {}
         /\ TransportError(cause) \cap {"Timeout", "ConnectionRefused", "ConnectionReset"} # {}
              <=> cause \in {"timeout", "refused", "reset"}
<1>1. CASE cause = "timeout" BY <1>1 DEF TransportError, Errors, Categories
<1>2. CASE cause = "refused" BY <1>2 DEF TransportError, Errors, Categories
<1>3. CASE cause = "reset" BY <1>3 DEF TransportError, Errors, Categories
<1>4. CASE cause = "tls" BY <1>4 DEF TransportError, Errors, Categories
<1>5. CASE cause = "cancelled" BY <1>5 DEF TransportError, Errors, Categories
<1> QED BY <1>1, <1>2, <1>3, <1>4, <1>5 DEF Causes

\* The three ways a mint ends that posted its request: it got no whole answer, the
\* broker refused, or the broker issued something that passed the checks or did not.
LEMMA OutcomeIs ==
  ASSUME NEW kind \in Kinds, NEW asked, NEW a \in Answers, NEW seen \in SUBSET Standings,
         Arrived(a, seen)
  PROVE  LET err == Outcome(kind, asked, a) IN
         \/ Unread(a) /\ a.cause \in Causes /\ err = TransportError(a.cause)
         \/ /\ a.status \in {401, 403, 412, 502, 503}
            /\ err = {"BrokerError"} \cup Refusal(kind, a.status)
         \/ /\ a.status = 200 /\ a.cause = "none"
            /\ err \in {{"Oversized"}, {"ErrInvalidCapability"}}
         \/ /\ a.status = 200 /\ a.cause = "none"
            /\ err = {} /\ ~Unacceptable(kind, asked, a)
<1>0. a.status \in {NoAnswer, 200, 401, 403, 412, 502, 503} /\ a.cause \in {"none"} \cup Causes
  BY Statuses DEF Answers
<1>1. CASE Unread(a)
  <2>1. a.cause \in Causes BY <1>0, <1>1 DEF Unread, Arrived
  <2>2. Post(a) = TransportError(a.cause) BY <1>1 DEF Post, Unread, NoAnswer
  <2>3. "BrokerError" \notin Post(a) /\ Post(a) # {} BY <2>1, <2>2, TransportErrors
  <2> QED BY <1>1, <2>1, <2>2, <2>3 DEF Outcome
<1>2. CASE ~Unread(a) /\ a.status # 200
  <2>1. Post(a) = {"BrokerError"} BY <1>2 DEF Post
  <2>2. a.status \in {401, 403, 412, 502, 503} BY <1>0, <1>2 DEF Unread
  <2> QED BY <2>1, <2>2 DEF Outcome
<1>3. CASE ~Unread(a) /\ a.status = 200
  <2>1. a.cause = "none" BY <1>0, <1>3 DEF Unread, Arrived, NoAnswer
  <2>2. Post(a) \in {{"Oversized"}, {"ErrInvalidCapability"}, {}}
    BY <1>3 DEF Post
  <2>3. CASE Post(a) # {} BY <1>3, <2>1, <2>2, <2>3 DEF Outcome
  <2>4. CASE Post(a) = {} /\ Unacceptable(kind, asked, a)
    BY <1>3, <2>1, <2>4 DEF Outcome
  <2>5. CASE Post(a) = {} /\ ~Unacceptable(kind, asked, a)
    BY <1>3, <2>1, <2>5 DEF Outcome
  <2> QED BY <2>3, <2>4, <2>5
<1> QED BY <1>1, <1>2, <1>3

LEMMA Meanings ==
  ASSUME NEW kind
  PROVE  /\ Meaning(kind, "ErrInvalidCredentials") = {"unproven"}
         /\ Meaning(kind, "ErrExecutionUnestablished") = {"unestablished"}
         /\ kind # "source" => Meaning(kind, "ErrPermissionDenied") = {"denied"}
         /\ kind # "source" => Meaning(kind, "ErrNoHostStateToMintFor") = {"nothing"}
         /\ kind = "source" => Meaning(kind, "ErrDelegationInvalid") = {"denied"}
         /\ kind = "source" => Meaning(kind, "ErrDelegationMissing") = {"nothing"}
BY DEF Meaning

LEMMA RefusalIs ==
  ASSUME NEW kind \in Kinds, NEW status \in {401, 403, 412, 502, 503}
  PROVE  /\ Refusal(kind, status) \subseteq Errors
         /\ Refusal(kind, status) \cap {"Timeout", "ConnectionRefused", "ConnectionReset"} = {}
         /\ "ErrNoHostStateToMintFor" \in Refusal(kind, status) => status = 412
         /\ \A e \in Refusal(kind, status) :
              \E s \in Meaning(kind, e) : s \in Standings /\ Status[s] = status
<1>1. CASE status = 401
  <2>1. Refusal(kind, status) = {"ErrInvalidCredentials"}
    BY <1>1 DEF Refusal, BrokerRefusal, DelegationRefusal
  <2>2. Meaning(kind, "ErrInvalidCredentials") = {"unproven"} BY <1>1, Meanings
  <2>3. \A e \in Refusal(kind, status) :
          \E s \in Meaning(kind, e) : s \in Standings /\ Status[s] = status
    BY <1>1, <2>1, <2>2, Statuses
  <2> QED BY <1>1, <2>1, <2>3 DEF Errors
<1>2. CASE status = 403 /\ kind = "source"
  <2>1. Refusal(kind, status) = {"ErrDelegationInvalid"}
    BY <1>2 DEF Refusal, BrokerRefusal, DelegationRefusal
  <2>2. Meaning(kind, "ErrDelegationInvalid") = {"denied"} BY <1>2, Meanings
  <2>3. \A e \in Refusal(kind, status) :
          \E s \in Meaning(kind, e) : s \in Standings /\ Status[s] = status
    BY <1>2, <2>1, <2>2, Statuses
  <2> QED BY <1>2, <2>1, <2>3 DEF Errors
<1>3. CASE status = 403 /\ kind # "source"
  <2>1. Refusal(kind, status) = {"ErrPermissionDenied"}
    <3>1. Refusal(kind, status) = BrokerRefusal(status) BY <1>3 DEF Refusal
    <3>2. BrokerRefusal(status) = {"ErrPermissionDenied"} BY <1>3 DEF BrokerRefusal
    <3> QED BY <3>1, <3>2
  <2>2. Meaning(kind, "ErrPermissionDenied") = {"denied"} BY <1>3, Meanings
  <2>3. \A e \in Refusal(kind, status) :
          \E s \in Meaning(kind, e) : s \in Standings /\ Status[s] = status
    BY <1>3, <2>1, <2>2, Statuses
  <2> QED BY <1>3, <2>1, <2>3 DEF Errors
<1>4. CASE status = 412 /\ kind = "source"
  <2>1. Refusal(kind, status) = {"ErrDelegationMissing"}
    BY <1>4 DEF Refusal, BrokerRefusal, DelegationRefusal
  <2>2. Meaning(kind, "ErrDelegationMissing") = {"nothing"} BY <1>4, Meanings
  <2>3. \A e \in Refusal(kind, status) :
          \E s \in Meaning(kind, e) : s \in Standings /\ Status[s] = status
    BY <1>4, <2>1, <2>2, Statuses
  <2> QED BY <1>4, <2>1, <2>3 DEF Errors
<1>5. CASE status = 412 /\ kind # "source"
  <2>1. Refusal(kind, status) = {"ErrNoHostStateToMintFor"}
    <3>1. Refusal(kind, status) = BrokerRefusal(status) BY <1>5 DEF Refusal
    <3>2. BrokerRefusal(status) = {"ErrNoHostStateToMintFor"} BY <1>5 DEF BrokerRefusal
    <3> QED BY <3>1, <3>2
  <2>2. Meaning(kind, "ErrNoHostStateToMintFor") = {"nothing"} BY <1>5, Meanings
  <2>3. \A e \in Refusal(kind, status) :
          \E s \in Meaning(kind, e) : s \in Standings /\ Status[s] = status
    BY <1>5, <2>1, <2>2, Statuses
  <2> QED BY <1>5, <2>1, <2>3 DEF Errors
<1>6. CASE status = 502
  <2>1. Refusal(kind, status) = {}
    BY <1>6 DEF Refusal, BrokerRefusal, DelegationRefusal
  <2> QED BY <1>6, <2>1
<1>7. CASE status = 503
  <2>1. Refusal(kind, status) = {"ErrExecutionUnestablished"}
    BY <1>7 DEF Refusal, BrokerRefusal, DelegationRefusal
  <2>2. Meaning(kind, "ErrExecutionUnestablished") = {"unestablished"} BY <1>7, Meanings
  <2>3. \A e \in Refusal(kind, status) :
          \E s \in Meaning(kind, e) : s \in Standings /\ Status[s] = status
    BY <1>7, <2>1, <2>2, Statuses
  <2> QED BY <1>7, <2>1, <2>3 DEF Errors
<1> QED BY <1>1, <1>2, <1>3, <1>4, <1>5, <1>6, <1>7

LEMMA OutcomeType ==
  ASSUME NEW kind \in Kinds, NEW asked, NEW a \in Answers, NEW seen \in SUBSET Standings,
         Arrived(a, seen)
  PROVE  Outcome(kind, asked, a) \subseteq Errors
<1>1. {"BrokerError", "Oversized", "ErrInvalidCapability"} \subseteq Errors BY DEF Errors
<1> QED BY <1>1, OutcomeIs, RefusalIs, TransportErrors

-----------------------------------------------------------------------------
(* The invariant. *)

LEMMA NoAnswerYet == Nothing \in Answers
BY DEF Nothing, Answers, Faults

LEMMA InitInv == Init => IInv
<1> SUFFICES ASSUME Init PROVE IInv OBVIOUS
<1>1. PICK kind \in [Minters -> Kinds] :
        minter = [m \in Minters |->
                    [phase |-> "idle", kind |-> kind[m], asked |-> NoSubject,
                     seen |-> {}, answer |-> Nothing, err |-> {}]]
  BY DEF Init
<1>2. minter \in [Minters -> Mints] BY <1>1, NoAnswerYet DEF Mints
<1>3. AllFine BY <1>1 DEF AllFine, Fine
<1> QED BY <1>2, <1>3, BoundsAssumption DEF Init, IInv

\* One mint takes a step, to r; the host stands as it did.
LEMMA OneSteps ==
  ASSUME IInv, NEW m \in Minters, NEW r \in Mints, Fine(r, standing[m]),
         minter' = [minter EXCEPT ![m] = r], UNCHANGED <<standing, changes>>,
         faults' \in 0 .. MaxFaults
  PROVE  IInv'
<1>1. minter' \in [Minters -> Mints] BY DEF IInv
<1>2. minter'[m] = r /\ \A k \in Minters \ {m} : minter'[k] = minter[k] BY DEF IInv
<1>3. AllFine' BY <1>2 DEF IInv, AllFine
<1> QED BY <1>1, <1>3 DEF IInv

LEMMA BeginFine ==
  ASSUME IInv, NEW m \in Minters, NEW asked \in Subjects \cup {NoSubject}, Begin(m, asked)
  PROVE  \E r \in Mints : Fine(r, standing[m]) /\ minter' = [minter EXCEPT ![m] = r]
<1>1. PICK r \in {Restarted(m, "returned", asked, {}, {"ErrInvalidExchange"}),
                  Restarted(m, "returned", asked, {}, {"ErrInvalidCredentials"}),
                  Restarted(m, "sent", asked, {standing[m]}, {})} :
        /\ minter' = [minter EXCEPT ![m] = r]
        /\ r.phase = "sent" => ~Invalid(m, asked)
  BY DEF Begin, Restarted
<1>2. minter[m].kind \in Kinds /\ standing[m] \in Standings BY DEF IInv, Mints
<1>3. r \in Mints BY <1>1, <1>2, NoAnswerYet DEF Restarted, Mints, Errors
<1>4. Fine(r, standing[m])
  BY <1>1, <1>2, KindsAssumption DEF Restarted, Fine, Invalid
<1> QED BY <1>1, <1>3, <1>4

\* An answer, of the host or of a network that fails, is delivered.
LEMMA DeliverFine ==
  ASSUME IInv, NEW m \in Minters, minter[m].phase = "sent", NEW a \in Answers,
         Arrived(a, minter[m].seen), Deliver(m, a)
  PROVE  \E r \in Mints : Fine(r, standing[m]) /\ minter' = [minter EXCEPT ![m] = r]
<1> DEFINE r == [minter[m] EXCEPT !.phase = "answered", !.answer = a]
<1>1. minter[m] \in Mints /\ Fine(minter[m], standing[m]) BY DEF IInv, AllFine
<1>2. minter' = [minter EXCEPT ![m] = r] BY <1>1 DEF Deliver, IInv
<1>3. r \in Mints BY <1>1 DEF Mints
<1>4. /\ r.phase = "answered" /\ r.answer = a /\ r.seen = minter[m].seen
      /\ r.kind = minter[m].kind /\ r.asked = minter[m].asked
  BY <1>1 DEF Mints
<1> HIDE DEF r
<1>5. Fine(r, standing[m]) BY <1>1, <1>4 DEF Fine
<1> QED BY <1>2, <1>3, <1>5

LEMMA NextInv == IInv /\ [Next]_vars => IInv'
<1> SUFFICES ASSUME IInv, [Next]_vars PROVE IInv' OBVIOUS
<1>0. /\ standing \in [Minters -> Standings] /\ minter \in [Minters -> Mints]
      /\ changes \in 0 .. MaxChanges /\ faults \in 0 .. MaxFaults
      /\ \A m \in Minters : minter[m] \in Mints /\ Fine(minter[m], standing[m])
  BY DEF IInv, AllFine
<1>1. CASE UNCHANGED vars BY <1>1 DEF vars, IInv, AllFine
<1>2. ASSUME NEW m \in Minters, Mint(m) PROVE IInv'
  <2>1. PICK asked \in Subjects \cup {NoSubject} : Begin(m, asked) BY <1>2 DEF Mint
  <2>2. UNCHANGED <<standing, changes, faults>> BY <1>2 DEF Mint
  <2> QED BY <1>0, <2>1, <2>2, BeginFine, OneSteps
<1>3. ASSUME NEW m \in Minters, MintAgain(m) PROVE IInv'
  <2>1. Begin(m, minter[m].asked) /\ minter[m].asked \in Subjects \cup {NoSubject}
    BY <1>0, <1>3 DEF MintAgain, Mints
  <2>2. UNCHANGED <<standing, changes, faults>> BY <1>3 DEF MintAgain
  <2> QED BY <1>0, <2>1, <2>2, BeginFine, OneSteps
<1>4. ASSUME NEW m \in Minters, Answer(m) PROVE IInv'
  <2> DEFINE a == [Nothing EXCEPT !.status = Status[standing[m]],
                                  !.subject = minter[m].asked]
  <2>1. /\ minter[m].phase = "sent" /\ Deliver(m, a)
        /\ UNCHANGED <<standing, changes, faults>>
    BY <1>4 DEF Answer
  <2>2. standing[m] \in Standings /\ minter[m].asked \in Subjects \cup {NoSubject}
    BY <1>0 DEF Mints
  <2>3. a \in Answers BY <2>2 DEF Nothing, Answers, Faults
  <2>4. a.status = Status[standing[m]] /\ a.fault = "none" /\ a.cause = "none"
    BY DEF Nothing
  <2>5. standing[m] \in minter[m].seen BY <1>0, <2>1 DEF Fine
  <2>6. a.status # NoAnswer BY <2>2, <2>4, Statuses DEF NoAnswer
  <2> HIDE DEF a
  <2>7. Arrived(a, minter[m].seen) BY <2>4, <2>5, <2>6 DEF Arrived
  <2> QED BY <1>0, <2>1, <2>3, <2>7, DeliverFine, OneSteps
<1>5. ASSUME NEW m \in Minters, AnswerBadly(m) PROVE IInv'
  <2>1. PICK a \in Answers :
          /\ a.status \in {NoAnswer, Status[standing[m]]}
          /\ a.fault = "cut" \/ a.status = NoAnswer <=> a.cause # "none"
          /\ Deliver(m, a)
    <3>1. PICK status \in {NoAnswer, Status[standing[m]]},
               fault \in Faults, cause \in {"none"} \cup Causes,
               subject \in Subjects \cup {NoSubject} :
            /\ (fault = "cut" \/ status = NoAnswer) <=> cause # "none"
            /\ Deliver(m, [status |-> status, fault |-> fault, cause |-> cause,
                           subject |-> subject, expired |-> FALSE])
      BY <1>5 DEF AnswerBadly
    <3>2. [status |-> status, fault |-> fault, cause |-> cause,
           subject |-> subject, expired |-> FALSE] \in Answers
      BY <1>0, <3>1 DEF Answers
    <3> QED BY <3>1, <3>2
  <2>2. /\ minter[m].phase = "sent" /\ UNCHANGED <<standing, changes>>
        /\ faults' \in 0 .. MaxFaults
    BY <1>0, <1>5, BoundsAssumption DEF AnswerBadly
  <2>3. standing[m] \in minter[m].seen BY <1>0, <2>2 DEF Fine
  <2>4. Arrived(a, minter[m].seen) BY <2>1, <2>3 DEF Arrived
  <2> QED BY <1>0, <2>1, <2>2, <2>4, DeliverFine, OneSteps
<1>6. ASSUME NEW m \in Minters, Expire(m) PROVE IInv'
  <2> DEFINE r == [minter[m] EXCEPT !.answer = [@ EXCEPT !.expired = TRUE]]
  <2>1. /\ minter[m].phase = "answered" /\ UNCHANGED <<standing, changes>>
        /\ faults' \in 0 .. MaxFaults
    BY <1>0, <1>6, BoundsAssumption DEF Expire
  <2>2. minter' = [minter EXCEPT ![m] = r] BY <1>0, <1>6 DEF Expire
  <2>3. r \in Mints BY <1>0 DEF Mints, Answers
  <2>4. /\ r.phase = "answered" /\ r.seen = minter[m].seen
        /\ r.kind = minter[m].kind /\ r.asked = minter[m].asked
        /\ r.answer.status = minter[m].answer.status
        /\ r.answer.fault = minter[m].answer.fault
        /\ r.answer.cause = minter[m].answer.cause
    BY <1>0, <2>1 DEF Mints, Answers
  <2> HIDE DEF r
  <2>5. Fine(r, standing[m]) BY <1>0, <2>1, <2>4 DEF Fine, Arrived
  <2> QED BY <2>1, <2>2, <2>3, <2>5, OneSteps
<1>7. ASSUME NEW m \in Minters, Receive(m) PROVE IInv'
  <2> DEFINE err == Outcome(minter[m].kind, minter[m].asked, minter[m].answer)
             r == [minter[m] EXCEPT !.phase = "returned", !.err = err]
  <2>1. /\ minter[m].phase = "answered" /\ UNCHANGED <<standing, changes, faults>>
        /\ minter[m].kind \in Kinds /\ minter[m].answer \in Answers
        /\ minter[m].seen \in SUBSET Standings /\ standing[m] \in minter[m].seen
        /\ Arrived(minter[m].answer, minter[m].seen)
    BY <1>0, <1>7 DEF Receive, Mints, Fine
  <2>2. err \subseteq Errors BY <2>1, OutcomeType
  <2>3. minter' = [minter EXCEPT ![m] = r] BY <1>0, <1>7 DEF Receive
  <2> HIDE DEF err
  <2>4. /\ r \in Mints
        /\ r.phase = "returned" /\ r.seen = minter[m].seen /\ r.err = err
        /\ r.kind = minter[m].kind /\ r.asked = minter[m].asked
        /\ r.answer = minter[m].answer
    BY <1>0, <2>2 DEF Mints
  <2> HIDE DEF r
  <2>5. Fine(r, standing[m]) BY <2>1, <2>4 DEF Fine, err
  <2> QED BY <1>0, <2>1, <2>3, <2>4, <2>5, OneSteps
<1>8. ASSUME NEW m \in Minters, Stop(m) PROVE IInv'
  <2> DEFINE r == [minter[m] EXCEPT !.phase = "stopped"]
  <2>1. minter[m].phase = "returned" /\ UNCHANGED <<standing, changes, faults>>
    BY <1>8 DEF Stop
  <2>2. minter' = [minter EXCEPT ![m] = r] BY <1>0, <1>8 DEF Stop
  <2>3. /\ r \in Mints
        /\ r.phase = "stopped" /\ r.seen = minter[m].seen /\ r.err = minter[m].err
        /\ r.kind = minter[m].kind /\ r.asked = minter[m].asked
        /\ r.answer = minter[m].answer
    BY <1>0 DEF Mints
  <2> HIDE DEF r
  <2>4. Fine(r, standing[m]) BY <1>0, <2>1, <2>3 DEF Fine
  <2> QED BY <1>0, <2>1, <2>2, <2>3, <2>4, OneSteps
<1>9. ASSUME NEW m \in Minters, Change(m) PROVE IInv'
  <2>1. PICK s \in Standings :
          /\ standing' = [standing EXCEPT ![m] = s]
          /\ minter' = IF minter[m].phase \in {"sent", "answered"}
                         THEN [minter EXCEPT ![m].seen = @ \cup {s}] ELSE minter
    BY <1>9 DEF Change
  <2>2. /\ standing' \in [Minters -> Standings] /\ standing'[m] = s
        /\ \A k \in Minters \ {m} : standing'[k] = standing[k]
        /\ changes' \in 0 .. MaxChanges /\ faults' \in 0 .. MaxFaults
    BY <1>0, <1>9, <2>1, BoundsAssumption DEF Change
  <2>3. CASE minter[m].phase \in {"sent", "answered"}
    <3> DEFINE r == [minter[m] EXCEPT !.seen = @ \cup {s}]
    <3>1. minter' = [minter EXCEPT ![m] = r] BY <1>0, <2>1, <2>3
    <3>2. /\ r \in Mints
          /\ r.phase = minter[m].phase /\ r.seen = minter[m].seen \cup {s}
          /\ r.kind = minter[m].kind /\ r.asked = minter[m].asked
          /\ r.answer = minter[m].answer
      BY <1>0 DEF Mints
    <3> HIDE DEF r
    <3>3. Fine(r, s) BY <1>0, <2>3, <3>2 DEF Fine, Arrived
    <3>4. /\ minter' \in [Minters -> Mints] /\ minter'[m] = r
          /\ \A k \in Minters \ {m} : minter'[k] = minter[k]
      BY <1>0, <3>1, <3>2
    <3>5. AllFine' BY <1>0, <2>2, <3>3, <3>4 DEF AllFine
    <3> QED BY <2>2, <3>4, <3>5 DEF IInv
  <2>4. CASE minter[m].phase \notin {"sent", "answered"}
    <3>1. minter' = minter BY <2>1, <2>4
    <3>2. Fine(minter[m], s) BY <1>0, <2>4 DEF Fine
    <3>3. AllFine' BY <1>0, <2>2, <3>1, <3>2 DEF AllFine
    <3> QED BY <1>0, <2>2, <3>1, <3>3 DEF IInv
  <2> QED BY <2>3, <2>4
<1> QED BY <1>1, <1>2, <1>3, <1>4, <1>5, <1>6, <1>7, <1>8, <1>9 DEF Next

LEMMA Invariant == Spec => []IInv
BY InitInv, NextInv, PTL DEF Spec

-----------------------------------------------------------------------------
(* Theorems. *)

\* The variables keep their types, and only what was validated is sent.
THEOREM TypeCorrect == Spec => []TypeOK
<1>1. IInv => TypeOK
  <2> SUFFICES ASSUME IInv PROVE TypeOK OBVIOUS
  <2>1. \A m \in Minters :
          minter[m].phase \in {"sent", "answered"} =>
            minter[m].seen # {} /\ (minter[m].kind # "module" => minter[m].asked # NoSubject)
    BY DEF IInv, AllFine, Fine
  <2> QED BY <2>1 DEF IInv, TypeOK, Mints
<1> QED BY Invariant, <1>1, PTL

\* How a mint ended that reached the broker.
LEMMA EndedIs ==
  ASSUME IInv, NEW m \in Minters, Ended(m)
  PROVE  /\ minter[m].kind \in Kinds /\ minter[m].answer \in Answers
         /\ minter[m].seen \in SUBSET Standings
         /\ \/ /\ minter[m].seen # {} /\ Arrived(minter[m].answer, minter[m].seen)
               /\ minter[m].err =
                    Outcome(minter[m].kind, minter[m].asked, minter[m].answer)
            \/ /\ minter[m].seen = {}
               /\ minter[m].err \in {{"ErrInvalidExchange"}, {"ErrInvalidCredentials"}}
<1>1. minter[m] \in Mints /\ Fine(minter[m], standing[m]) BY DEF IInv, AllFine
<1>2. minter[m].phase \in {"returned", "stopped"} BY DEF Ended
<1> QED BY <1>1, <1>2 DEF Mints, Fine

\* Whatever the host becomes while a mint runs, and whatever is lost: a sentinel that
\* speaks of the host is about what the host was during the request.
THEOREM RefusalIsTrueHolds == Spec => []RefusalIsTrue
<1>1. ASSUME IInv, NEW m \in Minters, Ended(m), "BrokerError" \in minter[m].err,
             NEW e \in minter[m].err \ {"BrokerError"}
      PROVE  minter[m].seen \cap Meaning(minter[m].kind, e) # {}
  <2> DEFINE a == minter[m].answer
             kind == minter[m].kind
  <2>1. /\ kind \in Kinds /\ a \in Answers /\ minter[m].seen \in SUBSET Standings
        /\ Arrived(a, minter[m].seen) /\ minter[m].err = Outcome(kind, minter[m].asked, a)
    BY <1>1, EndedIs
  <2>2. /\ a.status \in {401, 403, 412, 502, 503}
        /\ minter[m].err = {"BrokerError"} \cup Refusal(kind, a.status)
    BY <1>1, <2>1, OutcomeIs, TransportErrors
  <2>3. PICK s \in Meaning(kind, e) : s \in Standings /\ Status[s] = a.status
    BY <1>1, <2>1, <2>2, RefusalIs
  <2>4. PICK t \in minter[m].seen : Status[t] = a.status
    BY <2>1, <2>2 DEF Arrived, NoAnswer
  <2>5. s = t
    <3>1. t \in Standings /\ Status[s] = Status[t] BY <2>1, <2>3, <2>4
    <3> QED BY <2>3, <3>1, Statuses
  <2> QED BY <2>3, <2>4, <2>5
<1>2. IInv => RefusalIsTrue BY <1>1 DEF RefusalIsTrue
<1> QED BY Invariant, <1>2, PTL

\* The consumer mints again after an outage, a lost answer or while it waits to be
\* installed, and never after a refusal.
THEOREM RetriesAreRightHolds == Spec => []RetriesAreRight
<1> DEFINE Lost == {"Timeout", "ConnectionRefused", "ConnectionReset"}
           Right(m) ==
             /\ minter[m].answer.status \in {401, 403} => ~Retryable(m)
             /\ minter[m].answer.status \in {502, 503} => Retryable(m)
             /\ minter[m].answer.status \in {NoAnswer, 200} =>
                  (Retryable(m) <=>
                     minter[m].answer.cause \in {"timeout", "refused", "reset"})
<1>1. ASSUME IInv, NEW m \in Minters, Ended(m), minter[m].seen # {} PROVE Right(m)
  <2> DEFINE a == minter[m].answer
             kind == minter[m].kind
  <2>1. /\ kind \in Kinds /\ a \in Answers /\ minter[m].seen \in SUBSET Standings
        /\ Arrived(a, minter[m].seen) /\ minter[m].err = Outcome(kind, minter[m].asked, a)
    BY <1>1, EndedIs
  <2>2. CASE Unread(a) /\ a.cause \in Causes /\ minter[m].err = TransportError(a.cause)
    <3>1. a.status \in {NoAnswer, 200} BY <2>2 DEF Unread
    <3>2. Retryable(m) <=> a.cause \in {"timeout", "refused", "reset"}
      BY <2>2, TransportErrors DEF Retryable
    <3> QED BY <3>1, <3>2 DEF NoAnswer
  <2>3. CASE /\ a.status \in {401, 403, 412, 502, 503}
             /\ minter[m].err = {"BrokerError"} \cup Refusal(kind, a.status)
    <3>1. /\ minter[m].err \cap Lost = {} /\ "BrokerError" \in minter[m].err
          /\ "ErrNoHostStateToMintFor" \in minter[m].err => a.status = 412
      BY <2>1, <2>3, RefusalIs
    <3> QED BY <2>3, <3>1 DEF Retryable, NoAnswer
  <2>4. CASE /\ a.status = 200 /\ a.cause = "none"
             /\ minter[m].err \in {{"Oversized"}, {"ErrInvalidCapability"}, {}}
    <3>1. ~Retryable(m) BY <2>4 DEF Retryable
    <3> QED BY <2>4, <3>1
  <2> QED BY <2>1, <2>2, <2>3, <2>4, OutcomeIs
<1>2. IInv => RetriesAreRight BY <1>1 DEF RetriesAreRight
<1> QED BY Invariant, <1>2, PTL

LEMMA IssuedIs ==
  ASSUME NEW kind \in Kinds, NEW asked, NEW a \in Answers, NEW seen \in SUBSET Standings,
         Arrived(a, seen), Outcome(kind, asked, a) = {}
  PROVE  a.status = 200 /\ ~Unacceptable(kind, asked, a)
<1>1. \A e : e \notin Outcome(kind, asked, a) OBVIOUS
<1>2. \A cause \in Causes : "BrokerTransportError" \in TransportError(cause)
  BY DEF TransportError
<1> QED BY <1>1, <1>2, OutcomeIs

\* A mint that returns a capability was issued it for what was asked, by a host that
\* granted it during the request, and had it before it expired.
THEOREM MintedAsAskedHolds == Spec => []MintedAsAsked
<1>1. ASSUME IInv, NEW m \in Minters, Ended(m), minter[m].err = {}
      PROVE  /\ "ok" \in minter[m].seen
             /\ ~minter[m].answer.expired
             /\ minter[m].kind # "module" => minter[m].answer.subject = minter[m].asked
  <2> DEFINE a == minter[m].answer
             kind == minter[m].kind
  <2>1. /\ kind \in Kinds /\ a \in Answers /\ minter[m].seen \in SUBSET Standings
        /\ Arrived(a, minter[m].seen) /\ minter[m].err = Outcome(kind, minter[m].asked, a)
    BY <1>1, EndedIs
  <2>2. a.status = 200 /\ ~Unacceptable(kind, minter[m].asked, a)
    <3>1. Outcome(kind, minter[m].asked, a) = {} BY <1>1, <2>1
    <3> HIDE DEF a, kind
    <3> QED BY <2>1, <3>1, IssuedIs
  <2>3. PICK s \in minter[m].seen : Status[s] = 200 BY <2>1, <2>2 DEF Arrived, NoAnswer
  <2>4. s = "ok" BY <2>1, <2>3, StandingOf
  <2> QED BY <2>1, <2>2, <2>3, <2>4, KindsAssumption DEF Unacceptable, Elsewhere
<1>2. IInv => MintedAsAsked BY <1>1 DEF MintedAsAsked
<1> QED BY Invariant, <1>2, PTL
=============================================================================
