----------------------------- MODULE ModuleMints -----------------------------
(***************************************************************************)
(* The mints at the gateway's module broker: MintModuleWorkContext,        *)
(* MintModuleOperationContext and MintSourceOperationContext. A mint       *)
(* validates what it is asked for, reads the projected token, posts one    *)
(* request, classifies the status of the answer without reading its body,  *)
(* and checks a capability it was issued. It keeps no state: what can go   *)
(* wrong is that the module learns something untrue from the error.        *)
(*                                                                         *)
(* The host's standing towards a mint (installed, admitted, delegated...)  *)
(* changes while mints run. The consumer mints again as README.md:736-744  *)
(* suggests: after an outage or while it waits to be installed, never      *)
(* after a refusal.                                                        *)
(***************************************************************************)
EXTENDS Naturals, FiniteSets

CONSTANTS Minters,     \* goroutines, each after one capability
          Kinds,       \* the mints they run
          Subjects,    \* bindings, or sources
          NoSubject,   \* ""
          MaxChanges,  \* bound: changes of the host's standing
          MaxFaults    \* bound: answers that are lost or wrong

ASSUME KindsAssumption == Kinds \subseteq {"module", "operation", "source"}
ASSUME NoSubjectAssumption == NoSubject \notin Subjects
ASSUME BoundsAssumption == MaxChanges \in Nat /\ MaxFaults \in Nat

VARIABLES standing,  \* per goroutine, how the host would answer its mint
          minter,    \* per goroutine, the mint in progress and its outcome
          changes,   \* changes of the host's standing so far
          faults     \* answers lost or wrong so far

vars == <<standing, minter, changes, faults>>

\* The standings the gateway's statuses tell apart: "nothing" is no host state
\* to mint for, or for a source no active delegation.
Status == [ok |-> 200, unproven |-> 401, denied |-> 403, nothing |-> 412,
           failing |-> 502, unestablished |-> 503]
Standings == DOMAIN Status
NoAnswer == 0

\* Why an answer did not arrive, or not wholly; and the categories of
\* BrokerTransportError.
Causes == {"timeout", "refused", "reset", "tls", "cancelled"}
Categories == {"Timeout", "ConnectionRefused", "ConnectionReset", "TLS", "Other"}

\* What can be wrong with an answer that arrived, one thing at a time.
Faults == {"none", "cut", "oversized", "undecodable", "unsealed", "noExpiry",
           "anonymous"}
Answers == [status : {NoAnswer} \cup {Status[s] : s \in Standings},
            fault : Faults,
            cause : {"none"} \cup Causes,
            subject : Subjects \cup {NoSubject},
            expired : BOOLEAN]
Nothing == [status |-> NoAnswer, fault |-> "none", cause |-> "none",
            subject |-> NoSubject, expired |-> FALSE]

\* An error is the set of what errors.Is and errors.As find in it.
Errors == {"ErrInvalidExchange", "ErrInvalidCredentials", "ErrPermissionDenied",
           "ErrNoHostStateToMintFor", "ErrExecutionUnestablished",
           "ErrDelegationInvalid", "ErrDelegationMissing",
           "ErrInvalidCapability", "BrokerError", "BrokerTransportError",
           "Oversized"} \cup Categories

TypeOK ==
  /\ standing \in [Minters -> Standings]
  /\ minter \in [Minters -> [phase : {"idle", "sent", "answered", "returned",
                                      "stopped"},
                             kind : Kinds,
                             asked : Subjects \cup {NoSubject},
                             seen : SUBSET Standings,
                             answer : Answers,
                             err : SUBSET Errors]]
  /\ changes \in 0 .. MaxChanges
  /\ faults \in 0 .. MaxFaults
  /\ \A m \in Minters :
       minter[m].phase \in {"sent", "answered"} =>
         /\ minter[m].seen # {}
         /\ minter[m].kind # "module" => minter[m].asked # NoSubject

Init ==
  /\ standing \in [Minters -> Standings]
  /\ \E kind \in [Minters -> Kinds] :
       minter = [m \in Minters |->
                   [phase |-> "idle", kind |-> kind[m], asked |-> NoSubject,
                    seen |-> {}, answer |-> Nothing, err |-> {}]]
  /\ changes = 0
  /\ faults = 0

-----------------------------------------------------------------------------
(* The classification and the checks of the code. *)

\* brokerTransportError: the category of a failure, without its cause.
TransportError(cause) ==
  {"BrokerTransportError",
   CASE cause = "timeout" -> "Timeout"
     [] cause = "refused" -> "ConnectionRefused"
     [] cause = "tls" -> "TLS"
     [] cause = "reset" -> "ConnectionReset"
     [] OTHER -> "Other"}

\* (Slip: the body is read before the status is looked at.)
UnreadWhole(a) == a.status = NoAnswer \/ a.fault = "cut"

\* post: the answer did not arrive; of other statuses the body is not read.
Unread(a) == a.status = NoAnswer \/ (a.status = 200 /\ a.fault = "cut")

Post(a) ==
  CASE Unread(a) -> TransportError(a.cause)
    [] ~Unread(a) /\ a.status # 200 -> {"BrokerError"}
    [] a.status = 200 /\ a.fault = "oversized" -> {"Oversized"}
    [] a.status = 200 /\ a.fault = "undecodable" -> {"ErrInvalidCapability"}
    [] OTHER -> {}

\* (Slip: a 502 is taken for the FailedPrecondition it used to relay.)
BrokerRefusalOf502(status) ==
  CASE status = 401 -> {"ErrInvalidCredentials"}
    [] status = 403 -> {"ErrPermissionDenied"}
    [] status \in {412, 502} -> {"ErrNoHostStateToMintFor"}
    [] status = 503 -> {"ErrExecutionUnestablished"}
    [] OTHER -> {}

\* brokerRefusal, for the module and the operation mint.
BrokerRefusal(status) ==
  CASE status = 401 -> {"ErrInvalidCredentials"}
    [] status = 403 -> {"ErrPermissionDenied"}
    [] status = 412 -> {"ErrNoHostStateToMintFor"}
    [] status = 503 -> {"ErrExecutionUnestablished"}
    [] OTHER -> {}

\* delegationRefusal, for the source mint.
DelegationRefusal(status) ==
  CASE status = 401 -> {"ErrInvalidCredentials"}
    [] status = 403 -> {"ErrDelegationInvalid"}
    [] status = 412 -> {"ErrDelegationMissing"}
    [] status = 503 -> {"ErrExecutionUnestablished"}
    [] OTHER -> {}

\* (Slip: the source mint shares the other mints' sentinels.)
RefusalShared(kind, status) == BrokerRefusal(status)

Refusal(kind, status) ==
  IF kind = "source" THEN DelegationRefusal(status) ELSE BrokerRefusal(status)

\* (Slip: the binding is left to the caller to compare.)
ElsewhereSource(kind, asked, a) == kind = "source" /\ a.subject # asked

\* The capability is about another binding or source.
Elsewhere(kind, asked, a) ==
  kind \in {"operation", "source"} /\ a.subject # asked

\* parseExpiry, sealed, and what each mint requires the capability to name.
Unacceptable(kind, asked, a) ==
  \/ a.expired
  \/ a.fault \in {"noExpiry", "unsealed"}
  \/ Elsewhere(kind, asked, a)
  \/ kind = "source" /\ a.fault = "anonymous"

\* The error a mint returns, {} for none.
Outcome(kind, asked, a) ==
  CASE "BrokerError" \in Post(a) -> Post(a) \cup Refusal(kind, a.status)
    [] Post(a) = {} /\ Unacceptable(kind, asked, a) -> {"ErrInvalidCapability"}
    [] OTHER -> Post(a)

\* External: what the consumer mints again after.
Retryable(m) ==
  \/ minter[m].err \cap {"Timeout", "ConnectionRefused", "ConnectionReset"} # {}
  \/ "BrokerError" \in minter[m].err /\ minter[m].answer.status \in {502, 503}
  \/ "ErrNoHostStateToMintFor" \in minter[m].err

-----------------------------------------------------------------------------
(* A mint: its steps, and the broker's. *)

\* (Slip: the source mint sends whatever it is asked for.)
InvalidOperation(m, asked) == minter[m].kind = "operation" /\ asked = NoSubject

\* A request without a binding or a source.
Invalid(m, asked) ==
  minter[m].kind \in {"operation", "source"} /\ asked = NoSubject

Restarted(m, phase, asked, seen, err) ==
  [phase |-> phase, kind |-> minter[m].kind, asked |-> asked, seen |-> seen,
   answer |-> Nothing, err |-> err]

\* Validate, read the projected token, post. The token may be unreadable.
Begin(m, asked) ==
  \E started \in
       IF Invalid(m, asked)
         THEN {Restarted(m, "returned", asked, {}, {"ErrInvalidExchange"})}
         ELSE {Restarted(m, "returned", asked, {}, {"ErrInvalidCredentials"}),
               Restarted(m, "sent", asked, {standing[m]}, {})} :
    minter' = [minter EXCEPT ![m] = started]

Mint(m) ==
  /\ minter[m].phase = "idle"
  /\ \E asked \in IF minter[m].kind = "module" THEN {NoSubject}
                  ELSE Subjects \cup {NoSubject} : Begin(m, asked)
  /\ UNCHANGED <<standing, changes, faults>>

Deliver(m, a) ==
  minter' = [minter EXCEPT ![m].phase = "answered", ![m].answer = a]

\* External: the gateway answers as the host stands at that moment.
Answer(m) ==
  /\ minter[m].phase = "sent"
  /\ Deliver(m, [Nothing EXCEPT !.status = Status[standing[m]],
                                !.subject = minter[m].asked])
  /\ UNCHANGED <<standing, changes, faults>>

\* External: the answer is lost, cut off, malformed, or about something else.
AnswerBadly(m) ==
  /\ minter[m].phase = "sent"
  /\ faults < MaxFaults
  /\ faults' = faults + 1
  /\ \E status \in {NoAnswer, Status[standing[m]]},
        fault \in Faults, cause \in {"none"} \cup Causes,
        subject \in Subjects \cup {NoSubject} :
       /\ (fault = "cut" \/ status = NoAnswer) <=> cause # "none"
       /\ status = NoAnswer => fault = "none" /\ subject = NoSubject
       /\ fault # "none" => subject = minter[m].asked
       /\ Deliver(m, [status |-> status, fault |-> fault, cause |-> cause,
                      subject |-> subject, expired |-> FALSE])
  /\ UNCHANGED <<standing, changes>>

\* External: the answer travels for longer than the capability lives.
Expire(m) ==
  /\ minter[m].phase = "answered"
  /\ minter[m].answer.status = 200
  /\ faults < MaxFaults
  /\ faults' = faults + 1
  /\ minter' = [minter EXCEPT ![m].answer.expired = TRUE]
  /\ UNCHANGED <<standing, changes>>

\* The mint returns.
Receive(m) ==
  /\ minter[m].phase = "answered"
  /\ minter' = [minter EXCEPT
       ![m].phase = "returned",
       ![m].err = Outcome(minter[m].kind, minter[m].asked, minter[m].answer)]
  /\ UNCHANGED <<standing, changes, faults>>

\* External: the consumer mints the same again, or is done.
MintAgain(m) ==
  /\ minter[m].phase = "returned"
  /\ Retryable(m)
  /\ Begin(m, minter[m].asked)
  /\ UNCHANGED <<standing, changes, faults>>

Stop(m) ==
  /\ minter[m].phase = "returned"
  /\ ~Retryable(m)
  /\ minter' = [minter EXCEPT ![m].phase = "stopped"]
  /\ UNCHANGED <<standing, changes, faults>>

\* External: an installation, a denial, an outage, a reconnection...
Change(m) ==
  /\ changes < MaxChanges
  /\ changes' = changes + 1
  /\ \E s \in Standings \ {standing[m]} :
       /\ standing' = [standing EXCEPT ![m] = s]
       /\ minter' = IF minter[m].phase \in {"sent", "answered"}
                      THEN [minter EXCEPT ![m].seen = @ \cup {s}] ELSE minter
  /\ UNCHANGED faults

Next ==
  \E m \in Minters :
       \/ Mint(m) \/ Answer(m) \/ AnswerBadly(m) \/ Expire(m) \/ Receive(m)
       \/ MintAgain(m) \/ Stop(m) \/ Change(m)

Spec == Init /\ [][Next]_vars

\* The code and the consumer take their steps, and a request ends.
Fairness ==
  \A m \in Minters :
    /\ WF_vars(Mint(m)) /\ WF_vars(Receive(m))
    /\ WF_vars(MintAgain(m)) /\ WF_vars(Stop(m))
    /\ WF_vars(Answer(m) \/ AnswerBadly(m))

FairSpec == Spec /\ Fairness

-----------------------------------------------------------------------------
(* Properties. *)

Ended(m) == minter[m].phase \in {"returned", "stopped"}

\* The host standings a sentinel may speak of, by mint.
Meaning(kind, e) ==
  CASE e = "ErrInvalidCredentials" -> {"unproven"}
    [] e = "ErrExecutionUnestablished" -> {"unestablished"}
    [] e = "ErrPermissionDenied" /\ kind # "source" -> {"denied"}
    [] e = "ErrNoHostStateToMintFor" /\ kind # "source" -> {"nothing"}
    [] e = "ErrDelegationInvalid" /\ kind = "source" -> {"denied"}
    [] e = "ErrDelegationMissing" /\ kind = "source" -> {"nothing"}
    [] OTHER -> {}

\* A mint that blames the host with a sentinel does so for something the host
\* was to it at some moment of the request (brokerRefusal, delegationRefusal):
\* an outage or a lost answer is never told as a refusal.
RefusalIsTrue ==
  \A m \in Minters :
    Ended(m) /\ "BrokerError" \in minter[m].err =>
      \A e \in minter[m].err \ {"BrokerError"} :
        minter[m].seen \cap Meaning(minter[m].kind, e) # {}

\* The rule README.md:736-744 gives the consumer separates what it should: a
\* mint the broker refused, or that failed for good, is not sent again, and one
\* that met an outage, a lost answer or a pending installation is.
RetriesAreRight ==
  \A m \in Minters :
    Ended(m) /\ minter[m].seen # {} =>
      LET a == minter[m].answer
      IN  /\ a.status \in {401, 403} => ~Retryable(m)
          /\ a.status \in {502, 503} => Retryable(m)
          /\ a.status \in {NoAnswer, 200} =>
               (Retryable(m) <=> a.cause \in {"timeout", "refused", "reset"})

\* A mint that returns a capability was issued it by a host that granted it,
\* for what was asked, and received it before it expired (the checks of
\* operationContext, MintModuleOperationContext, MintSourceOperationContext).
MintedAsAsked ==
  \A m \in Minters :
    Ended(m) /\ minter[m].err = {} =>
      /\ "ok" \in minter[m].seen
      /\ ~minter[m].answer.expired
      /\ minter[m].kind # "module" =>
           minter[m].answer.subject = minter[m].asked

\* Once the host's standing no longer calls for waiting, every mint settles:
\* the source mint's 412, which only a person can mend (source_context.go:11),
\* is not waited out as the other mints' is.
Waiting(k) ==
  {"failing", "unestablished"} \cup (IF k = "source" THEN {} ELSE {"nothing"})

Settles ==
  \A m \in Minters :
    <>[](standing[m] \notin Waiting(minter[m].kind))
      => <>(minter[m].phase = "stopped")

=============================================================================
