----------------------------- MODULE ModuleCalls -----------------------------
(***************************************************************************)
(* The facades of moduleauthority.Client over the host's authority         *)
(* endpoint: exchange an operation audience; approve, authorize and revoke *)
(* consent to an executable artifact; observe an installation; notify;     *)
(* declare audit event types; emit an audit event. Each validates its      *)
(* request, goes through callAsModule (ModuleAuthority models its          *)
(* capability; here a call is rejected at most twice, refused, or executed *)
(* once), and checks that the receipt is well formed and about what it     *)
(* asked for.                                                              *)
(*                                                                         *)
(* External are the host, which keeps consents and audit rows and may      *)
(* resolve an identifier to the wrong thing, the network, and a relay that *)
(* keeps audit events in an outbox over crashes, as audit.go:21-24 says.   *)
(***************************************************************************)
EXTENDS Naturals, FiniteSets

CONSTANTS Callers,      \* goroutines of the module
          Ids,          \* artifacts, installations, bindings
          Revision,     \* the revision each artifact's identity expects
          Keys,         \* events of the relay, by idempotency key
          MaxCalls,     \* bound: calls begun other than the relay's
          MaxFaults,    \* bound: answers lost, refused at random or wrong
          MaxCrashes    \* bound: crashes of the module's process

ASSUME RevisionAssumption == Revision \in [Ids -> Nat]
ASSUME KeysAssumption == Keys \cap Ids = {}
ASSUME BoundsAssumption ==
  MaxCalls \in Nat /\ MaxFaults \in Nat /\ MaxCrashes \in Nat

VARIABLES authority,  \* New was given the authority seam
          call,       \* per goroutine, the call in progress or its outcome
          outbox,     \* the events the relay persisted and has not seen through
          consent,    \* the host's record of each artifact
          written,    \* the audit rows the host wrote for each event
          spent       \* what of the bounds is used up

vars == <<authority, call, outbox, consent, written, spent>>

Procedures == {"exchange", "approve", "authorize", "revoke", "installation",
               "notify", "declare", "audit"}
Errors == {"none", "ErrInvalidExchange", "ErrInvalidArtifact",
           "ErrInvalidInstallation", "ErrInvalidNotice",
           "ErrInvalidAuditEvent", "ErrInvalidCapability", "ErrNoAuthority",
           "MintFailed", "Unauthenticated", "HostError"}
Unexecuted == "nothing"

ASSUME UnexecutedAssumption == Unexecuted \notin Ids \cup Keys

TypeOK ==
  /\ authority \in BOOLEAN
  /\ call \in [Callers ->
       [phase : {"idle", "first", "retry", "executed", "returned"},
        op : Procedures,
        about : Ids \cup Keys,
        did : Ids \cup Keys \cup {Unexecuted},  \* what the host did it to
        formed : BOOLEAN,                       \* the receipt is well formed
        err : Errors]]
  /\ outbox \subseteq Keys
  /\ consent \in [Ids -> {"none", "approved", "revoked"}]
  /\ written \in [Keys -> Nat]
  /\ spent \in [calls : 0 .. MaxCalls, faults : 0 .. MaxFaults,
                crashes : 0 .. MaxCrashes]
  /\ \A c \in Callers :
       /\ call[c].phase \in {"first", "retry"} => call[c].did = Unexecuted
       /\ call[c].phase = "executed" => call[c].did # Unexecuted
       /\ call[c].phase \in {"first", "retry", "executed"} => authority

Init ==
  /\ authority \in BOOLEAN
  /\ \E i \in Ids :
       call = [c \in Callers |-> [phase |-> "idle", op |-> "exchange",
                                  about |-> i, did |-> Unexecuted,
                                  formed |-> TRUE, err |-> "none"]]
  /\ outbox = Keys
  /\ consent = [i \in Ids |-> "none"]
  /\ written = [k \in Keys |-> 0]
  /\ spent = [calls |-> 0, faults |-> 0, crashes |-> 0]

-----------------------------------------------------------------------------
(* What the facades send and accept. *)

\* The sentinel for a request that is not sent; a declaration always is.
InvalidRequest(op) ==
  CASE op = "exchange" -> "ErrInvalidExchange"
    [] op \in {"approve", "authorize", "revoke"} -> "ErrInvalidArtifact"
    [] op = "installation" -> "ErrInvalidInstallation"
    [] op = "notify" -> "ErrInvalidNotice"
    [] op = "audit" -> "ErrInvalidAuditEvent"

\* (Slip: the request is built without it.)
Unkeyed(op) == FALSE

\* The idempotency key is on the wire.
Keyed(op) == op = "audit"

\* (Slip: the approval a revocation names is not compared.)
ComparedApproval(op, about, did) ==
  /\ op = "installation" => did = about
  /\ op \in {"approve", "authorize"} => Revision[did] = Revision[about]

\* What a receipt can be compared with; notices and events have none.
Compared(op, about, did) ==
  /\ op \in {"revoke", "installation"} => did = about
  /\ op \in {"approve", "authorize"} => Revision[did] = Revision[about]

\* (Slip: an unexpected answer to a notice is blamed on the notice.)
BadReceiptOfNotice(op) ==
  CASE op \in {"approve", "authorize", "revoke"} -> "ErrInvalidArtifact"
    [] op = "installation" -> "ErrInvalidInstallation"
    [] op = "exchange" -> "ErrInvalidCapability"
    [] op = "notify" -> "ErrInvalidNotice"
    [] OTHER -> "none"

\* The sentinel for a receipt that is not accepted; the rest accept any.
BadReceipt(op) ==
  CASE op \in {"approve", "authorize", "revoke"} -> "ErrInvalidArtifact"
    [] op = "installation" -> "ErrInvalidInstallation"
    [] op = "exchange" -> "ErrInvalidCapability"
    [] OTHER -> "none"

\* (Slip: the empty answer to an event is taken for a failure.)
ReceiptOfEvent(op, about, did, formed) ==
  IF formed /\ Compared(op, about, did) /\ op # "audit" THEN "none"
                                                        ELSE "HostError"

\* The error made of a receipt.
Receipt(op, about, did, formed) ==
  IF formed /\ Compared(op, about, did) THEN "none" ELSE BadReceipt(op)

-----------------------------------------------------------------------------
(* A call: its steps, the host's and the network's. *)

Spend(kind, bound) ==
  /\ spent[kind] < bound
  /\ spent' = [spent EXCEPT ![kind] = @ + 1]

InPhase(c, phases) == call[c].phase \in phases

Return(c, err) ==
  call' = [call EXCEPT ![c].phase = "returned", ![c].err = err]

\* (Slip: the authority seam is not looked at.)
RefusedInvalid(op, valid) == IF valid THEN "none" ELSE InvalidRequest(op)

\* The error of a call before anything is sent: the request, then the seam.
Refused(op, valid) ==
  CASE ~valid -> InvalidRequest(op)
    [] valid /\ ~authority -> "ErrNoAuthority"
    [] OTHER -> "none"

\* Validate the request, then enter callAsModule.
Enter(c, op, about, valid) ==
  LET err == Refused(op, valid)
  IN  call' = [call EXCEPT
        ![c] = [phase |-> IF err = "none" THEN "first" ELSE "returned",
                op |-> op, about |-> about, did |-> Unexecuted,
                formed |-> TRUE, err |-> err]]

Begin(c) ==
  /\ InPhase(c, {"idle", "returned"})
  /\ Spend("calls", MaxCalls)
  /\ \E op \in Procedures \ {"audit"}, about \in Ids, valid \in BOOLEAN :
       /\ op = "declare" => valid
       /\ Enter(c, op, about, valid)
  /\ UNCHANGED <<authority, outbox, consent, written>>

\* External: the relay emits an event of its outbox, one goroutine at a time.
Emit(c, k) ==
  /\ InPhase(c, {"idle", "returned"})
  /\ k \in outbox
  /\ \A d \in Callers : call[d].op = "audit" /\ call[d].about = k =>
       InPhase(d, {"idle"}) \/ (InPhase(d, {"returned"}) /\ call[d].err # "none")
  /\ Enter(c, "audit", k, TRUE)
  /\ UNCHANGED <<authority, outbox, consent, written, spent>>

\* No capability to call with, at first or after a rejection.
MintFails(c) ==
  /\ InPhase(c, {"first", "retry"})
  /\ Spend("faults", MaxFaults)
  /\ Return(c, "MintFailed")
  /\ UNCHANGED <<authority, outbox, consent, written>>

\* External: the host rejects the capability; callAsModule retries once.
Reject(c) ==
  /\ InPhase(c, {"first", "retry"})
  /\ Spend("faults", MaxFaults)
  /\ IF InPhase(c, {"first"}) THEN call' = [call EXCEPT ![c].phase = "retry"]
                              ELSE Return(c, "Unauthenticated")
  /\ UNCHANGED <<authority, outbox, consent, written>>

\* External: what the host can do about i, and the consent it leaves.
Possible(procedure, i) ==
  /\ procedure = "approve" => consent[i] # "revoked"
  /\ procedure = "authorize" => consent[i] = "approved"
  /\ procedure = "revoke" => consent[i] # "none"

Consented(procedure, i) ==
  CASE procedure = "approve" -> "approved"
    [] procedure = "revoke" -> "revoked"
    [] OTHER -> consent[i]

\* External: the host refuses, as it must or for a reason of its own.
Refuse(c) ==
  /\ InPhase(c, {"first", "retry"})
  /\ \/ /\ call[c].about \in Ids
        /\ ~Possible(call[c].op, call[c].about)
        /\ UNCHANGED spent
     \/ Spend("faults", MaxFaults)
  /\ Return(c, "HostError")
  /\ UNCHANGED <<authority, outbox, consent, written>>

Executed(c, did, formed) ==
  call' = [call EXCEPT ![c].phase = "executed", ![c].did = did,
                       ![c].formed = formed]

\* External: the host executes it, on what was asked or, as a fault, on
\* something else or with a malformed receipt.
Execute(c) ==
  /\ InPhase(c, {"first", "retry"})
  /\ call[c].about \in Ids
  /\ \E i \in Ids, formed \in BOOLEAN :
       /\ Possible(call[c].op, i)
       /\ consent' = [consent EXCEPT ![i] = Consented(call[c].op, i)]
       /\ Executed(c, i, formed)
       /\ IF i = call[c].about /\ formed THEN UNCHANGED spent
                                         ELSE Spend("faults", MaxFaults)
  /\ UNCHANGED <<authority, outbox, written>>

\* External: the host deduplicates by the key, when there is one.
WriteEvent(c) ==
  LET k == call[c].about
  IN  /\ InPhase(c, {"first", "retry"})
      /\ k \in Keys
      /\ written' = [written EXCEPT
           ![k] = IF Keyed(call[c].op) /\ @ > 0 THEN @ ELSE @ + 1]
      /\ Executed(c, k, TRUE)
      /\ UNCHANGED <<authority, outbox, consent, spent>>

\* External: the answer is lost; the call was executed nonetheless.
Lose(c) ==
  /\ InPhase(c, {"executed"})
  /\ Spend("faults", MaxFaults)
  /\ Return(c, "HostError")
  /\ UNCHANGED <<authority, outbox, consent, written>>

Answer(c) ==
  /\ InPhase(c, {"executed"})
  /\ Return(c, Receipt(call[c].op, call[c].about, call[c].did, call[c].formed))
  /\ UNCHANGED <<authority, outbox, consent, written, spent>>

\* External: the relay forgets an event that was acknowledged.
Acknowledge(c) ==
  /\ InPhase(c, {"returned"})
  /\ call[c].op = "audit" /\ call[c].err = "none"
  /\ call[c].about \in outbox
  /\ outbox' = outbox \ {call[c].about}
  /\ UNCHANGED <<authority, call, consent, written, spent>>

\* External: the process dies and starts again with its outbox.
Crash ==
  /\ \E c \in Callers : InPhase(c, {"first", "retry", "executed"})
  /\ Spend("crashes", MaxCrashes)
  /\ call' = [c \in Callers |->
                [call[c] EXCEPT !.phase = "idle", !.did = Unexecuted,
                                !.err = "none"]]
  /\ UNCHANGED <<authority, outbox, consent, written>>

Next ==
  \/ \E c \in Callers :
       \/ Begin(c) \/ MintFails(c) \/ Reject(c) \/ Refuse(c) \/ Execute(c)
       \/ WriteEvent(c) \/ Lose(c) \/ Answer(c) \/ Acknowledge(c)
       \/ \E k \in Keys : Emit(c, k)
  \/ Crash

Spec == Init /\ [][Next]_vars

\* A call ends and the relay goes on.
Fairness ==
  /\ \A c \in Callers : WF_vars(Refuse(c) \/ Execute(c) \/ WriteEvent(c))
                        /\ WF_vars(Lose(c) \/ Answer(c))
                        /\ WF_vars(Acknowledge(c))
  /\ \A k \in Keys : SF_vars(\E c \in Callers : Emit(c, k))

FairSpec == Spec /\ Fairness

-----------------------------------------------------------------------------
(* Properties. *)

Succeeded(c) == InPhase(c, {"returned"}) /\ call[c].err = "none"

\* What a facade returns is so. On success the host did what it was asked, to what
\* it was asked about as far as the receipt tells: a revocation and an
\* installation by name, a consent by its revision (artifactReceipt,
\* GetCurrentInstallation); a consent the module was told is revoked is revoked,
\* and stays so. The errors documented as returned before any call, and a rejected
\* capability, mean that the host did nothing: the operation may be repeated even
\* where it is not idempotent.
OutcomeIsTrue ==
  \A c \in Callers :
    /\ Succeeded(c) =>
         /\ call[c].did # Unexecuted
         /\ call[c].op = "installation" => call[c].did = call[c].about
         /\ call[c].op = "revoke" => consent[call[c].about] = "revoked"
         /\ call[c].op \in {"approve", "authorize"} =>
              Revision[call[c].did] = Revision[call[c].about]
    /\ InPhase(c, {"returned"})
       /\ call[c].err \in {"ErrInvalidExchange", "ErrInvalidNotice",
                           "ErrInvalidAuditEvent", "ErrNoAuthority", "MintFailed",
                           "Unauthenticated"}
       => call[c].did = Unexecuted

\* An event is written at most once over lost answers, retries and crashes,
\* and what the relay forgot has been written: the key it persisted reaches
\* the host with every attempt (auditRequest).
EventsWrittenOnce ==
  \A k \in Keys :
    /\ written[k] <= 1
    /\ k \notin outbox => written[k] = 1

\* With an authority endpoint every event of the outbox is written in the end.
EventsWritten == \A k \in Keys : authority ~> (written[k] = 1 /\ k \notin outbox)

=============================================================================
