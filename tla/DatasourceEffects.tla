-------------------------- MODULE DatasourceEffects --------------------------
(***************************************************************************)
(* datasource.Client.Invoke and Lookup: one operation with an effect at a  *)
(* provider, called through a host over a network that loses and delays.   *)
(*                                                                         *)
(* Workers run one job each (or, with a persisted effect ID, the same job, *)
(* redelivered) the way the package documents: Invoke, and after an        *)
(* unknown outcome Lookup under the original ID, never a fresh one. The    *)
(* SDK's part is what it makes of each reply (InvokeOutcome and            *)
(* LookupOutcome) and that every outcome after dispatch keeps the ID. The  *)
(* host, the network, the workers and their crashes are external.          *)
(***************************************************************************)
EXTENDS HostErrors, Naturals, FiniteSets

CONSTANTS Workers,
          Inputs,      \* encoded inputs of the job
          MaxCalls,    \* bound: calls of all workers together
          MaxCrashes,  \* bound: crashes of workers
          NoEffect, NoReply, NoInput

\* Effect IDs are numbered; 0 is the one persisted with the job.
Ids == 0..MaxCalls

ASSUME BoundsAssumption == MaxCalls \in Nat /\ MaxCrashes \in Nat
ASSUME NothingAssumption == NoEffect \notin Ids /\ NoInput \notin Inputs

VARIABLES persisted,   \* the job's effect ID was persisted before the first call
          minted,      \* effect IDs minted by the SDK so far
          phase,       \* where each worker is
          effect,      \* the effect ID it knows
          input,       \* the input it sends
          calls,       \* calls it made; the last one is the one it waits for
          made,        \* calls of all workers, for the bound
          unresolved,  \* an earlier attempt under its ID may have acted
          crashes,
          inflight,    \* requests sent and not answered, waited for or not
          reply,       \* the reply that reached each worker
          attempt,     \* the host: what is recorded of each effect ID
          bound,       \* the host: the input it was attempted with
          declared,    \* the host: the operation is declared
          actedBy      \* the provider: the calls that acted, by effect ID

workers == <<phase, effect, input, calls, made, unresolved, crashes>>
net == <<inflight, reply>>
host == <<attempt, bound, declared>>
vars == <<persisted, minted, workers, net, host, actedBy>>

Phases == {"start", "invoking", "recover", "looking", "committed", "refused",
           "stopped"}
Replies == [code : Codes \cup {"ok", "nonwire"}, status : {"committed", "unknown", "invalid", "none"},
            output : BOOLEAN]
Requests == [from : Workers, call : Nat, kind : {"invoke", "lookup"}, id : Ids,
             input : Inputs, stage : {"sent", "attempting", "acted"}]

TypeOK ==
  /\ persisted \in BOOLEAN
  /\ minted \in Ids
  /\ phase \in [Workers -> Phases]
  /\ effect \in [Workers -> Ids \cup {NoEffect}]
  /\ input \in [Workers -> Inputs]
  /\ calls \in [Workers -> 0..MaxCalls] /\ made \in 0..MaxCalls
  /\ unresolved \in [Workers -> BOOLEAN]
  /\ crashes \in 0..MaxCrashes
  /\ inflight \subseteq Requests
  /\ reply \in [Workers -> Replies \cup {NoReply}]
  /\ attempt \in [Ids -> {"absent", "attempted", "refused", "committed", "unknown"}]
  /\ bound \in [Ids -> Inputs \cup {NoInput}]
  /\ declared \in BOOLEAN
  /\ actedBy \in [Ids -> SUBSET (Workers \X (1..MaxCalls))]

Init ==
  /\ persisted \in BOOLEAN
  /\ minted = 0
  /\ phase = [w \in Workers |-> "start"]
  /\ effect = [w \in Workers |-> IF persisted THEN 0 ELSE NoEffect]
  /\ input \in [Workers -> Inputs]
  /\ calls = [w \in Workers |-> 0] /\ made = 0
  /\ unresolved = [w \in Workers |-> FALSE]
  /\ crashes = 0
  /\ inflight = {}
  /\ reply = [w \in Workers |-> NoReply]
  /\ attempt = [e \in Ids |-> "absent"]
  /\ bound = [e \in Ids |-> NoInput]
  /\ declared = TRUE
  /\ actedBy = [e \in Ids |-> {}]

-----------------------------------------------------------------------------
(* What the SDK makes of a reply. *)

Outcome(kind, status) == [kind |-> kind, status |-> status]
Unknown == Outcome("OutcomeUnknown", "unknown")

\* (Slip: the status of the receipt is not looked at.)
AnyReceiptOutcome(r) == Outcome(IF r.output THEN "ok" ELSE "DatasourceError", "committed")

\* committedOutput: bad output leaves a commit a commit.
CommittedOutput(r) == Outcome(IF r.output THEN "ok" ELSE "DatasourceError", "committed")

\* operationReceipt: a receipt of another effect, in an unsupported status or with
\* a bad time proves nothing.
ReceiptOutcome(r) == IF r.status # "committed" THEN Unknown ELSE CommittedOutput(r)

\* What was not decoded has a code all the same: Connect infers one from the HTTP
\* status, say PermissionDenied from a proxy's 403.
ErrorOutcome(r) ==
  Outcome(IF r.code = "nonwire" THEN MapHostError(FALSE, "PermissionDenied", TRUE)
                                ELSE MapHostError(TRUE, r.code, TRUE),
          IF r.code = "Removed" /\ r.status = "committed" THEN "committed"
                                                          ELSE "unknown")

InvokeOutcome(r) == IF r.code = "ok" THEN ReceiptOutcome(r) ELSE ErrorOutcome(r)

\* Lookup tells an absent effect from an unknown operation, and a host that ran
\* out of time from one that answered.
LookupOutcome(r) ==
  CASE r.code = "ok"               -> ReceiptOutcome(r)
    [] r.code = "NotFound"         -> Outcome("ErrEffectNotFound", "not attempted")
    [] r.code = "DeadlineExceeded" -> Outcome("error", "none")
    [] OTHER                       -> ErrorOutcome(r)

-----------------------------------------------------------------------------
(* Calls. *)

Send(w, kind, e) ==
  /\ made < MaxCalls
  /\ made' = made + 1
  /\ calls' = [calls EXCEPT ![w] = @ + 1]
  /\ inflight' = inflight \cup {[from |-> w, call |-> calls[w] + 1, kind |-> kind,
                                 id |-> e, input |-> input[w], stage |-> "sent"]}
  /\ reply' = [reply EXCEPT ![w] = NoReply]

\* (Slip: every Invoke mints.)
InvokeFresh(w) ==
  /\ phase[w] = "start"
  /\ minted' = minted + 1
  /\ effect' = [effect EXCEPT ![w] = minted + 1]
  /\ Send(w, "invoke", minted + 1)
  /\ phase' = [phase EXCEPT ![w] = "invoking"]
  /\ UNCHANGED <<persisted, input, unresolved, crashes, host, actedBy>>

\* Invoke under the ID the worker has (WithEffectID), or a freshly minted one.
\* The Result carries the ID from before the dispatch on.
Invoke(w) ==
  /\ phase[w] = "start"
  /\ LET e == IF effect[w] = NoEffect THEN minted + 1 ELSE effect[w]
     IN  /\ minted' = IF effect[w] = NoEffect THEN minted + 1 ELSE minted
         /\ effect' = [effect EXCEPT ![w] = e]
         /\ Send(w, "invoke", e)
  /\ phase' = [phase EXCEPT ![w] = "invoking"]
  /\ UNCHANGED <<persisted, input, unresolved, crashes, host, actedBy>>

\* InputError, or the context's error, before dispatch: no Result, nothing sent.
InvokeRefusesInput(w) ==
  /\ phase[w] = "start"
  /\ phase' = [phase EXCEPT ![w] = IF unresolved[w] THEN "recover" ELSE "refused"]
  /\ UNCHANGED <<persisted, minted, effect, input, calls, made, unresolved, crashes,
                 net, host, actedBy>>

Lookup(w) ==
  /\ phase[w] = "recover"
  /\ Send(w, "lookup", effect[w])
  /\ phase' = [phase EXCEPT ![w] = "looking"]
  /\ UNCHANGED <<persisted, minted, effect, input, unresolved, crashes, host, actedBy>>

\* (Slip: an outcome no arm names is left standing.)
AfterInvokeUnnamed(w, o) ==
  /\ phase' = [phase EXCEPT ![w] =
       CASE o.kind \in {"ok", "DatasourceError"}  -> "committed"
         [] o.kind \in Definite /\ ~unresolved[w] -> "refused"
         [] OTHER                                 -> o.kind]
  /\ unresolved' = [unresolved EXCEPT ![w] = @ \/ o.kind \notin Definite]

\* External: what a worker following the documentation does with an outcome. A
\* refusal says nothing of an earlier attempt.
AfterInvoke(w, o) ==
  /\ phase' = [phase EXCEPT ![w] =
       CASE o.kind \in {"ok", "DatasourceError"}          -> "committed"
         [] o.kind \in Definite /\ ~unresolved[w]          -> "refused"
         [] OTHER                                         -> "recover"]
  /\ unresolved' = [unresolved EXCEPT ![w] = @ \/ o.kind \notin Definite]

AfterLookup(w, o) ==
  /\ phase' = [phase EXCEPT ![w] =
       CASE o.kind \in {"ok", "DatasourceError"} -> "committed"
         [] o.kind = "ErrEffectNotFound"         -> "start"
         [] o.kind \in Definite                  -> "stopped"
         [] OTHER                                -> "recover"]
  /\ UNCHANGED unresolved

\* (Slip: an error returns without a Result, and the job stops, not knowing.)
InvokeReturnsBare(w) ==
  /\ phase[w] = "invoking" /\ reply[w] # NoReply
  /\ IF persisted \/ reply[w].code = "ok"
     THEN AfterInvoke(w, InvokeOutcome(reply[w])) /\ UNCHANGED effect
     ELSE /\ effect' = [effect EXCEPT ![w] = NoEffect]
          /\ phase' = [phase EXCEPT ![w] = "stopped"]
          /\ UNCHANGED unresolved
  /\ reply' = [reply EXCEPT ![w] = NoReply]
  /\ UNCHANGED <<persisted, minted, input, calls, made, crashes, inflight, host, actedBy>>

InvokeReturns(w) ==
  /\ phase[w] = "invoking" /\ reply[w] # NoReply
  /\ AfterInvoke(w, InvokeOutcome(reply[w]))
  /\ reply' = [reply EXCEPT ![w] = NoReply]
  /\ UNCHANGED <<persisted, minted, effect, input, calls, made, crashes, inflight, host,
                 actedBy>>

LookupReturns(w) ==
  /\ phase[w] = "looking" /\ reply[w] # NoReply
  /\ AfterLookup(w, LookupOutcome(reply[w]))
  /\ reply' = [reply EXCEPT ![w] = NoReply]
  /\ UNCHANGED <<persisted, minted, effect, input, calls, made, crashes, inflight, host,
                 actedBy>>

\* The deadline passed or the connection broke: not a decoded answer. The
\* request may still be on its way.
Lost(w) ==
  /\ phase[w] \in {"invoking", "looking"} /\ reply[w] = NoReply
  /\ reply' = [reply EXCEPT ![w] = [code |-> "nonwire", status |-> "none", output |-> FALSE]]
  /\ UNCHANGED <<persisted, minted, workers, inflight, host, actedBy>>

\* External: the worker's process dies and starts over with what it persisted;
\* it may encode the input anew.
Crash(w) ==
  /\ crashes < MaxCrashes /\ phase[w] \in {"invoking", "recover", "looking"}
  /\ crashes' = crashes + 1
  /\ effect' = [effect EXCEPT ![w] = IF persisted THEN 0 ELSE NoEffect]
  /\ unresolved' = [unresolved EXCEPT ![w] = persisted]
  /\ phase' = [phase EXCEPT ![w] = "start"]
  /\ \E i \in Inputs : input' = [input EXCEPT ![w] = i]
  /\ reply' = [reply EXCEPT ![w] = NoReply]
  /\ UNCHANGED <<persisted, minted, calls, made, inflight, host, actedBy>>

-----------------------------------------------------------------------------
(* External: the host, one handler per request. *)

\* The reply reaches the worker if it still waits for that call.
Answer(m, codes, status) ==
  /\ inflight' = inflight \ {m}
  /\ LET waits == /\ phase[m.from] = IF m.kind = "invoke" THEN "invoking" ELSE "looking"
                  /\ calls[m.from] = m.call /\ reply[m.from] = NoReply
     IN  \E code \in codes, s \in {status, "invalid"}, output \in BOOLEAN :
           /\ IF code = "ok" THEN output => s = "committed" ELSE s = status /\ ~output
           /\ reply' = IF waits
                         THEN [reply EXCEPT ![m.from] =
                                 [code |-> code, status |-> s, output |-> output]]
                         ELSE reply
  /\ UNCHANGED <<persisted, minted, workers>>

\* Before any attempt the host may refuse; it is then as if never asked. Of the
\* codes that HostErrors treats alike the host answers with one.
RefuseInvoke(m) ==
  /\ m.kind = "invoke" /\ m.stage = "sent" /\ attempt[m.id] = "absent"
  /\ Answer(m, IF declared
                 THEN {"PermissionDenied", "Precondition", "Internal"}
                 ELSE {"NotFound"}, "none")
  /\ UNCHANGED <<host, actedBy>>

\* The attempt is on record before the provider is called.
Attempt(m) ==
  /\ m.kind = "invoke" /\ m.stage = "sent" /\ attempt[m.id] = "absent" /\ declared
  /\ attempt' = [attempt EXCEPT ![m.id] = "attempted"]
  /\ bound' = [bound EXCEPT ![m.id] = m.input]
  /\ inflight' = (inflight \ {m}) \cup {[m EXCEPT !.stage = "attempting"]}
  /\ UNCHANGED <<persisted, minted, workers, reply, declared, actedBy>>

Act(m) ==
  /\ m.stage = "attempting"
  /\ actedBy' = [actedBy EXCEPT ![m.id] = @ \cup {<<m.from, m.call>>}]
  /\ inflight' = (inflight \ {m}) \cup {[m EXCEPT !.stage = "acted"]}
  /\ UNCHANGED <<persisted, minted, workers, reply, host>>

ProviderRefuses(m) ==
  /\ m.stage = "attempting"
  /\ attempt' = [attempt EXCEPT ![m.id] = "refused"]
  /\ Answer(m, {"ProviderRefused"}, "none")
  /\ UNCHANGED <<bound, declared, actedBy>>

Commit(m) ==
  /\ m.stage = "acted"
  /\ attempt' = [attempt EXCEPT ![m.id] = "committed"]
  /\ Answer(m, {"ok"}, "committed")
  /\ UNCHANGED <<bound, declared, actedBy>>

\* The handler dies, or loses the provider's answer, with the attempt on record.
LoseTrack(m) ==
  /\ m.stage \in {"attempting", "acted"}
  /\ attempt' = [attempt EXCEPT ![m.id] = "unknown"]
  /\ Answer(m, {"OutcomeUnknown", "Unavailable", "Internal"}, "none")
  /\ UNCHANGED <<bound, declared, actedBy>>

\* A repeated Invoke is answered from the record.
Replay(m) ==
  /\ m.kind = "invoke" /\ m.stage = "sent" /\ attempt[m.id] # "absent"
  /\ LET s == IF attempt[m.id] = "committed" THEN "committed" ELSE "unknown"
     IN  Answer(m,
           CASE bound[m.id] # m.input        -> {"EffectReused"}
             [] attempt[m.id] = "refused"    -> {"ProviderRefused"}
             [] ~declared                    -> {"Removed"}
             [] attempt[m.id] = "committed"  -> {"ok"}
             [] OTHER                        -> {"OutcomeUnknown", "ok"},
           s)
  /\ UNCHANGED <<host, actedBy>>

AnswerLookup(m) ==
  /\ m.kind = "lookup"
  /\ Answer(m,
       {"PermissionDenied", "DeadlineExceeded"} \cup
       CASE attempt[m.id] = "absent"  -> {"NotFound"}
         [] attempt[m.id] = "refused" -> {"ProviderRefused"}
         [] OTHER                     -> {"ok"},
       IF attempt[m.id] = "committed" THEN "committed" ELSE "unknown")
  /\ UNCHANGED <<host, actedBy>>

\* An administrator replaces the declarations.
RemoveDeclaration ==
  /\ declared
  /\ declared' = FALSE
  /\ UNCHANGED <<persisted, minted, workers, net, attempt, bound, actedBy>>

Next ==
  \/ \E w \in Workers :
       \/ Invoke(w) \/ InvokeRefusesInput(w) \/ Lookup(w)
       \/ InvokeReturns(w) \/ LookupReturns(w) \/ Lost(w) \/ Crash(w)
  \/ \E m \in inflight :
       \/ RefuseInvoke(m) \/ Attempt(m) \/ Act(m) \/ ProviderRefuses(m)
       \/ Commit(m) \/ LoseTrack(m) \/ Replay(m) \/ AnswerLookup(m)
  \/ RemoveDeclaration

Spec == Init /\ [][Next]_vars

-----------------------------------------------------------------------------
(* Properties. *)

ActsOf(w) == {a \in UNION {actedBy[e] : e \in Ids} : a[1] = w}

\* "Do not change the ID to recover an uncertain mutation" (README): however
\* requests are delayed, repeated, redelivered to another worker or cut short by
\* crashes, a job with a persisted ID acts at the provider at most once; without
\* one, so does each worker that does not crash.
JobActsOnce ==
  IF persisted THEN Cardinality(UNION {actedBy[e] : e \in Ids}) <= 1
  ELSE crashes = 0 => \A w \in Workers : Cardinality(ActsOf(w)) <= 1

\* "Unknown is an outcome, not evidence of failure" (README): a worker that
\* concluded its job was done has an effect at the provider under its ID; one
\* that concluded it was refused has none of its own, and no request under way
\* that could still have one.
Concluded ==
  \A w \in Workers :
    /\ phase[w] = "committed" => actedBy[effect[w]] # {}
    /\ phase[w] = "refused" /\ effect[w] # NoEffect =>
         /\ actedBy[effect[w]] \cap ActsOf(w) = {}
         /\ ~\E m \in inflight :
              m.from = w /\ m.kind = "invoke" /\ m.id = effect[w]

\* "Every outcome keeps the ID, so a minted effect ID is never lost"
\* (types.go:60): whatever replies were lost, a worker that has not crashed can
\* look up every effect its requests had.
EvidenceKept ==
  ~persisted /\ crashes = 0 =>
    \A w \in Workers : \A e \in Ids :
      actedBy[e] \cap ActsOf(w) # {} => effect[w] = e

\* What the caller is promised (EffectPromise), in any order of requests, replies,
\* crashes and recoveries.
Promise == INSTANCE EffectPromise WITH
  Calls <- 1..MaxCalls,
  kept  <- IF persisted THEN 0 ELSE NoEffect,
  used  <- {0} \cup 1..minted,
  acted <- actedBy,
  told  <- [w \in Workers |-> IF phase[w] \in {"committed", "refused"} THEN phase[w]
                                                                     ELSE "nothing"]

\* "The host replays an identical request and refuses different input under the
\* same ID" (invoke_options.go:16), "Unknown is an outcome, not evidence of
\* failure" (README): an ID acts at most once, a worker keeps its ID for as long as
\* it does not know, and what it was told is and stays true, even of requests that
\* are still under way when it is told.
EffectPromised == Promise!Spec

=============================================================================
