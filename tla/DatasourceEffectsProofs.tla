----------------------- MODULE DatasourceEffectsProofs -----------------------
(***************************************************************************)
(* A job acts at most once, no ID is lost, what a worker concludes is so,  *)
(* and DatasourceEffects implements EffectPromise: for any number of       *)
(* workers, inputs, calls and crashes.                                     *)
(***************************************************************************)
EXTENDS DatasourceEffects, FiniteSetTheorems, TLAPS

\* No more IDs are minted, and no worker makes more calls, than there are calls.
Counted == minted <= made /\ \A w \in Workers : calls[w] <= made

\* Every request is of one call, and at most one per ID is being attempted; it, and
\* the record of the attempt, tell whether the ID has acted.
Requested ==
  /\ \A m \in inflight :
       /\ m.call \in 1..calls[m.from] /\ m.id <= minted
       /\ m.stage # "sent" => m.kind = "invoke" /\ attempt[m.id] = "attempted"
       /\ m.stage = "attempting" => actedBy[m.id] = {}
       /\ m.stage = "acted" => actedBy[m.id] # {}
       /\ m.stage # "acted" => <<m.from, m.call>> \notin actedBy[m.id]
  /\ \A m, n \in inflight :
       /\ m.from = n.from /\ m.call = n.call => m = n
       /\ m.id = n.id /\ m.stage # "sent" /\ n.stage # "sent" => m = n

ActsRecorded ==
  \A e \in Ids :
    /\ attempt[e] \in {"absent", "refused"} => actedBy[e] = {}
    /\ attempt[e] = "committed" => actedBy[e] # {}
    /\ \A a \in actedBy[e] : e <= minted /\ a[2] <= calls[a[1]]
    /\ \A a, b \in actedBy[e] : a = b

\* A worker goes by one ID: the persisted one, or the one it minted until it crashes.
Named ==
  /\ persisted => minted = 0 /\ \A w \in Workers : effect[w] = 0
  /\ \A w \in Workers :
       /\ effect[w] # NoEffect => effect[w] <= minted
       /\ phase[w] \in {"invoking", "recover", "looking", "committed"} => effect[w] # NoEffect
       /\ unresolved[w] => effect[w] # NoEffect
       /\ phase[w] \in {"recover", "looking"} => unresolved[w]
       /\ phase[w] = "refused" => ~unresolved[w]

Owned ==
  ~persisted /\ crashes = 0 =>
    /\ \A m \in inflight : effect[m.from] = m.id
    /\ \A e \in Ids : \A a \in actedBy[e] : effect[a[1]] = e

\* The codes this host answers with, and what makes a reply say what it says.
HostCodes == Codes \ {"UnsupportedEncoding"}

Replied ==
  /\ \A m \in inflight :
       phase[m.from] \in {"invoking", "looking"} /\ m.call = calls[m.from] =>
         m.id = effect[m.from]
  /\ \A w \in Workers : reply[w] # NoReply =>
       /\ phase[w] \in {"invoking", "looking"}
       /\ reply[w].code \in HostCodes \cup {"ok", "nonwire"}
       /\ reply[w].status = "committed" => actedBy[effect[w]] # {}
  /\ \A w \in Workers : phase[w] = "committed" => actedBy[effect[w]] # {}

\* Nothing w asked for under its ID has acted, or still can.
Silent(w) ==
  /\ \A m \in inflight : ~(m.from = w /\ m.kind = "invoke" /\ m.id = effect[w])
  /\ \A a \in actedBy[effect[w]] : a[1] # w

\* A worker that is not unresolved has at most the call it waits for outstanding, and
\* not even that when the reply says so.
Settled ==
  \A w \in Workers : effect[w] # NoEffect /\ ~unresolved[w] =>
    /\ phase[w] \in {"start", "refused"} => Silent(w)
    /\ phase[w] = "invoking" =>
         /\ \A m \in inflight :
              m.from = w /\ m.kind = "invoke" /\ m.id = effect[w] => m.call = calls[w]
         /\ \A a \in actedBy[effect[w]] : a[1] = w => a[2] = calls[w]
         /\ reply[w] # NoReply /\ InvokeOutcome(reply[w]).kind \in Definite => Silent(w)

IInv == TypeOK /\ Counted /\ Requested /\ ActsRecorded /\ Named /\ Owned /\ Replied /\ Settled

-----------------------------------------------------------------------------
(* What the actions do to requests and replies. *)

\* The states of a call in which its worker waits for the reply to a request.
Awaits(m) ==
  /\ phase[m.from] = IF m.kind = "invoke" THEN "invoking" ELSE "looking"
  /\ calls[m.from] = m.call /\ reply[m.from] = NoReply

\* An answer ends the request and reaches the worker that waits for it, if it does.
LEMMA Answered ==
  ASSUME NEW m, NEW codes, NEW status, Answer(m, codes, status),
         codes \subseteq HostCodes \cup {"ok"}, status \in {"committed", "unknown", "none"}
  PROVE  /\ inflight' = inflight \ {m}
         /\ UNCHANGED <<persisted, minted, workers>>
         /\ \/ reply' = reply
            \/ /\ Awaits(m)
               /\ \E r \in Replies :
                    /\ reply' = [reply EXCEPT ![m.from] = r]
                    /\ r.code \in codes /\ r.status \in {status, "invalid"}
<1>1. PICK code \in codes, s \in {status, "invalid"}, output \in BOOLEAN :
        reply' = IF Awaits(m)
                   THEN [reply EXCEPT ![m.from] =
                           [code |-> code, status |-> s, output |-> output]]
                   ELSE reply
  BY DEF Answer, Awaits
<1> DEFINE r == [code |-> code, status |-> s, output |-> output]
<1>2. r \in Replies /\ r.code = code /\ r.status = s
  BY DEF Replies, HostCodes
<1> HIDE DEF r
<1>3. Awaits(m) => reply' = [reply EXCEPT ![m.from] = r] BY <1>1 DEF r
<1> QED BY <1>1, <1>2, <1>3 DEF Answer

\* The answers of the host's handlers, each with the codes it may have.
HostStep(m, codes, status) ==
  /\ Answer(m, codes, status)
  /\ codes \subseteq HostCodes \cup {"ok"} /\ status \in {"committed", "unknown", "none"}
  /\ UNCHANGED actedBy

LEMMA HandlersAnswer ==
  ASSUME NEW m \in inflight,
         \/ RefuseInvoke(m) \/ ProviderRefuses(m) \/ Commit(m) \/ LoseTrack(m)
         \/ Replay(m) \/ AnswerLookup(m)
  PROVE  \E codes, status :
           /\ HostStep(m, codes, status)
           /\ status = "committed" =>
                attempt[m.id] = "committed" \/ Commit(m)
           /\ \/ m.kind = "lookup"
              \/ m.stage # "acted"
              \/ codes \subseteq {"ok", "OutcomeUnknown", "Unavailable", "Internal"}
<1> USE DEF HostStep, HostCodes, Codes
<1>1. CASE RefuseInvoke(m)
  <2> DEFINE codes == IF declared THEN {"PermissionDenied", "Precondition", "Internal"}
                                  ELSE {"NotFound"}
  <2>1. Answer(m, codes, "none") /\ UNCHANGED actedBy /\ m.stage = "sent"
    BY <1>1 DEF RefuseInvoke
  <2>2. codes \subseteq HostCodes \cup {"ok"} OBVIOUS
  <2> HIDE DEF codes
  <2> QED BY <2>1, <2>2
<1>2. CASE ProviderRefuses(m)
  BY <1>2 DEF ProviderRefuses
<1>3. CASE Commit(m)
  BY <1>3 DEF Commit
<1>4. CASE LoseTrack(m)
  BY <1>4 DEF LoseTrack
<1>5. CASE Replay(m)
  <2> DEFINE s == IF attempt[m.id] = "committed" THEN "committed" ELSE "unknown"
             codes == CASE bound[m.id] # m.input        -> {"EffectReused"}
                        [] attempt[m.id] = "refused"    -> {"ProviderRefused"}
                        [] ~declared                    -> {"Removed"}
                        [] attempt[m.id] = "committed"  -> {"ok"}
                        [] OTHER                        -> {"OutcomeUnknown", "ok"}
  <2>1. Answer(m, codes, s) /\ UNCHANGED actedBy /\ m.stage = "sent"
    BY <1>5 DEF Replay
  <2>2. codes \subseteq HostCodes \cup {"ok"} OBVIOUS
  <2>3. s \in {"committed", "unknown"} /\ (s = "committed" => attempt[m.id] = "committed")
    OBVIOUS
  <2> HIDE DEF codes, s
  <2> QED BY <2>1, <2>2, <2>3
<1>6. CASE AnswerLookup(m)
  <2> DEFINE s == IF attempt[m.id] = "committed" THEN "committed" ELSE "unknown"
             codes == {"PermissionDenied", "DeadlineExceeded"} \cup
                      CASE attempt[m.id] = "absent"  -> {"NotFound"}
                        [] attempt[m.id] = "refused" -> {"ProviderRefused"}
                        [] OTHER                     -> {"ok"}
  <2>1. Answer(m, codes, s) /\ UNCHANGED actedBy /\ m.kind = "lookup"
    BY <1>6 DEF AnswerLookup
  <2>2. codes \subseteq HostCodes \cup {"ok"} OBVIOUS
  <2>3. s \in {"committed", "unknown"} /\ (s = "committed" => attempt[m.id] = "committed")
    OBVIOUS
  <2> HIDE DEF codes, s
  <2> QED BY <2>1, <2>2, <2>3
<1> QED BY <1>1, <1>2, <1>3, <1>4, <1>5, <1>6

\* Those of a handler that had acted leave the outcome open.
LEMMA OpenOutcome ==
  ASSUME NEW r, r.code \in {"ok", "OutcomeUnknown", "Unavailable", "Internal", "nonwire"}
  PROVE  InvokeOutcome(r).kind \notin Definite
BY DEF InvokeOutcome, ReceiptOutcome, CommittedOutput, ErrorOutcome, Unknown, Outcome,
       MapHostError, Meaning, Unsettled, Definite

-----------------------------------------------------------------------------
(* Types and counts. *)

\* TypeOK, apart from what only workers and only the host change.
WorkersType ==
  /\ phase \in [Workers -> Phases]
  /\ effect \in [Workers -> Ids \cup {NoEffect}]
  /\ input \in [Workers -> Inputs]
  /\ calls \in [Workers -> 0..MaxCalls] /\ made \in 0..MaxCalls
  /\ unresolved \in [Workers -> BOOLEAN]
  /\ crashes \in 0..MaxCrashes
  /\ persisted \in BOOLEAN /\ minted \in Ids

HostType ==
  /\ attempt \in [Ids -> {"absent", "attempted", "refused", "committed", "unknown"}]
  /\ bound \in [Ids -> Inputs \cup {NoInput}]
  /\ declared \in BOOLEAN
  /\ actedBy \in [Ids -> SUBSET (Workers \X (1..MaxCalls))]

NetType ==
  /\ inflight \subseteq Requests
  /\ reply \in [Workers -> Replies \cup {NoReply}]

LEMMA TypeParts == TypeOK <=> WorkersType /\ HostType /\ NetType
BY DEF TypeOK, WorkersType, HostType, NetType

\* A request that reaches a stage is otherwise the same.
LEMMA Staged ==
  ASSUME NEW m \in Requests, NEW s \in {"sent", "attempting", "acted"}
  PROVE  /\ [m EXCEPT !.stage = s] \in Requests
         /\ [m EXCEPT !.stage = s].stage = s
         /\ [m EXCEPT !.stage = s].from = m.from
         /\ [m EXCEPT !.stage = s].call = m.call
         /\ [m EXCEPT !.stage = s].kind = m.kind
         /\ [m EXCEPT !.stage = s].id = m.id
BY DEF Requests

\* Sending adds one request, of a call not made before.
LEMMA Sent ==
  ASSUME WorkersType, NetType, Counted, NEW w \in Workers,
         NEW kind \in {"invoke", "lookup"}, NEW e \in Ids, Send(w, kind, e)
  PROVE  /\ \E m \in Requests :
              /\ inflight' = inflight \cup {m}
              /\ m.from = w /\ m.call = calls[w] + 1 /\ m.kind = kind /\ m.id = e
              /\ m.stage = "sent"
         /\ calls' = [calls EXCEPT ![w] = calls[w] + 1]
         /\ calls' \in [Workers -> 0..MaxCalls] /\ made' \in 0..MaxCalls
         /\ made' = made + 1 /\ made < MaxCalls
         /\ \A v \in Workers : calls'[v] <= made' /\ calls[v] \in Nat
         /\ NetType'
         /\ reply' = [reply EXCEPT ![w] = NoReply]
<1> USE BoundsAssumption
<1> DEFINE m == [from |-> w, call |-> calls[w] + 1, kind |-> kind, id |-> e,
                 input |-> input[w], stage |-> "sent"]
<1>1. inflight' = inflight \cup {m} BY DEF Send
<1>2. calls[w] \in 0..MaxCalls /\ input[w] \in Inputs BY DEF WorkersType
<1>3. m \in Requests BY <1>2 DEF Requests
<1>4. m.from = w /\ m.call = calls[w] + 1 /\ m.kind = kind /\ m.id = e /\ m.stage = "sent"
  OBVIOUS
<1> HIDE DEF m
<1>5. /\ calls' = [calls EXCEPT ![w] = calls[w] + 1]
      /\ made' = made + 1 /\ made < MaxCalls /\ made \in 0..MaxCalls
  BY DEF Send, WorkersType
<1>6. calls[w] + 1 \in 0..MaxCalls BY <1>2, <1>5 DEF Counted
<1>7. calls' \in [Workers -> 0..MaxCalls] BY <1>5, <1>6 DEF WorkersType
<1>8. \A v \in Workers : calls'[v] <= made' /\ calls[v] \in Nat
  BY <1>2, <1>5 DEF Counted, WorkersType
<1>9. NetType' BY <1>1, <1>3 DEF NetType, Send
<1> QED BY <1>1, <1>3, <1>4, <1>5, <1>7, <1>8, <1>9 DEF Send

\* What a worker does with an outcome o.
LEMMA MovesOn ==
  ASSUME NEW w, NEW o, AfterInvoke(w, o) \/ AfterLookup(w, o)
  PROVE  \E p \in Phases : phase' = [phase EXCEPT ![w] = p]
<1>1. CASE AfterInvoke(w, o)
  <2> DEFINE p == CASE o.kind \in {"ok", "DatasourceError"}   -> "committed"
                    [] o.kind \in Definite /\ ~unresolved[w] -> "refused"
                    [] OTHER                                 -> "recover"
  <2>1. phase' = [phase EXCEPT ![w] = p] BY <1>1 DEF AfterInvoke
  <2>2. p \in Phases BY DEF Phases
  <2> HIDE DEF p
  <2> QED BY <2>1, <2>2
<1>2. CASE AfterLookup(w, o)
  <2> DEFINE p == CASE o.kind \in {"ok", "DatasourceError"} -> "committed"
                    [] o.kind = "ErrEffectNotFound"         -> "start"
                    [] o.kind \in Definite                  -> "stopped"
                    [] OTHER                                -> "recover"
  <2>1. phase' = [phase EXCEPT ![w] = p] BY <1>2 DEF AfterLookup
  <2>2. p \in Phases BY DEF Phases
  <2> HIDE DEF p
  <2> QED BY <2>1, <2>2
<1> QED BY <1>1, <1>2

LEMMA InitType == Init => TypeOK /\ Counted
BY BoundsAssumption DEF Init, TypeOK, Counted, Ids, Phases

\* The ID an Invoke uses.
Chosen(w) == IF effect[w] = NoEffect THEN minted + 1 ELSE effect[w]

LEMMA ChosenId ==
  ASSUME WorkersType, Counted, NEW w \in Workers, made < MaxCalls
  PROVE  /\ Chosen(w) \in Ids
         /\ (IF effect[w] = NoEffect THEN minted + 1 ELSE minted) \in Ids
         /\ (IF effect[w] = NoEffect THEN minted + 1 ELSE minted) <= made + 1
BY BoundsAssumption DEF WorkersType, Counted, Chosen, Ids

LEMMA NextType == TypeOK /\ Counted /\ Requested /\ Named /\ [Next]_vars => TypeOK' /\ Counted'
<1> SUFFICES ASSUME WorkersType, HostType, NetType, Counted, Requested, Named,
                    [Next]_vars
             PROVE  WorkersType' /\ HostType' /\ NetType' /\ Counted'
  BY DEF TypeOK, WorkersType, HostType, NetType
<1> USE BoundsAssumption
<1>1. ASSUME NEW w \in Workers, Invoke(w)
      PROVE  WorkersType' /\ HostType' /\ NetType' /\ Counted'
  <2>1. /\ Send(w, "invoke", Chosen(w))
        /\ minted' = IF effect[w] = NoEffect THEN minted + 1 ELSE minted
        /\ effect' = [effect EXCEPT ![w] = Chosen(w)]
        /\ phase' = [phase EXCEPT ![w] = "invoking"]
        /\ UNCHANGED <<persisted, input, unresolved, crashes, attempt, bound, declared, actedBy>>
    BY <1>1 DEF Invoke, Chosen, host
  <2>2. made < MaxCalls BY <2>1 DEF Send
  <2>3. Chosen(w) \in Ids /\ minted' \in Ids /\ minted' <= made + 1
    BY <2>1, <2>2, ChosenId
  <2>4. WorkersType' BY <2>1, <2>3, Sent DEF WorkersType, Phases
  <2>5. made' = made + 1 /\ \A v \in Workers : calls'[v] <= made' BY <2>1, <2>3, Sent
  <2>6. Counted' BY <2>3, <2>5 DEF Counted
  <2>7. NetType' BY <2>1, <2>3, Sent
  <2> QED BY <2>1, <2>4, <2>6, <2>7 DEF HostType
<1>2. ASSUME NEW w \in Workers, Lookup(w)
      PROVE  WorkersType' /\ HostType' /\ NetType' /\ Counted'
  <2>0. effect[w] \in Ids BY <1>2 DEF Lookup, Named, WorkersType
  <2>1. /\ Send(w, "lookup", effect[w])
        /\ phase' = [phase EXCEPT ![w] = "looking"]
        /\ UNCHANGED <<persisted, minted, effect, input, unresolved, crashes,
                       attempt, bound, declared, actedBy>>
    BY <1>2 DEF Lookup, host
  <2>2. WorkersType' BY <2>0, <2>1, Sent DEF WorkersType, Phases
  <2>3. Counted'
    <3>1. made' = made + 1 /\ \A v \in Workers : calls'[v] <= made' BY <2>0, <2>1, Sent
    <3>2. minted \in Nat /\ made \in Nat /\ minted' = minted BY <2>1 DEF WorkersType, Ids
    <3> QED BY <3>1, <3>2 DEF Counted
  <2>4. NetType' BY <2>0, <2>1, Sent
  <2> QED BY <2>1, <2>2, <2>3, <2>4 DEF HostType
<1>3. ASSUME NEW w \in Workers, InvokeRefusesInput(w) \/ InvokeReturns(w) \/ LookupReturns(w)
      PROVE  WorkersType' /\ HostType' /\ NetType' /\ Counted'
  <2>1. /\ UNCHANGED <<persisted, minted, effect, input, calls, made, crashes, inflight,
                       attempt, bound, declared, actedBy>>
        /\ reply' = reply \/ reply' = [reply EXCEPT ![w] = NoReply]
    BY <1>3 DEF InvokeRefusesInput, InvokeReturns, LookupReturns, net, host
  <2>2. \E p \in Phases : phase' = [phase EXCEPT ![w] = p]
    <3>1. CASE InvokeRefusesInput(w) BY <3>1 DEF InvokeRefusesInput, Phases
    <3>2. CASE InvokeReturns(w) BY <3>2, MovesOn DEF InvokeReturns
    <3>3. CASE LookupReturns(w) BY <3>3, MovesOn DEF LookupReturns
    <3> QED BY <1>3, <3>1, <3>2, <3>3
  <2>3. unresolved' \in [Workers -> BOOLEAN]
    BY <1>3 DEF InvokeRefusesInput, InvokeReturns, LookupReturns, AfterInvoke, AfterLookup,
                WorkersType
  <2>4. WorkersType' BY <2>1, <2>2, <2>3 DEF WorkersType
  <2>5. NetType' BY <2>1 DEF NetType
  <2> QED BY <2>1, <2>4, <2>5 DEF HostType, Counted
<1>4. ASSUME NEW w \in Workers, Lost(w)
      PROVE  WorkersType' /\ HostType' /\ NetType' /\ Counted'
  <2> DEFINE r == [code |-> "nonwire", status |-> "none", output |-> FALSE]
  <2>1. /\ reply' = [reply EXCEPT ![w] = r]
        /\ UNCHANGED <<persisted, minted, phase, effect, input, calls, made, unresolved,
                       crashes, inflight, attempt, bound, declared, actedBy>>
    BY <1>4 DEF Lost, workers, host
  <2>2. r \in Replies BY DEF Replies
  <2> HIDE DEF r
  <2> QED BY <2>1, <2>2 DEF WorkersType, HostType, NetType, Counted
<1>5. ASSUME NEW w \in Workers, Crash(w)
      PROVE  WorkersType' /\ HostType' /\ NetType' /\ Counted'
  <2>1. /\ crashes < MaxCrashes /\ crashes' = crashes + 1
        /\ effect' = [effect EXCEPT ![w] = IF persisted THEN 0 ELSE NoEffect]
        /\ unresolved' = [unresolved EXCEPT ![w] = persisted]
        /\ phase' = [phase EXCEPT ![w] = "start"]
        /\ \E i \in Inputs : input' = [input EXCEPT ![w] = i]
        /\ reply' = [reply EXCEPT ![w] = NoReply]
        /\ UNCHANGED <<persisted, minted, calls, made, inflight, attempt, bound, declared,
                       actedBy>>
    BY <1>5 DEF Crash, host
  <2>2. 0 \in Ids BY DEF Ids
  <2>3. WorkersType' BY <2>1, <2>2 DEF WorkersType, Phases
  <2> QED BY <2>1, <2>3 DEF HostType, NetType, Counted
<1>6. ASSUME NEW m \in inflight,
             \/ RefuseInvoke(m) \/ ProviderRefuses(m) \/ Commit(m) \/ LoseTrack(m)
             \/ Replay(m) \/ AnswerLookup(m)
      PROVE  WorkersType' /\ HostType' /\ NetType' /\ Counted'
  <2>1. PICK codes, status : HostStep(m, codes, status) BY <1>6, HandlersAnswer
  <2>2. /\ inflight' = inflight \ {m}
        /\ UNCHANGED <<persisted, minted, workers, actedBy>>
        /\ reply' = reply \/ \E r \in Replies : reply' = [reply EXCEPT ![m.from] = r]
    BY <2>1, Answered DEF HostStep
  <2>3. attempt' = attempt \/ \E a \in {"refused", "committed", "unknown"} :
                                attempt' = [attempt EXCEPT ![m.id] = a]
    BY <1>6 DEF RefuseInvoke, ProviderRefuses, Commit, LoseTrack, Replay, AnswerLookup, host
  <2>4. UNCHANGED <<bound, declared>>
    BY <1>6 DEF RefuseInvoke, ProviderRefuses, Commit, LoseTrack, Replay, AnswerLookup, host
  <2>5. HostType' BY <2>2, <2>3, <2>4 DEF HostType
  <2>6. WorkersType' /\ Counted' BY <2>2 DEF WorkersType, Counted, workers
  <2>7. NetType' BY <2>2 DEF NetType
  <2> QED BY <2>5, <2>6, <2>7
<1>7. ASSUME NEW m \in inflight, Attempt(m) \/ Act(m)
      PROVE  WorkersType' /\ HostType' /\ NetType' /\ Counted'
  <2>1. m \in Requests /\ m.from \in Workers /\ m.id \in Ids /\ m.input \in Inputs
    BY DEF NetType, Requests
  <2>2. \E n \in Requests : inflight' = (inflight \ {m}) \cup {n}
    BY <1>7, <2>1, Staged DEF Attempt, Act
  <2>3. UNCHANGED <<persisted, minted, phase, effect, input, calls, made, unresolved,
                    crashes, reply, declared>>
    BY <1>7 DEF Attempt, Act, workers, host
  <2>4. NetType' BY <2>2, <2>3 DEF NetType
  <2>5. HostType'
    <3>1. CASE Attempt(m) BY <2>1, <3>1 DEF Attempt, HostType
    <3>2. CASE Act(m) /\ m.call \in 1..MaxCalls
      BY <2>1, <3>2 DEF Act, HostType, host
    <3>3. m.call \in 1..MaxCalls
      <4>1. m.call \in 1..calls[m.from] BY DEF Requested
      <4>2. calls[m.from] \in 0..MaxCalls BY <2>1 DEF WorkersType
      <4> QED BY <4>1, <4>2
    <3> QED BY <1>7, <3>1, <3>2, <3>3
  <2>6. WorkersType' /\ Counted' BY <2>3 DEF WorkersType, Counted
  <2> QED BY <2>4, <2>5, <2>6
<1>8. CASE RemoveDeclaration \/ UNCHANGED vars
  <2>1. /\ UNCHANGED <<persisted, minted, phase, effect, input, calls, made, unresolved,
                       crashes, inflight, reply, attempt, bound, actedBy>>
        /\ declared' \in BOOLEAN
    BY <1>8 DEF RemoveDeclaration, vars, workers, net, host, HostType
  <2> QED BY <2>1 DEF WorkersType, HostType, NetType, Counted
<1> QED BY <1>1, <1>2, <1>3, <1>4, <1>5, <1>6, <1>7, <1>8 DEF Next

-----------------------------------------------------------------------------
(* What each action does, of what the invariants speak of. *)

\* The request n is sent by w.
Dispatches(w, n) ==
  /\ inflight' = inflight \cup {n} /\ n \in Requests
  /\ n.from = w /\ n.call = calls[w] + 1 /\ n.stage = "sent"
  /\ calls' = [calls EXCEPT ![w] = calls[w] + 1]
  /\ reply' = [reply EXCEPT ![w] = NoReply]
  /\ UNCHANGED <<persisted, unresolved, crashes, attempt, actedBy>>

LEMMA InvokeDoes ==
  ASSUME WorkersType, NetType, Counted, NEW w \in Workers, Invoke(w)
  PROVE  \E n : /\ Dispatches(w, n) /\ n.kind = "invoke" /\ n.id = Chosen(w)
                /\ Chosen(w) \in Ids
                /\ minted' = IF effect[w] = NoEffect THEN minted + 1 ELSE minted
                /\ effect' = [effect EXCEPT ![w] = Chosen(w)]
                /\ phase[w] = "start" /\ phase' = [phase EXCEPT ![w] = "invoking"]
<1>1. /\ Send(w, "invoke", Chosen(w))
      /\ minted' = IF effect[w] = NoEffect THEN minted + 1 ELSE minted
      /\ effect' = [effect EXCEPT ![w] = Chosen(w)]
      /\ phase[w] = "start" /\ phase' = [phase EXCEPT ![w] = "invoking"]
      /\ UNCHANGED <<persisted, unresolved, crashes, attempt, actedBy>>
  BY DEF Invoke, Chosen, host
<1>2. made < MaxCalls BY <1>1 DEF Send
<1>3. Chosen(w) \in Ids BY <1>2, ChosenId
<1> QED BY <1>1, <1>3, Sent DEF Dispatches

LEMMA LookupDoes ==
  ASSUME WorkersType, NetType, Counted, Named, NEW w \in Workers, Lookup(w)
  PROVE  \E n : /\ Dispatches(w, n) /\ n.kind = "lookup" /\ n.id = effect[w]
                /\ effect[w] \in Ids /\ UNCHANGED <<minted, effect>>
                /\ phase[w] = "recover" /\ phase' = [phase EXCEPT ![w] = "looking"]
<1>1. /\ Send(w, "lookup", effect[w])
      /\ phase[w] = "recover" /\ phase' = [phase EXCEPT ![w] = "looking"]
      /\ UNCHANGED <<persisted, minted, effect, unresolved, crashes, attempt, actedBy>>
  BY DEF Lookup, host
<1>2. effect[w] \in Ids BY <1>1 DEF Named, WorkersType
<1> QED BY <1>1, <1>2, Sent DEF Dispatches

\* The host ends the request m and records a.
Ends(m, a) ==
  /\ inflight' = inflight \ {m}
  /\ UNCHANGED <<persisted, minted, workers, actedBy>>
  /\ \/ attempt' = attempt
     \/ /\ attempt' = [attempt EXCEPT ![m.id] = a] /\ m.stage # "sent"
        /\ \/ a = "refused" /\ m.stage = "attempting"
           \/ a = "committed" /\ m.stage = "acted"
           \/ a = "unknown"

LEMMA HandlersEnd ==
  ASSUME NEW m \in inflight,
         \/ RefuseInvoke(m) \/ ProviderRefuses(m) \/ Commit(m) \/ LoseTrack(m)
         \/ Replay(m) \/ AnswerLookup(m)
  PROVE  \E a : Ends(m, a)
<1>1. PICK codes, status : HostStep(m, codes, status) BY HandlersAnswer
<1>2. /\ inflight' = inflight \ {m} /\ UNCHANGED <<persisted, minted, workers, actedBy>>
  BY <1>1, Answered DEF HostStep
<1>3. CASE ProviderRefuses(m)
  BY <1>2, <1>3 DEF ProviderRefuses, Ends
<1>4. CASE Commit(m)
  BY <1>2, <1>4 DEF Commit, Ends
<1>5. CASE LoseTrack(m)
  BY <1>2, <1>5 DEF LoseTrack, Ends
<1>6. CASE RefuseInvoke(m) \/ Replay(m) \/ AnswerLookup(m)
  BY <1>2, <1>6 DEF RefuseInvoke, Replay, AnswerLookup, host, Ends
<1> QED BY <1>3, <1>4, <1>5, <1>6

\* The host takes the request m one stage further, as n.
Advances(m, n) ==
  /\ inflight' = (inflight \ {m}) \cup {n} /\ n \in Requests
  /\ n.from = m.from /\ n.call = m.call /\ n.kind = m.kind /\ n.id = m.id
  /\ UNCHANGED <<persisted, minted, workers, reply>>

LEMMA StagesDo ==
  ASSUME NetType, NEW m \in inflight, Attempt(m) \/ Act(m)
  PROVE  \E n : /\ Advances(m, n)
                /\ \/ /\ n.stage = "attempting" /\ m.stage = "sent" /\ m.kind = "invoke"
                      /\ attempt[m.id] = "absent" /\ actedBy' = actedBy
                      /\ attempt' = [attempt EXCEPT ![m.id] = "attempted"]
                   \/ /\ n.stage = "acted" /\ m.stage = "attempting" /\ attempt' = attempt
                      /\ actedBy' = [actedBy EXCEPT
                           ![m.id] = actedBy[m.id] \cup {<<m.from, m.call>>}]
<1>1. m \in Requests BY DEF NetType
<1>2. CASE Attempt(m)
  BY <1>1, <1>2, Staged DEF Attempt, Advances
<1>3. CASE Act(m)
  BY <1>1, <1>3, Staged DEF Act, Advances, host
<1> QED BY <1>2, <1>3

\* The other actions leave the requests and the host's records alone.
LEMMA OthersLeave ==
  ASSUME NEW w \in Workers,
         InvokeRefusesInput(w) \/ InvokeReturns(w) \/ LookupReturns(w) \/ Lost(w) \/ Crash(w)
  PROVE  UNCHANGED <<persisted, minted, calls, inflight, attempt, actedBy>>
BY DEF InvokeRefusesInput, InvokeReturns, LookupReturns, Lost, Crash, net, host, workers

-----------------------------------------------------------------------------
(* Requests and the host's records. *)

LEMMA DispatchRecords ==
  ASSUME WorkersType, HostType, NetType, Requested, ActsRecorded,
         NEW w \in Workers, NEW n, Dispatches(w, n), n.id \in Ids, n.id <= minted',
         minted \in Int, minted' \in Int, minted <= minted'
  PROVE  Requested' /\ ActsRecorded'
<1>1. \A v \in Workers : calls[v] \in Nat BY DEF WorkersType
<1>2. \A v \in Workers : calls'[v] \in Nat /\ calls[v] <= calls'[v]
  BY <1>1 DEF Dispatches, WorkersType
<1>3. \A m \in inflight : m.from \in Workers /\ m.call \in Nat /\ m.id \in Ids /\ m.id \in Int
  BY DEF NetType, Requests, Ids
<1>4. \A e \in Ids : e \in Int BY DEF Ids
<1>5. \A e \in Ids : \A a \in actedBy[e] : a[1] \in Workers /\ a[2] \in Nat
  BY DEF HostType
<1>6. ActsRecorded'
  <2>1. actedBy' = actedBy /\ attempt' = attempt BY DEF Dispatches
  <2>2. \A e \in Ids : \A a \in actedBy[e] : e <= minted' /\ a[2] <= calls'[a[1]]
    BY <1>1, <1>2, <1>4, <1>5 DEF ActsRecorded
  <2> QED BY <2>1, <2>2 DEF ActsRecorded
<1>7. ASSUME NEW m \in inflight
      PROVE  ~(m.from = n.from /\ m.call = n.call)
  <2>1. m.call \in 1..calls[m.from] /\ m.from \in Workers BY <1>3 DEF Requested
  <2>2. n.from = w /\ n.call = calls[w] + 1 /\ calls[w] \in Nat BY <1>1 DEF Dispatches
  <2> QED BY <2>1, <2>2
<1>8. <<n.from, n.call>> \notin actedBy[n.id]
  <2>1. <<n.from, n.call>>[1] = w /\ <<n.from, n.call>>[2] = calls[w] + 1 BY DEF Dispatches
  <2> QED BY <1>1, <2>1 DEF ActsRecorded
<1>9. n.call \in 1..calls'[w] BY <1>1 DEF Dispatches, WorkersType
<1>10. ASSUME NEW m \in inflight PROVE m.call \in 1..calls'[m.from] /\ m.id <= minted'
  <2>1. m.call \in 1..calls[m.from] /\ m.id <= minted BY DEF Requested
  <2>2. m.from \in Workers /\ m.id \in Int BY <1>3
  <2>3. /\ calls[m.from] \in Nat /\ calls'[m.from] \in Nat
        /\ calls[m.from] <= calls'[m.from]
    BY <1>1, <1>2, <2>2
  <2>4. m.call \in 1..calls'[m.from] BY <2>1, <2>3
  <2> QED BY <2>1, <2>2, <2>4
<1>11. \A m \in inflight' :
        /\ m.call \in 1..calls'[m.from] /\ m.id <= minted'
        /\ m.stage # "sent" => m.kind = "invoke" /\ attempt[m.id] = "attempted"
        /\ m.stage = "attempting" => actedBy[m.id] = {}
        /\ m.stage = "acted" => actedBy[m.id] # {}
        /\ m.stage # "acted" => <<m.from, m.call>> \notin actedBy[m.id]
  BY <1>8, <1>9, <1>10 DEF Requested, Dispatches
<1>12. \A m, x \in inflight' :
        /\ m.from = x.from /\ m.call = x.call => m = x
        /\ m.id = x.id /\ m.stage # "sent" /\ x.stage # "sent" => m = x
  BY <1>7 DEF Requested, Dispatches
<1> QED BY <1>6, <1>11, <1>12 DEF Requested, Dispatches

LEMMA EndRecords ==
  ASSUME HostType, NetType, Requested, ActsRecorded, NEW m \in inflight, NEW a, Ends(m, a)
  PROVE  Requested' /\ ActsRecorded'
<1>1. /\ inflight' = inflight \ {m} /\ calls' = calls /\ minted' = minted
      /\ actedBy' = actedBy
  BY DEF Ends, workers
<1>2. m.id \in Ids BY DEF NetType, Requests
<1>3. CASE attempt' = attempt
  BY <1>1, <1>3 DEF Requested, ActsRecorded
<1>4. CASE attempt' # attempt
  <2>1. /\ attempt' = [attempt EXCEPT ![m.id] = a] /\ m.stage # "sent"
        /\ \/ a = "refused" /\ m.stage = "attempting"
           \/ a = "committed" /\ m.stage = "acted"
           \/ a = "unknown"
    BY <1>4 DEF Ends
  <2>2. \A e \in Ids : attempt'[e] = IF e = m.id THEN a ELSE attempt[e]
    BY <2>1 DEF HostType
  <2>3. ActsRecorded'
    <3>1. /\ m.stage = "attempting" => actedBy[m.id] = {}
          /\ m.stage = "acted" => actedBy[m.id] # {}
      BY DEF Requested
    <3>2. /\ attempt'[m.id] \in {"absent", "refused"} => actedBy[m.id] = {}
          /\ attempt'[m.id] = "committed" => actedBy[m.id] # {}
      BY <1>2, <2>1, <2>2, <3>1
    <3>3. ASSUME NEW e \in Ids
          PROVE  /\ attempt'[e] \in {"absent", "refused"} => actedBy[e] = {}
                 /\ attempt'[e] = "committed" => actedBy[e] # {}
      BY <2>2, <3>2 DEF ActsRecorded
    <3> QED BY <1>1, <3>3 DEF ActsRecorded
  <2>4. \A x \in inflight' : x.stage # "sent" => attempt'[x.id] = "attempted"
    <3>1. \A x \in inflight' : x \in inflight /\ x # m /\ x.id \in Ids
      BY <1>1 DEF NetType, Requests
    <3>2. ASSUME NEW x \in inflight', x.stage # "sent" PROVE attempt'[x.id] = "attempted"
      <4>1. x \in inflight /\ x # m /\ x.id \in Ids BY <3>1, <3>2
      <4>2. attempt[x.id] = "attempted" BY <3>2, <4>1 DEF Requested
      <4>3. x.id # m.id BY <2>1, <3>2, <4>1 DEF Requested
      <4> QED BY <2>2, <4>1, <4>2, <4>3
    <3> QED BY <3>2
  <2> QED BY <1>1, <2>3, <2>4 DEF Requested
<1> QED BY <1>3, <1>4

LEMMA StageRecords ==
  ASSUME WorkersType, HostType, NetType, Requested, ActsRecorded, NEW m \in inflight,
         Attempt(m) \/ Act(m)
  PROVE  Requested' /\ ActsRecorded'
<1>1. PICK n : /\ Advances(m, n)
               /\ \/ /\ n.stage = "attempting" /\ m.stage = "sent" /\ m.kind = "invoke"
                     /\ attempt[m.id] = "absent" /\ actedBy' = actedBy
                     /\ attempt' = [attempt EXCEPT ![m.id] = "attempted"]
                  \/ /\ n.stage = "acted" /\ m.stage = "attempting" /\ attempt' = attempt
                     /\ actedBy' = [actedBy EXCEPT
                          ![m.id] = actedBy[m.id] \cup {<<m.from, m.call>>}]
  BY StagesDo
<1>2. /\ inflight' = (inflight \ {m}) \cup {n} /\ calls' = calls /\ minted' = minted
      /\ n.from = m.from /\ n.call = m.call /\ n.kind = m.kind /\ n.id = m.id
  BY <1>1 DEF Advances, workers
<1>3. /\ m.id \in Ids /\ m.from \in Workers
      /\ \A x \in inflight : x.id \in Ids
  BY DEF NetType, Requests
<1>4. CASE n.stage = "attempting"
  <2>1. /\ m.stage = "sent" /\ m.kind = "invoke" /\ attempt[m.id] = "absent"
        /\ actedBy' = actedBy
        /\ \A e \in Ids : attempt'[e] = IF e = m.id THEN "attempted" ELSE attempt[e]
    BY <1>1, <1>4 DEF HostType
  <2>2. actedBy[m.id] = {} BY <1>3, <2>1 DEF ActsRecorded
  <2>3. ActsRecorded' BY <1>2, <1>3, <2>1 DEF ActsRecorded
  <2>4. \A x \in inflight : x.id = m.id => x.stage = "sent"
    BY <2>1 DEF Requested
  <2>5. \A x \in inflight' :
          /\ x.call \in 1..calls[x.from] /\ x.id <= minted
          /\ x.stage # "sent" => x.kind = "invoke" /\ attempt'[x.id] = "attempted"
          /\ x.stage = "attempting" => actedBy[x.id] = {}
          /\ x.stage = "acted" => actedBy[x.id] # {}
          /\ x.stage # "acted" => <<x.from, x.call>> \notin actedBy[x.id]
    BY <1>2, <1>3, <1>4, <2>1, <2>2 DEF Requested
  <2>6. \A x, y \in inflight' :
          /\ x.from = y.from /\ x.call = y.call => x = y
          /\ x.id = y.id /\ x.stage # "sent" /\ y.stage # "sent" => x = y
    BY <1>2, <2>4 DEF Requested
  <2> QED BY <1>2, <2>1, <2>3, <2>5, <2>6 DEF Requested
<1>5. CASE n.stage # "attempting"
  <2>1. /\ n.stage = "acted" /\ m.stage = "attempting" /\ attempt' = attempt
        /\ \A e \in Ids : actedBy'[e] = IF e = m.id THEN actedBy[e] \cup {<<m.from, m.call>>}
                                                   ELSE actedBy[e]
    BY <1>1, <1>5 DEF HostType
  <2>2. actedBy[m.id] = {} /\ actedBy'[m.id] = {<<m.from, m.call>>}
        /\ attempt[m.id] = "attempted" /\ m.kind = "invoke"
    BY <1>3, <2>1 DEF Requested
  <2>3. ActsRecorded'
    <3>1. m.call <= calls[m.from] /\ m.id <= minted
      <4>1. m.call \in 1..calls[m.from] /\ m.id <= minted BY DEF Requested
      <4>2. calls[m.from] \in Int BY <1>3 DEF WorkersType
      <4> QED BY <4>1, <4>2
    <3>2. \A a \in actedBy'[m.id] : a[1] = m.from /\ a[2] = m.call /\ a = <<m.from, m.call>>
      BY <2>2
    <3>3. ASSUME NEW e \in Ids, e = m.id
          PROVE  /\ attempt'[e] \notin {"absent", "refused", "committed"}
                 /\ \A a \in actedBy'[e] : e <= minted' /\ a[2] <= calls'[a[1]]
                 /\ \A a, b \in actedBy'[e] : a = b
      BY <1>2, <2>1, <2>2, <3>1, <3>2, <3>3
    <3>4. ASSUME NEW e \in Ids, e # m.id PROVE actedBy'[e] = actedBy[e]
      BY <2>1, <3>4
    <3> QED BY <1>2, <2>1, <3>3, <3>4 DEF ActsRecorded
  <2>4. \A x \in inflight : x.id = m.id /\ x.stage # "sent" => x = m
    BY <2>1 DEF Requested
  <2>5. \A x \in inflight : x # m => <<x.from, x.call>> # <<m.from, m.call>>
    BY DEF Requested
  <2>6. \A x \in inflight' :
          /\ x.call \in 1..calls[x.from] /\ x.id <= minted
          /\ x.stage # "sent" => x.kind = "invoke" /\ attempt[x.id] = "attempted"
          /\ x.stage = "attempting" => actedBy'[x.id] = {}
          /\ x.stage = "acted" => actedBy'[x.id] # {}
          /\ x.stage # "acted" => <<x.from, x.call>> \notin actedBy'[x.id]
    <3>1. ASSUME NEW x \in inflight, x # m, x.id = m.id
          PROVE  x.stage = "sent" /\ <<x.from, x.call>> \notin actedBy'[x.id]
      BY <2>2, <2>4, <2>5, <3>1
    <3>2. ASSUME NEW x \in inflight, x.id # m.id PROVE actedBy'[x.id] = actedBy[x.id]
      BY <1>3, <2>1, <3>2
    <3> QED BY <1>2, <2>1, <2>2, <3>1, <3>2 DEF Requested
  <2>7. \A x, y \in inflight' :
          /\ x.from = y.from /\ x.call = y.call => x = y
          /\ x.id = y.id /\ x.stage # "sent" /\ y.stage # "sent" => x = y
    BY <1>2, <2>4 DEF Requested
  <2> QED BY <1>2, <2>1, <2>3, <2>6, <2>7 DEF Requested
<1> QED BY <1>4, <1>5

LEMMA NextRecords == IInv /\ [Next]_vars => Requested' /\ ActsRecorded'
<1> SUFFICES ASSUME IInv, [Next]_vars PROVE Requested' /\ ActsRecorded'
  OBVIOUS
<1>1. WorkersType /\ HostType /\ NetType /\ Counted /\ Requested /\ ActsRecorded /\ Named
  BY TypeParts DEF IInv
<1>2. ASSUME NEW w \in Workers, Invoke(w) PROVE Requested' /\ ActsRecorded'
  <2>1. PICK n : /\ Dispatches(w, n) /\ n.id = Chosen(w) /\ Chosen(w) \in Ids
                 /\ minted' = IF effect[w] = NoEffect THEN minted + 1 ELSE minted
    BY <1>1, <1>2, InvokeDoes
  <2>2. minted \in Nat BY <1>1 DEF WorkersType, Ids
  <2>3. Chosen(w) <= minted' BY <1>1, <2>1, <2>2 DEF Chosen, Named
  <2> QED BY <1>1, <2>1, <2>2, <2>3, DispatchRecords
<1>3. ASSUME NEW w \in Workers, Lookup(w) PROVE Requested' /\ ActsRecorded'
  <2>1. PICK n : /\ Dispatches(w, n) /\ n.id = effect[w] /\ effect[w] \in Ids
                 /\ minted' = minted
    BY <1>1, <1>3, LookupDoes
  <2>2. minted \in Nat BY <1>1 DEF WorkersType, Ids
  <2>3. effect[w] <= minted BY <1>1, <2>1, NothingAssumption DEF Named
  <2> QED BY <1>1, <2>1, <2>2, <2>3, DispatchRecords
<1>4. ASSUME NEW m \in inflight,
             \/ RefuseInvoke(m) \/ ProviderRefuses(m) \/ Commit(m) \/ LoseTrack(m)
             \/ Replay(m) \/ AnswerLookup(m)
      PROVE  Requested' /\ ActsRecorded'
  BY <1>1, <1>4, HandlersEnd, EndRecords
<1>5. ASSUME NEW m \in inflight, Attempt(m) \/ Act(m) PROVE Requested' /\ ActsRecorded'
  BY <1>1, <1>5, StageRecords
<1>6. CASE UNCHANGED <<minted, calls, inflight, attempt, actedBy>>
  BY <1>1, <1>6 DEF Requested, ActsRecorded
<1>7. RemoveDeclaration \/ UNCHANGED vars => UNCHANGED <<minted, calls, inflight, attempt, actedBy>>
  BY DEF RemoveDeclaration, vars, workers, net, host
<1> QED BY <1>2, <1>3, <1>4, <1>5, <1>6, <1>7, OthersLeave DEF Next

-----------------------------------------------------------------------------
(* IDs. *)

\* What Named says of one worker.
NamedAs(w) ==
  /\ effect[w] # NoEffect => effect[w] <= minted
  /\ phase[w] \in {"invoking", "recover", "looking", "committed"} => effect[w] # NoEffect
  /\ unresolved[w] => effect[w] # NoEffect
  /\ phase[w] \in {"recover", "looking"} => unresolved[w]
  /\ phase[w] = "refused" => ~unresolved[w]

LEMMA NamedParts ==
  Named <=> /\ persisted => minted = 0 /\ \A w \in Workers : effect[w] = 0
            /\ \A w \in Workers : NamedAs(w)
BY DEF Named, NamedAs

\* A worker that returns from an Invoke as refused has no earlier attempt in doubt, and
\* one that goes on to recover has.
LEMMA AfterInvokeNames ==
  ASSUME WorkersType, NEW w \in Workers, NEW o, AfterInvoke(w, o)
  PROVE  /\ phase'[w] \in {"committed", "refused", "recover"}
         /\ phase'[w] = "committed" => o.kind \in {"ok", "DatasourceError"}
         /\ phase'[w] = "refused" => ~unresolved'[w] /\ ~unresolved[w] /\ o.kind \in Definite
         /\ phase'[w] = "recover" => unresolved'[w]
         /\ \A v \in Workers \ {w} : phase'[v] = phase[v] /\ unresolved'[v] = unresolved[v]
         /\ ~unresolved'[w] => ~unresolved[w] /\ o.kind \in Definite
<1> DEFINE p == CASE o.kind \in {"ok", "DatasourceError"}   -> "committed"
                  [] o.kind \in Definite /\ ~unresolved[w] -> "refused"
                  [] OTHER                                 -> "recover"
<1>1. phase' = [phase EXCEPT ![w] = p] BY DEF AfterInvoke
<1>2. phase'[w] = p /\ \A v \in Workers \ {w} : phase'[v] = phase[v]
  BY <1>1 DEF WorkersType
<1>3. (unresolved'[w] <=> unresolved[w] \/ o.kind \notin Definite)
      /\ \A v \in Workers \ {w} : unresolved'[v] = unresolved[v]
  BY DEF AfterInvoke, WorkersType
<1>4. /\ p \in {"committed", "refused", "recover"}
      /\ p = "committed" => o.kind \in {"ok", "DatasourceError"}
      /\ p = "refused" => ~unresolved[w] /\ o.kind \in Definite
      /\ p = "recover" => unresolved[w] \/ o.kind \notin Definite
  OBVIOUS
<1> HIDE DEF p
<1> QED BY <1>2, <1>3, <1>4

LEMMA NextNamed == IInv /\ [Next]_vars => Named'
<1> SUFFICES ASSUME IInv, [Next]_vars PROVE Named'
  OBVIOUS
<1>1. /\ WorkersType /\ HostType /\ NetType /\ Counted /\ Named
      /\ minted \in Nat /\ \A w \in Workers : NamedAs(w)
      /\ persisted => minted = 0 /\ \A w \in Workers : effect[w] = 0
  BY TypeParts, NamedParts DEF IInv, WorkersType, Ids
<1>2. (persisted' => minted' = 0 /\ \A w \in Workers : effect'[w] = 0)
      /\ (\A w \in Workers : NamedAs(w)') => Named'
  BY DEF Named, NamedAs
<1>3. 0 \in Ids /\ 0 # NoEffect BY BoundsAssumption, NothingAssumption DEF Ids
<1>4. ASSUME NEW w \in Workers, Invoke(w) PROVE Named'
  <2>1. PICK n : /\ Dispatches(w, n) /\ n.id = Chosen(w) /\ Chosen(w) \in Ids
                 /\ minted' = IF effect[w] = NoEffect THEN minted + 1 ELSE minted
                 /\ effect' = [effect EXCEPT ![w] = Chosen(w)]
                 /\ phase' = [phase EXCEPT ![w] = "invoking"]
    BY <1>1, <1>4, InvokeDoes
  <2>2. UNCHANGED <<persisted, unresolved>> BY <2>1 DEF Dispatches
  <2>3. Chosen(w) # NoEffect /\ Chosen(w) <= minted' /\ minted <= minted'
    BY <1>1, <2>1, NothingAssumption DEF Chosen, NamedAs
  <2>4. \A v \in Workers \ {w} : effect'[v] = effect[v] /\ phase'[v] = phase[v]
    BY <1>1, <2>1 DEF WorkersType
  <2>5. effect'[w] = Chosen(w) /\ phase'[w] = "invoking" BY <1>1, <2>1 DEF WorkersType
  <2>6. NamedAs(w)' BY <2>2, <2>3, <2>5 DEF NamedAs
  <2>7. ASSUME NEW v \in Workers \ {w} PROVE NamedAs(v)'
    <3>1. effect[v] # NoEffect => effect[v] \in Int BY <1>1 DEF WorkersType, Ids
    <3>2. minted' \in Int BY <1>1, <2>1
    <3> QED BY <1>1, <2>2, <2>3, <2>4, <3>1, <3>2 DEF NamedAs
  <2>8. persisted' => minted' = 0 /\ \A v \in Workers : effect'[v] = 0
    BY <1>1, <1>3, <2>1, <2>2, <2>4, <2>5 DEF Chosen
  <2> QED BY <1>2, <2>6, <2>7, <2>8
<1>5. ASSUME NEW w \in Workers, UNCHANGED <<persisted, minted, effect>>,
             \A v \in Workers \ {w} : phase'[v] = phase[v] /\ unresolved'[v] = unresolved[v],
             NamedAs(w)'
      PROVE  Named'
  BY <1>1, <1>2, <1>5 DEF NamedAs
<1>6. ASSUME NEW w \in Workers, Lookup(w) PROVE Named'
  <2>1. PICK n : /\ Dispatches(w, n) /\ effect[w] \in Ids /\ UNCHANGED <<minted, effect>>
                 /\ phase[w] = "recover" /\ phase' = [phase EXCEPT ![w] = "looking"]
    BY <1>1, <1>6, LookupDoes
  <2>2. UNCHANGED <<persisted, unresolved>> /\ phase'[w] = "looking"
        /\ \A v \in Workers \ {w} : phase'[v] = phase[v]
    BY <1>1, <2>1 DEF Dispatches, WorkersType
  <2>3. NamedAs(w)' BY <1>1, <2>1, <2>2 DEF NamedAs
  <2> QED BY <1>5, <2>1, <2>2, <2>3
<1>7. ASSUME NEW w \in Workers, InvokeRefusesInput(w) PROVE Named'
  <2>1. /\ UNCHANGED <<persisted, minted, effect, unresolved>>
        /\ phase' = [phase EXCEPT ![w] = IF unresolved[w] THEN "recover" ELSE "refused"]
    BY <1>7 DEF InvokeRefusesInput
  <2>2. /\ phase'[w] = IF unresolved[w] THEN "recover" ELSE "refused"
        /\ \A v \in Workers \ {w} : phase'[v] = phase[v]
    BY <1>1, <2>1 DEF WorkersType
  <2>3. NamedAs(w)' BY <1>1, <2>1, <2>2 DEF NamedAs
  <2> QED BY <1>5, <2>1, <2>2, <2>3
<1>8. ASSUME NEW w \in Workers, InvokeReturns(w) PROVE Named'
  <2>1. /\ UNCHANGED <<persisted, minted, effect>> /\ phase[w] = "invoking"
        /\ AfterInvoke(w, InvokeOutcome(reply[w]))
    BY <1>8 DEF InvokeReturns
  <2>2. NamedAs(w)' BY <1>1, <2>1, AfterInvokeNames DEF NamedAs
  <2> QED BY <1>1, <1>5, <2>1, <2>2, AfterInvokeNames
<1>9. ASSUME NEW w \in Workers, LookupReturns(w) PROVE Named'
  <2>1. /\ UNCHANGED <<persisted, minted, effect, unresolved>> /\ phase[w] = "looking"
    BY <1>9 DEF LookupReturns, AfterLookup
  <2>2. /\ \A v \in Workers \ {w} : phase'[v] = phase[v]
        /\ phase'[w] # "refused"
    <3> DEFINE o == LookupOutcome(reply[w])
               p == CASE o.kind \in {"ok", "DatasourceError"} -> "committed"
                      [] o.kind = "ErrEffectNotFound"         -> "start"
                      [] o.kind \in Definite                  -> "stopped"
                      [] OTHER                                -> "recover"
    <3>1. phase' = [phase EXCEPT ![w] = p] BY <1>9 DEF LookupReturns, AfterLookup
    <3>2. p # "refused" OBVIOUS
    <3> HIDE DEF p
    <3> QED BY <1>1, <3>1, <3>2 DEF WorkersType
  <2>3. NamedAs(w)' BY <1>1, <2>1, <2>2 DEF NamedAs
  <2> QED BY <1>5, <2>1, <2>2, <2>3
<1>10. ASSUME NEW w \in Workers, Crash(w) PROVE Named'
  <2>1. /\ UNCHANGED <<persisted, minted>>
        /\ effect' = [effect EXCEPT ![w] = IF persisted THEN 0 ELSE NoEffect]
        /\ unresolved' = [unresolved EXCEPT ![w] = persisted]
        /\ phase' = [phase EXCEPT ![w] = "start"]
    BY <1>10 DEF Crash
  <2>2. /\ effect'[w] = IF persisted THEN 0 ELSE NoEffect
        /\ phase'[w] = "start"
        /\ \A v \in Workers \ {w} : effect'[v] = effect[v] /\ phase'[v] = phase[v]
    BY <1>1, <2>1 DEF WorkersType
  <2>3. /\ unresolved'[w] = persisted
        /\ \A v \in Workers \ {w} : unresolved'[v] = unresolved[v]
    BY <1>1, <2>1 DEF WorkersType
  <2>4. NamedAs(w)' BY <1>1, <1>3, <2>1, <2>2, <2>3 DEF NamedAs
  <2>5. \A v \in Workers \ {w} : NamedAs(v)' BY <1>1, <2>1, <2>2, <2>3 DEF NamedAs
  <2>6. persisted' => minted' = 0 /\ \A v \in Workers : effect'[v] = 0
    BY <1>1, <2>1, <2>2
  <2> QED BY <1>2, <2>4, <2>5, <2>6
<1>11. UNCHANGED <<persisted, minted, phase, effect, unresolved>> => Named'
  BY <1>1 DEF Named
<1>12. ASSUME NEW m \in inflight,
              \/ RefuseInvoke(m) \/ ProviderRefuses(m) \/ Commit(m) \/ LoseTrack(m)
              \/ Replay(m) \/ AnswerLookup(m) \/ Attempt(m) \/ Act(m)
       PROVE  UNCHANGED <<persisted, minted, phase, effect, unresolved>>
  BY <1>1, <1>12, HandlersEnd DEF Ends, Attempt, Act, workers
<1>13. (\E w \in Workers : Lost(w)) \/ RemoveDeclaration \/ UNCHANGED vars
       => UNCHANGED <<persisted, minted, phase, effect, unresolved>>
  BY DEF Lost, RemoveDeclaration, vars, workers
<1> QED BY <1>4, <1>6, <1>7, <1>8, <1>9, <1>10, <1>11, <1>12, <1>13 DEF Next

LEMMA NextOwned == IInv /\ [Next]_vars => Owned'
<1> SUFFICES ASSUME IInv, [Next]_vars, ~persisted', crashes' = 0
             PROVE  /\ \A m \in inflight' : effect'[m.from] = m.id
                    /\ \A e \in Ids : \A a \in actedBy'[e] : effect'[a[1]] = e
  BY DEF Owned
<1>1. WorkersType /\ HostType /\ NetType /\ Counted /\ Named /\ Owned
  BY TypeParts DEF IInv
<1>2. \A m \in inflight : m.from \in Workers /\ m.id \in Ids
  BY <1>1 DEF NetType, Requests
<1>3. \A e \in Ids : \A a \in actedBy[e] : a[1] \in Workers
  BY <1>1 DEF HostType
<1> DEFINE Goal == /\ \A m \in inflight' : effect'[m.from] = m.id
                   /\ \A e \in Ids : \A a \in actedBy'[e] : effect'[a[1]] = e
<1>4. ASSUME NEW w \in Workers, Invoke(w) PROVE Goal
  <2>1. PICK n : /\ Dispatches(w, n) /\ n.id = Chosen(w)
                 /\ effect' = [effect EXCEPT ![w] = Chosen(w)]
    BY <1>1, <1>4, InvokeDoes
  <2>2. ~persisted /\ crashes = 0 /\ actedBy' = actedBy BY <2>1 DEF Dispatches
  <2>3. effect'[w] = Chosen(w) /\ \A v \in Workers \ {w} : effect'[v] = effect[v]
    BY <1>1, <2>1 DEF WorkersType
  <2>4. effect[w] \in Ids => effect'[w] = effect[w]
    BY <2>3, NothingAssumption DEF Chosen
  <2> QED BY <1>1, <1>2, <1>3, <2>1, <2>2, <2>3, <2>4 DEF Owned, Dispatches
<1>5. ASSUME NEW w \in Workers, Lookup(w) PROVE Goal
  <2>1. PICK n : Dispatches(w, n) /\ n.id = effect[w] /\ UNCHANGED effect
    BY <1>1, <1>5, LookupDoes
  <2> QED BY <1>1, <2>1 DEF Owned, Dispatches
<1>6. ASSUME NEW w \in Workers, Crash(w) PROVE FALSE
  <2>1. crashes' = crashes + 1 /\ crashes \in Nat
    BY <1>1, <1>6, BoundsAssumption DEF Crash, WorkersType
  <2> QED BY <2>1
<1>7. ASSUME NEW m \in inflight,
             \/ RefuseInvoke(m) \/ ProviderRefuses(m) \/ Commit(m) \/ LoseTrack(m)
             \/ Replay(m) \/ AnswerLookup(m)
      PROVE  Goal
  BY <1>1, <1>7, HandlersEnd DEF Ends, workers, Owned
<1>8. ASSUME NEW m \in inflight, Attempt(m) \/ Act(m) PROVE Goal
  <2>1. PICK n : /\ Advances(m, n)
                 /\ \/ actedBy' = actedBy
                    \/ actedBy' = [actedBy EXCEPT
                         ![m.id] = actedBy[m.id] \cup {<<m.from, m.call>>}]
    BY <1>1, <1>8, StagesDo
  <2>2. /\ ~persisted /\ crashes = 0 /\ effect' = effect
        /\ inflight' = (inflight \ {m}) \cup {n} /\ n.from = m.from /\ n.id = m.id
    BY <2>1 DEF Advances, workers
  <2>3. \A e \in Ids : \A a \in actedBy'[e] :
          a \in actedBy[e] \/ (e = m.id /\ a[1] = m.from)
    BY <1>1, <2>1 DEF HostType
  <2> QED BY <1>1, <2>2, <2>3 DEF Owned
<1>9. ASSUME NEW w \in Workers,
             InvokeRefusesInput(w) \/ InvokeReturns(w) \/ LookupReturns(w) \/ Lost(w)
      PROVE  Goal
  <2>1. UNCHANGED <<persisted, effect, crashes, inflight, actedBy>>
    BY <1>9 DEF InvokeRefusesInput, InvokeReturns, LookupReturns, Lost, net, workers
  <2> QED BY <1>1, <2>1 DEF Owned
<1>10. CASE RemoveDeclaration \/ UNCHANGED vars
  <2>1. UNCHANGED <<persisted, effect, crashes, inflight, actedBy>>
    BY <1>10 DEF RemoveDeclaration, vars, workers, net
  <2> QED BY <1>1, <2>1 DEF Owned
<1> QED BY <1>4, <1>5, <1>6, <1>7, <1>8, <1>9, <1>10 DEF Next

-----------------------------------------------------------------------------
(* Replies. *)

\* Only a receipt that says so makes a worker believe in a commit.
LEMMA CommitBelieved ==
  ASSUME NEW r, r.code \in HostCodes \cup {"ok", "nonwire"},
         \/ InvokeOutcome(r).kind \in {"ok", "DatasourceError"}
         \/ LookupOutcome(r).kind \in {"ok", "DatasourceError"}
  PROVE  r.status = "committed"
<1>1. ErrorOutcome(r).kind \notin {"ok", "DatasourceError"}
  <2>1. ErrorOutcome(r).kind = IF r.code = "nonwire"
                                 THEN MapHostError(FALSE, "PermissionDenied", TRUE)
                                 ELSE MapHostError(TRUE, r.code, TRUE)
    BY DEF ErrorOutcome, Outcome
  <2>2. MapHostError(FALSE, "PermissionDenied", TRUE) = "OutcomeUnknown" BY DEF MapHostError
  <2>3. r.code # "UnsupportedEncoding" BY DEF HostCodes
  <2>4. Meaning(r.code, TRUE) \notin {"ok", "DatasourceError"}
    BY <2>3 DEF Meaning, Unsettled
  <2>5. MapHostError(TRUE, r.code, TRUE) = Meaning(r.code, TRUE) BY DEF MapHostError
  <2> QED BY <2>1, <2>2, <2>4, <2>5
<1>2. ReceiptOutcome(r).kind \in {"ok", "DatasourceError"} => r.status = "committed"
  BY DEF ReceiptOutcome, Unknown, Outcome
<1>3. CASE InvokeOutcome(r).kind \in {"ok", "DatasourceError"}
  BY <1>1, <1>2, <1>3 DEF InvokeOutcome
<1>4. CASE LookupOutcome(r).kind \in {"ok", "DatasourceError"}
  <2>1. /\ r.code = "ok" => LookupOutcome(r) = ReceiptOutcome(r)
        /\ r.code = "NotFound" => LookupOutcome(r) = Outcome("ErrEffectNotFound", "not attempted")
        /\ r.code = "DeadlineExceeded" => LookupOutcome(r) = Outcome("error", "none")
        /\ r.code \notin {"ok", "NotFound", "DeadlineExceeded"} =>
             LookupOutcome(r) = ErrorOutcome(r)
    BY DEF LookupOutcome
  <2>2. /\ Outcome("ErrEffectNotFound", "not attempted").kind = "ErrEffectNotFound"
        /\ Outcome("error", "none").kind = "error"
    BY DEF Outcome
  <2> QED BY <1>1, <1>2, <1>4, <2>1, <2>2
<1> QED BY <1>3, <1>4

\* What Replied says of one worker.
RepliedAs(w) ==
  /\ \A m \in inflight :
       m.from = w /\ phase[w] \in {"invoking", "looking"} /\ m.call = calls[w] =>
         m.id = effect[w]
  /\ reply[w] # NoReply =>
       /\ phase[w] \in {"invoking", "looking"}
       /\ reply[w].code \in HostCodes \cup {"ok", "nonwire"}
       /\ reply[w].status = "committed" => actedBy[effect[w]] # {}
  /\ phase[w] = "committed" => actedBy[effect[w]] # {}

LEMMA RepliedParts ==
  ASSUME NetType PROVE Replied <=> \A w \in Workers : RepliedAs(w)
BY DEF Replied, RepliedAs, NetType, Requests

LEMMA RepliedPartsNext ==
  ASSUME NetType', \A w \in Workers : RepliedAs(w)' PROVE Replied'
BY DEF Replied, RepliedAs, NetType, Requests

\* A worker that does not move, and is sent no reply.
LEMMA RepliedKept ==
  ASSUME NEW w \in Workers, RepliedAs(w),
         phase'[w] = phase[w], calls'[w] = calls[w], effect'[w] = effect[w],
         reply'[w] = reply[w],
         \A m \in inflight' : m.from = w =>
           \E x \in inflight : x.from = w /\ x.call = m.call /\ x.id = m.id,
         phase[w] \in {"invoking", "looking", "committed"} =>
           (actedBy[effect[w]] # {} => actedBy'[effect[w]] # {})
  PROVE  RepliedAs(w)'
BY DEF RepliedAs

LEMMA NextReplied == IInv /\ [Next]_vars => Replied'
<1> SUFFICES ASSUME IInv, [Next]_vars PROVE Replied'
  OBVIOUS
<1>1. /\ WorkersType /\ HostType /\ NetType /\ Counted /\ Named /\ Requested
      /\ ActsRecorded /\ \A w \in Workers : RepliedAs(w)
  BY TypeParts, RepliedParts DEF IInv
<1>2. NetType' /\ WorkersType' BY NextType DEF IInv, TypeOK, NetType, WorkersType
<1>3. \A m \in inflight : m.from \in Workers /\ m.id \in Ids /\ m.call \in Nat
  BY <1>1 DEF NetType, Requests
<1>4. \A w \in Workers : calls[w] \in Nat BY <1>1 DEF WorkersType
<1>5. \A m \in inflight : m.call <= calls[m.from]
  <2>1. ASSUME NEW m \in inflight PROVE m.call <= calls[m.from]
    <3>1. m.call \in 1..calls[m.from] BY <1>1 DEF Requested
    <3> QED BY <1>3, <1>4, <3>1
  <2> QED BY <2>1
<1>6. ASSUME NEW w \in Workers, NEW n, Dispatches(w, n), n.id = effect'[w],
             phase'[w] \in {"invoking", "looking"},
             \A v \in Workers \ {w} : phase'[v] = phase[v] /\ effect'[v] = effect[v]
      PROVE  Replied'
  <2>1. /\ inflight' = inflight \cup {n} /\ n.from = w /\ actedBy' = actedBy
        /\ calls'[w] = calls[w] + 1 /\ reply'[w] = NoReply
        /\ \A v \in Workers \ {w} : calls'[v] = calls[v] /\ reply'[v] = reply[v]
    BY <1>1, <1>6 DEF Dispatches, WorkersType, NetType
  <2>2. \A m \in inflight : m.from = w => m.call # calls'[w]
    BY <1>3, <1>4, <1>5, <2>1
  <2>3. RepliedAs(w)' BY <1>6, <2>1, <2>2 DEF RepliedAs
  <2>4. \A v \in Workers \ {w} : RepliedAs(v)' BY <1>1, <1>6, <2>1, RepliedKept
  <2> QED BY <1>2, <2>3, <2>4, RepliedPartsNext
<1>7. ASSUME NEW w \in Workers, Invoke(w) PROVE Replied'
  <2>1. PICK n : /\ Dispatches(w, n) /\ n.id = Chosen(w)
                 /\ effect' = [effect EXCEPT ![w] = Chosen(w)]
                 /\ phase' = [phase EXCEPT ![w] = "invoking"]
    BY <1>1, <1>7, InvokeDoes
  <2>2. /\ effect'[w] = Chosen(w) /\ phase'[w] = "invoking"
        /\ \A v \in Workers \ {w} : phase'[v] = phase[v] /\ effect'[v] = effect[v]
    BY <1>1, <2>1 DEF WorkersType
  <2> QED BY <1>6, <2>1, <2>2
<1>8. ASSUME NEW w \in Workers, Lookup(w) PROVE Replied'
  <2>1. PICK n : /\ Dispatches(w, n) /\ n.id = effect[w] /\ effect' = effect
                 /\ phase' = [phase EXCEPT ![w] = "looking"]
    BY <1>1, <1>8, LookupDoes
  <2>2. /\ phase'[w] = "looking" /\ \A v \in Workers \ {w} : phase'[v] = phase[v]
    BY <1>1, <2>1 DEF WorkersType
  <2> QED BY <1>6, <2>1, <2>2
<1>9. ASSUME NEW w \in Workers, UNCHANGED <<calls, inflight, actedBy>>,
             \A v \in Workers \ {w} :
               phase'[v] = phase[v] /\ effect'[v] = effect[v] /\ reply'[v] = reply[v],
             RepliedAs(w)'
      PROVE  Replied'
  <2>1. \A v \in Workers \ {w} : RepliedAs(v)' BY <1>1, <1>9, RepliedKept
  <2> QED BY <1>2, <1>9, <2>1, RepliedPartsNext
<1>10. ASSUME NEW w \in Workers, InvokeRefusesInput(w) PROVE Replied'
  <2>1. /\ UNCHANGED <<effect, calls, inflight, reply, actedBy>> /\ phase[w] = "start"
        /\ phase' = [phase EXCEPT ![w] = IF unresolved[w] THEN "recover" ELSE "refused"]
    BY <1>10 DEF InvokeRefusesInput, net
  <2>2. /\ phase'[w] \in {"recover", "refused"}
        /\ \A v \in Workers \ {w} : phase'[v] = phase[v]
    BY <1>1, <2>1 DEF WorkersType
  <2>3. RepliedAs(w)' BY <1>1, <2>1, <2>2 DEF RepliedAs
  <2> QED BY <1>9, <2>1, <2>2, <2>3
<1>11. ASSUME NEW w \in Workers, InvokeReturns(w) PROVE Replied'
  <2>1. /\ UNCHANGED <<effect, calls, inflight, actedBy>> /\ reply[w] # NoReply
        /\ reply' = [reply EXCEPT ![w] = NoReply]
        /\ AfterInvoke(w, InvokeOutcome(reply[w]))
    BY <1>11 DEF InvokeReturns
  <2>2. reply'[w] = NoReply /\ \A v \in Workers \ {w} : reply'[v] = reply[v]
    BY <1>1, <2>1 DEF NetType
  <2>3. phase'[w] = "committed" => actedBy[effect[w]] # {}
    BY <1>1, <2>1, AfterInvokeNames, CommitBelieved DEF RepliedAs
  <2>4. phase'[w] \notin {"invoking", "looking"} BY <1>1, <2>1, AfterInvokeNames
  <2>5. RepliedAs(w)' BY <2>1, <2>2, <2>3, <2>4 DEF RepliedAs
  <2> QED BY <1>1, <1>9, <2>1, <2>2, <2>5, AfterInvokeNames
<1>12. ASSUME NEW w \in Workers, LookupReturns(w) PROVE Replied'
  <2>1. /\ UNCHANGED <<effect, calls, inflight, actedBy>> /\ reply[w] # NoReply
        /\ reply' = [reply EXCEPT ![w] = NoReply]
    BY <1>12 DEF LookupReturns
  <2>2. reply'[w] = NoReply /\ \A v \in Workers \ {w} : reply'[v] = reply[v]
    BY <1>1, <2>1 DEF NetType
  <2>3. /\ phase'[w] = "committed" =>
             LookupOutcome(reply[w]).kind \in {"ok", "DatasourceError"}
        /\ phase'[w] \notin {"invoking", "looking"}
        /\ \A v \in Workers \ {w} : phase'[v] = phase[v]
    <3> DEFINE o == LookupOutcome(reply[w])
               p == CASE o.kind \in {"ok", "DatasourceError"} -> "committed"
                      [] o.kind = "ErrEffectNotFound"         -> "start"
                      [] o.kind \in Definite                  -> "stopped"
                      [] OTHER                                -> "recover"
    <3>1. phase' = [phase EXCEPT ![w] = p] BY <1>12 DEF LookupReturns, AfterLookup
    <3>2. /\ p = "committed" => o.kind \in {"ok", "DatasourceError"}
          /\ p \notin {"invoking", "looking"}
      OBVIOUS
    <3> HIDE DEF p
    <3> QED BY <1>1, <3>1, <3>2 DEF WorkersType
  <2>4. phase'[w] = "committed" => actedBy[effect[w]] # {}
    BY <1>1, <2>1, <2>3, CommitBelieved DEF RepliedAs
  <2>5. RepliedAs(w)' BY <2>1, <2>2, <2>3, <2>4 DEF RepliedAs
  <2> QED BY <1>9, <2>1, <2>2, <2>3, <2>5
<1>13. ASSUME NEW w \in Workers, Lost(w) PROVE Replied'
  <2> DEFINE r == [code |-> "nonwire", status |-> "none", output |-> FALSE]
  <2>1. /\ UNCHANGED <<phase, effect, calls, inflight, actedBy>>
        /\ phase[w] \in {"invoking", "looking"} /\ reply' = [reply EXCEPT ![w] = r]
    BY <1>13 DEF Lost, workers
  <2>2. r.code = "nonwire" /\ r.status = "none" OBVIOUS
  <2> HIDE DEF r
  <2>3. reply'[w] = r /\ \A v \in Workers \ {w} : reply'[v] = reply[v]
    BY <1>1, <2>1 DEF NetType
  <2>4. RepliedAs(w)' BY <1>1, <2>1, <2>2, <2>3 DEF RepliedAs
  <2> QED BY <1>9, <2>1, <2>3, <2>4
<1>14. ASSUME NEW w \in Workers, Crash(w) PROVE Replied'
  <2>1. /\ UNCHANGED <<calls, inflight, actedBy>>
        /\ phase' = [phase EXCEPT ![w] = "start"]
        /\ reply' = [reply EXCEPT ![w] = NoReply]
        /\ effect' = [effect EXCEPT ![w] = IF persisted THEN 0 ELSE NoEffect]
    BY <1>14 DEF Crash
  <2>2. /\ phase'[w] = "start" /\ reply'[w] = NoReply
        /\ \A v \in Workers \ {w} :
             phase'[v] = phase[v] /\ effect'[v] = effect[v] /\ reply'[v] = reply[v]
    BY <1>1, <2>1 DEF NetType, WorkersType
  <2>3. RepliedAs(w)' BY <2>2 DEF RepliedAs
  <2> QED BY <1>9, <2>1, <2>2, <2>3
<1>15. ASSUME NEW m \in inflight,
              \/ RefuseInvoke(m) \/ ProviderRefuses(m) \/ Commit(m) \/ LoseTrack(m)
              \/ Replay(m) \/ AnswerLookup(m)
       PROVE  Replied'
  <2>1. PICK codes, status :
          /\ HostStep(m, codes, status)
          /\ status = "committed" => attempt[m.id] = "committed" \/ Commit(m)
    BY <1>15, HandlersAnswer
  <2>2. /\ inflight' = inflight \ {m}
        /\ UNCHANGED <<phase, effect, calls, actedBy>>
        /\ codes \subseteq HostCodes \cup {"ok"}
        /\ \/ reply' = reply
           \/ /\ Awaits(m)
              /\ \E r \in Replies : /\ reply' = [reply EXCEPT ![m.from] = r]
                                    /\ r.code \in codes /\ r.status \in {status, "invalid"}
    BY <2>1, Answered DEF HostStep, workers
  <2>3. status = "committed" => actedBy[m.id] # {}
    BY <1>1, <1>3, <2>1 DEF Commit, Requested, ActsRecorded
  <2>4. CASE reply' = reply
    <3>1. \A v \in Workers : RepliedAs(v)' BY <1>1, <2>2, <2>4, RepliedKept
    <3> QED BY <1>2, <3>1, RepliedPartsNext
  <2>5. CASE reply' # reply
    <3>1. PICK r \in Replies : /\ Awaits(m) /\ reply' = [reply EXCEPT ![m.from] = r]
                               /\ r.code \in codes /\ r.status \in {status, "invalid"}
      BY <2>2, <2>5
    <3>2. /\ m.from \in Workers /\ reply'[m.from] = r
          /\ \A v \in Workers \ {m.from} : reply'[v] = reply[v]
      BY <1>1, <1>3, <3>1 DEF NetType
    <3>3. phase[m.from] \in {"invoking", "looking"} /\ m.id = effect[m.from]
      BY <1>1, <3>1, <3>2 DEF Awaits, RepliedAs
    <3>4. RepliedAs(m.from)'
      BY <1>1, <2>2, <2>3, <3>1, <3>2, <3>3 DEF RepliedAs
    <3>5. \A v \in Workers \ {m.from} : RepliedAs(v)' BY <1>1, <2>2, <3>2, RepliedKept
    <3> QED BY <1>2, <3>4, <3>5, RepliedPartsNext
  <2> QED BY <2>4, <2>5
<1>16. ASSUME NEW m \in inflight, Attempt(m) \/ Act(m) PROVE Replied'
  <2>1. PICK n : /\ Advances(m, n)
                 /\ \/ actedBy' = actedBy
                    \/ actedBy' = [actedBy EXCEPT
                         ![m.id] = actedBy[m.id] \cup {<<m.from, m.call>>}]
    BY <1>1, <1>16, StagesDo
  <2>2. /\ UNCHANGED <<phase, effect, calls, reply>>
        /\ inflight' = (inflight \ {m}) \cup {n}
        /\ n.from = m.from /\ n.call = m.call /\ n.id = m.id
    BY <2>1 DEF Advances, workers
  <2>3. \A e \in Ids : actedBy[e] # {} => actedBy'[e] # {}
    BY <1>1, <2>1 DEF HostType
  <2>4. \A v \in Workers : phase[v] \in {"invoking", "looking", "committed"} => effect[v] \in Ids
    BY <1>1 DEF Named, WorkersType
  <2>5. \A v \in Workers : RepliedAs(v)' BY <1>1, <2>2, <2>3, <2>4, RepliedKept
  <2> QED BY <1>2, <2>5, RepliedPartsNext
<1>17. CASE RemoveDeclaration \/ UNCHANGED vars
  <2>1. UNCHANGED <<phase, effect, calls, reply, inflight, actedBy>>
    BY <1>17 DEF RemoveDeclaration, vars, workers, net
  <2>2. \A v \in Workers : RepliedAs(v)' BY <1>1, <2>1, RepliedKept
  <2> QED BY <1>2, <2>2, RepliedPartsNext
<1> QED BY <1>7, <1>8, <1>10, <1>11, <1>12, <1>13, <1>14, <1>15, <1>16, <1>17 DEF Next

-----------------------------------------------------------------------------
(* What is settled. *)

\* What Settled says of one worker.
SettledAs(w) ==
  effect[w] # NoEffect /\ ~unresolved[w] =>
    /\ phase[w] \in {"start", "refused"} => Silent(w)
    /\ phase[w] = "invoking" =>
         /\ \A m \in inflight :
              m.from = w /\ m.kind = "invoke" /\ m.id = effect[w] => m.call = calls[w]
         /\ \A a \in actedBy[effect[w]] : a[1] = w => a[2] = calls[w]
         /\ reply[w] # NoReply /\ InvokeOutcome(reply[w]).kind \in Definite => Silent(w)

\* A worker that does not move, and is told nothing, while requests end or are staged
\* and acts are those of a request under way.
LEMMA SettledKept ==
  ASSUME NEW w \in Workers, SettledAs(w), effect[w] \in Ids \cup {NoEffect},
         phase'[w] = phase[w], calls'[w] = calls[w], effect'[w] = effect[w],
         unresolved'[w] = unresolved[w],
         reply'[w] = reply[w] \/ InvokeOutcome(reply'[w]).kind \notin Definite,
         \A m \in inflight' : m.from = w =>
           \E x \in inflight : x.from = w /\ x.call = m.call /\ x.kind = m.kind /\ x.id = m.id,
         \A e \in Ids : \A a \in actedBy'[e] :
           \/ a \in actedBy[e]
           \/ \E x \in inflight : /\ a[1] = x.from /\ a[2] = x.call
                                  /\ x.kind = "invoke" /\ x.id = e
  PROVE  SettledAs(w)'
<1>1. CASE effect[w] = NoEffect \/ unresolved[w]
  BY <1>1 DEF SettledAs
<1>2. CASE effect[w] # NoEffect /\ ~unresolved[w]
  <2>1. effect[w] \in Ids BY <1>2
  <2>2. Silent(w) => Silent(w)' BY <2>1 DEF Silent
  <2>3. phase[w] = "invoking" =>
          /\ \A m \in inflight' :
               m.from = w /\ m.kind = "invoke" /\ m.id = effect[w] => m.call = calls[w]
          /\ \A a \in actedBy'[effect[w]] : a[1] = w => a[2] = calls[w]
    BY <1>2, <2>1 DEF SettledAs
  <2> QED BY <1>2, <2>2, <2>3 DEF SettledAs
<1> QED BY <1>1, <1>2

LEMMA NextSettled == IInv /\ [Next]_vars => Settled'
<1> SUFFICES ASSUME IInv, [Next]_vars PROVE \A w \in Workers : SettledAs(w)'
  BY DEF Settled, SettledAs
<1>1. /\ WorkersType /\ HostType /\ NetType /\ Counted /\ Named /\ Requested
      /\ ActsRecorded /\ Replied /\ \A w \in Workers : SettledAs(w)
  BY TypeParts DEF IInv, Settled, SettledAs
<1>2. \A m \in inflight : m.from \in Workers /\ m.id \in Ids /\ m.call \in Nat
  BY <1>1 DEF NetType, Requests
<1>3. \A w \in Workers : effect[w] \in Ids \cup {NoEffect} BY <1>1 DEF WorkersType
<1> DEFINE Goal == \A w \in Workers : SettledAs(w)'
<1>4. ASSUME NEW w \in Workers, NEW n, Dispatches(w, n), SettledAs(w)',
             \A v \in Workers \ {w} : phase'[v] = phase[v] /\ effect'[v] = effect[v]
      PROVE  Goal
  <2>1. /\ inflight' = inflight \cup {n} /\ n.from = w /\ actedBy' = actedBy
        /\ unresolved' = unresolved
        /\ \A v \in Workers \ {w} : calls'[v] = calls[v] /\ reply'[v] = reply[v]
    BY <1>1, <1>4 DEF Dispatches, WorkersType, NetType
  <2>2. \A v \in Workers \ {w} : SettledAs(v)' BY <1>1, <1>3, <1>4, <2>1, SettledKept
  <2> QED BY <1>4, <2>2
<1>5. ASSUME NEW w \in Workers, Invoke(w) PROVE Goal
  <2>1. PICK n : /\ Dispatches(w, n) /\ n.kind = "invoke" /\ n.id = Chosen(w)
                 /\ Chosen(w) \in Ids
                 /\ effect' = [effect EXCEPT ![w] = Chosen(w)]
                 /\ phase[w] = "start" /\ phase' = [phase EXCEPT ![w] = "invoking"]
    BY <1>1, <1>5, InvokeDoes
  <2>2. /\ effect'[w] = Chosen(w) /\ phase'[w] = "invoking"
        /\ \A v \in Workers \ {w} : phase'[v] = phase[v] /\ effect'[v] = effect[v]
    BY <1>1, <2>1 DEF WorkersType
  <2>3. /\ inflight' = inflight \cup {n} /\ n.from = w /\ n.call = calls'[w]
        /\ actedBy' = actedBy /\ unresolved' = unresolved /\ reply'[w] = NoReply
    BY <1>1, <2>1 DEF Dispatches, WorkersType, NetType
  <2>4. CASE unresolved[w]
    <3>1. SettledAs(w)' BY <2>3, <2>4 DEF SettledAs
    <3> QED BY <1>4, <2>1, <2>2, <3>1
  <2>5. CASE ~unresolved[w]
    <3>1. /\ \A m \in inflight : ~(m.from = w /\ m.kind = "invoke" /\ m.id = Chosen(w))
          /\ \A a \in actedBy[Chosen(w)] : a[1] # w
      <4>1. CASE effect[w] = NoEffect
        <5>1. Chosen(w) = minted + 1 /\ minted \in Int BY <1>1, <4>1 DEF Chosen, WorkersType, Ids
        <5>2. \A m \in inflight : m.id <= minted BY <1>1 DEF Requested
        <5>3. \A a \in actedBy[Chosen(w)] : Chosen(w) <= minted
          BY <1>1, <2>1 DEF ActsRecorded
        <5> QED BY <5>1, <5>2, <5>3
      <4>2. CASE effect[w] # NoEffect
        BY <1>1, <2>1, <2>5, <4>2 DEF Chosen, SettledAs, Silent
      <4> QED BY <4>1, <4>2
    <3>2. SettledAs(w)' BY <2>2, <2>3, <3>1 DEF SettledAs
    <3> QED BY <1>4, <2>1, <2>2, <3>2
  <2> QED BY <2>4, <2>5
<1>6. ASSUME NEW w \in Workers, Lookup(w) PROVE Goal
  <2>1. PICK n : /\ Dispatches(w, n) /\ effect' = effect
                 /\ phase[w] = "recover" /\ phase' = [phase EXCEPT ![w] = "looking"]
    BY <1>1, <1>6, LookupDoes
  <2>2. /\ phase'[w] = "looking" /\ \A v \in Workers \ {w} : phase'[v] = phase[v]
    BY <1>1, <2>1 DEF WorkersType
  <2>3. SettledAs(w)' BY <2>2 DEF SettledAs
  <2> QED BY <1>4, <2>1, <2>2, <2>3
<1>7. ASSUME NEW w \in Workers, UNCHANGED <<calls, inflight, actedBy>>, SettledAs(w)',
             \A v \in Workers \ {w} :
               /\ phase'[v] = phase[v] /\ effect'[v] = effect[v]
               /\ unresolved'[v] = unresolved[v] /\ reply'[v] = reply[v]
      PROVE  Goal
  <2>1. \A v \in Workers \ {w} : SettledAs(v)' BY <1>1, <1>3, <1>7, SettledKept
  <2> QED BY <1>7, <2>1
<1>8. ASSUME NEW w \in Workers, InvokeRefusesInput(w) PROVE Goal
  <2>1. /\ UNCHANGED <<effect, calls, inflight, reply, actedBy, unresolved>>
        /\ phase[w] = "start"
        /\ phase' = [phase EXCEPT ![w] = IF unresolved[w] THEN "recover" ELSE "refused"]
    BY <1>8 DEF InvokeRefusesInput, net
  <2>2. /\ phase'[w] = IF unresolved[w] THEN "recover" ELSE "refused"
        /\ \A v \in Workers \ {w} : phase'[v] = phase[v]
    BY <1>1, <2>1 DEF WorkersType
  <2>3. SettledAs(w)' BY <1>1, <2>1, <2>2 DEF SettledAs, Silent
  <2> QED BY <1>7, <2>1, <2>2, <2>3
<1>9. ASSUME NEW w \in Workers, InvokeReturns(w) PROVE Goal
  <2>1. /\ UNCHANGED <<effect, calls, inflight, actedBy>> /\ reply[w] # NoReply
        /\ phase[w] = "invoking" /\ reply' = [reply EXCEPT ![w] = NoReply]
        /\ AfterInvoke(w, InvokeOutcome(reply[w]))
    BY <1>9 DEF InvokeReturns
  <2>2. \A v \in Workers \ {w} : reply'[v] = reply[v]
    BY <1>1, <2>1 DEF NetType
  <2>3. effect[w] # NoEffect /\ ~unresolved'[w] => Silent(w)
    BY <1>1, <2>1, AfterInvokeNames DEF SettledAs
  <2>4. phase'[w] # "invoking" BY <1>1, <2>1, AfterInvokeNames
  <2>5. SettledAs(w)' BY <2>1, <2>3, <2>4 DEF SettledAs, Silent
  <2> QED BY <1>1, <1>7, <2>1, <2>2, <2>5, AfterInvokeNames
<1>10. ASSUME NEW w \in Workers, LookupReturns(w) PROVE Goal
  <2>1. /\ UNCHANGED <<effect, calls, inflight, actedBy, unresolved>>
        /\ phase[w] = "looking" /\ reply' = [reply EXCEPT ![w] = NoReply]
        /\ \E p \in Phases : phase' = [phase EXCEPT ![w] = p]
    BY <1>10, MovesOn DEF LookupReturns, AfterLookup
  <2>2. \A v \in Workers \ {w} : reply'[v] = reply[v] /\ phase'[v] = phase[v]
    BY <1>1, <2>1 DEF NetType, WorkersType
  <2>3. SettledAs(w)' BY <1>1, <2>1 DEF Named, SettledAs
  <2> QED BY <1>7, <2>1, <2>2, <2>3
<1>11. ASSUME NEW w \in Workers, Lost(w) PROVE Goal
  <2> DEFINE r == [code |-> "nonwire", status |-> "none", output |-> FALSE]
  <2>1. /\ UNCHANGED <<phase, effect, calls, unresolved, inflight, actedBy>>
        /\ reply' = [reply EXCEPT ![w] = r]
    BY <1>11 DEF Lost, workers
  <2>2. r.code = "nonwire" OBVIOUS
  <2> HIDE DEF r
  <2>3. InvokeOutcome(r).kind \notin Definite BY <2>2, OpenOutcome
  <2>4. reply'[w] = r /\ \A v \in Workers \ {w} : reply'[v] = reply[v]
    BY <1>1, <2>1 DEF NetType
  <2>5. InvokeOutcome(reply'[w]).kind \notin Definite BY <2>3, <2>4
  <2> QED BY <1>1, <1>3, <2>1, <2>4, <2>5, SettledKept
<1>12. ASSUME NEW w \in Workers, Crash(w) PROVE Goal
  <2>1. /\ UNCHANGED <<calls, inflight, actedBy>>
        /\ phase' = [phase EXCEPT ![w] = "start"]
        /\ reply' = [reply EXCEPT ![w] = NoReply]
        /\ unresolved' = [unresolved EXCEPT ![w] = persisted]
        /\ effect' = [effect EXCEPT ![w] = IF persisted THEN 0 ELSE NoEffect]
    BY <1>12 DEF Crash
  <2>2. /\ effect'[w] = IF persisted THEN 0 ELSE NoEffect
        /\ \A v \in Workers \ {w} :
             phase'[v] = phase[v] /\ effect'[v] = effect[v] /\ reply'[v] = reply[v]
    BY <1>1, <2>1 DEF NetType, WorkersType
  <2>3. /\ unresolved'[w] = persisted
        /\ \A v \in Workers \ {w} : unresolved'[v] = unresolved[v]
    BY <1>1, <2>1 DEF WorkersType
  <2>4. SettledAs(w)'
    <3>1. CASE persisted BY <2>3, <3>1 DEF SettledAs
    <3>2. CASE ~persisted BY <2>2, <3>2 DEF SettledAs
    <3> QED BY <3>1, <3>2
  <2> QED BY <1>7, <2>1, <2>2, <2>3, <2>4
<1>13. ASSUME NEW m \in inflight,
              \/ RefuseInvoke(m) \/ ProviderRefuses(m) \/ Commit(m) \/ LoseTrack(m)
              \/ Replay(m) \/ AnswerLookup(m)
       PROVE  Goal
  <2>1. PICK codes, status :
          /\ HostStep(m, codes, status)
          /\ \/ m.kind = "lookup" \/ m.stage # "acted"
             \/ codes \subseteq {"ok", "OutcomeUnknown", "Unavailable", "Internal"}
    BY <1>13, HandlersAnswer
  <2>2. /\ inflight' = inflight \ {m}
        /\ UNCHANGED <<phase, effect, calls, unresolved, actedBy>>
        /\ \/ reply' = reply
           \/ /\ Awaits(m)
              /\ \E r \in Replies : /\ reply' = [reply EXCEPT ![m.from] = r]
                                    /\ r.code \in codes
    BY <2>1, Answered DEF HostStep, workers
  <2>3. CASE reply' = reply
    BY <1>1, <1>3, <2>2, <2>3, SettledKept
  <2>4. CASE reply' # reply
    <3>1. PICK r \in Replies : /\ Awaits(m) /\ reply' = [reply EXCEPT ![m.from] = r]
                               /\ r.code \in codes
      BY <2>2, <2>4
    <3>2. /\ m.from \in Workers /\ reply'[m.from] = r
          /\ \A v \in Workers \ {m.from} : reply'[v] = reply[v]
      BY <1>1, <1>2, <3>1 DEF NetType
    <3>3. \A v \in Workers \ {m.from} : SettledAs(v)'
      BY <1>1, <1>3, <2>2, <3>2, SettledKept
    <3>4. SettledAs(m.from)'
      <4>1. CASE InvokeOutcome(r).kind \notin Definite
        BY <1>1, <1>3, <2>2, <3>2, <4>1, SettledKept
      <4>2. CASE InvokeOutcome(r).kind \in Definite
        <5>1. m.kind = "lookup" \/ m.stage # "acted"
          BY <2>1, <3>1, <4>2, OpenOutcome
        <5>2. CASE phase[m.from] = "invoking"
          <6>1. m.kind = "invoke" /\ m.call = calls[m.from] BY <3>1, <5>2 DEF Awaits
          <6>2. m.kind # "lookup" BY <6>1
          <6>3. <<m.from, m.call>> \notin actedBy[m.id] BY <1>1, <5>1, <6>2 DEF Requested
          <6>4. m.id = effect[m.from] /\ m.id \in Ids
            BY <1>1, <1>2, <5>2, <6>1 DEF Replied
          <6>5. ASSUME effect[m.from] # NoEffect, ~unresolved[m.from]
                PROVE  /\ Silent(m.from)'
                       /\ \A x \in inflight' :
                            ~(x.from = m.from /\ x.kind = "invoke" /\ x.id = effect[m.from])
            <7>1. \A x \in inflight :
                    x.from = m.from /\ x.kind = "invoke" /\ x.id = effect[m.from] =>
                      x.call = m.call
              BY <1>1, <3>2, <5>2, <6>1, <6>5 DEF SettledAs
            <7>2. \A x \in inflight :
                    x.from = m.from /\ x.kind = "invoke" /\ x.id = effect[m.from] => x = m
              BY <1>1, <7>1 DEF Requested
            <7>3. \A a \in actedBy[m.id] : a[1] = m.from => a = <<m.from, m.call>>
              <8>1. \A a \in actedBy[m.id] : a[1] = m.from => a[2] = m.call
                BY <1>1, <3>2, <5>2, <6>1, <6>4, <6>5 DEF SettledAs
              <8>2. \A a \in actedBy[m.id] : a = <<a[1], a[2]>>
                BY <1>1, <6>4 DEF HostType
              <8> QED BY <8>1, <8>2
            <7> QED BY <2>2, <6>3, <6>4, <7>2, <7>3 DEF Silent
          <6>6. ASSUME effect[m.from] # NoEffect, ~unresolved[m.from]
                PROVE  \A a \in actedBy'[effect[m.from]] : a[1] = m.from => a[2] = calls[m.from]
            BY <1>1, <2>2, <3>2, <5>2, <6>6 DEF SettledAs
          <6> QED BY <2>2, <5>2, <6>5, <6>6 DEF SettledAs
        <5>3. CASE phase[m.from] # "invoking"
          BY <1>1, <2>2, <3>1, <5>3 DEF SettledAs, Awaits
        <5> QED BY <5>2, <5>3
      <4> QED BY <4>1, <4>2
    <3> QED BY <3>3, <3>4
  <2> QED BY <2>3, <2>4
<1>14. ASSUME NEW m \in inflight, Attempt(m) \/ Act(m) PROVE Goal
  <2>1. PICK n : /\ Advances(m, n)
                 /\ \/ m.kind = "invoke" /\ actedBy' = actedBy
                    \/ /\ m.stage = "attempting"
                       /\ actedBy' = [actedBy EXCEPT
                            ![m.id] = actedBy[m.id] \cup {<<m.from, m.call>>}]
    BY <1>1, <1>14, StagesDo
  <2>2. /\ UNCHANGED <<phase, effect, calls, unresolved, reply>>
        /\ inflight' = (inflight \ {m}) \cup {n}
        /\ n.from = m.from /\ n.call = m.call /\ n.kind = m.kind /\ n.id = m.id
    BY <2>1 DEF Advances, workers
  <2>3. m.kind = "invoke" BY <1>1, <2>1 DEF Requested
  <2>4. \A e \in Ids : \A a \in actedBy'[e] :
          a \in actedBy[e] \/ (a[1] = m.from /\ a[2] = m.call /\ m.id = e)
    BY <1>1, <2>1 DEF HostType
  <2>5. \A e \in Ids : \A a \in actedBy'[e] :
          \/ a \in actedBy[e]
          \/ \E x \in inflight : /\ a[1] = x.from /\ a[2] = x.call
                                 /\ x.kind = "invoke" /\ x.id = e
    BY <2>3, <2>4
  <2> QED BY <1>1, <1>3, <2>2, <2>5, SettledKept
<1>15. CASE RemoveDeclaration \/ UNCHANGED vars
  <2>1. UNCHANGED <<phase, effect, calls, unresolved, reply, inflight, actedBy>>
    BY <1>15 DEF RemoveDeclaration, vars, workers, net
  <2> QED BY <1>1, <1>3, <2>1, SettledKept
<1> QED BY <1>5, <1>6, <1>8, <1>9, <1>10, <1>11, <1>12, <1>13, <1>14, <1>15 DEF Next

-----------------------------------------------------------------------------
(* The invariant. *)

LEMMA InitInv == Init => IInv
<1> SUFFICES ASSUME Init PROVE IInv
  OBVIOUS
<1>1. TypeOK /\ Counted BY InitType
<1>2. inflight = {} BY DEF Init
<1>3. \A e \in Ids : actedBy[e] = {} /\ attempt[e] = "absent" BY DEF Init
<1>4. Requested /\ ActsRecorded BY <1>2, <1>3 DEF Requested, ActsRecorded
<1>5. 0 \in Ids BY BoundsAssumption DEF Ids
<1>6. /\ minted = 0
      /\ \A w \in Workers : /\ phase[w] = "start" /\ ~unresolved[w] /\ reply[w] = NoReply
                            /\ effect[w] = IF persisted THEN 0 ELSE NoEffect
  BY DEF Init
<1>7. Named BY <1>6 DEF Named
<1>8. Owned BY <1>2, <1>3 DEF Owned
<1>9. Replied BY <1>2, <1>6 DEF Replied
<1>10. Settled
  <2>1. \A w \in Workers : effect[w] # NoEffect => effect[w] \in Ids BY <1>5, <1>6
  <2>2. \A w \in Workers : effect[w] # NoEffect => Silent(w)
    BY <1>2, <1>3, <2>1 DEF Silent
  <2> QED BY <1>6, <2>2 DEF Settled
<1> QED BY <1>1, <1>4, <1>7, <1>8, <1>9, <1>10 DEF IInv

LEMMA NextInv == IInv /\ [Next]_vars => IInv'
<1>1. IInv => TypeOK /\ Counted /\ Requested /\ Named BY DEF IInv
<1> QED
  BY <1>1, NextType, NextRecords, NextNamed, NextOwned, NextReplied, NextSettled DEF IInv

LEMMA Invariant == Spec => []IInv
BY InitInv, NextInv, PTL DEF Spec

-----------------------------------------------------------------------------
(* The refinement of EffectPromise. *)

Kept == IF persisted THEN 0 ELSE NoEffect
Used == {0} \cup 1..minted
Told == [w \in Workers |-> IF phase[w] \in {"committed", "refused"} THEN phase[w]
                                                                ELSE "nothing"]

LEMMA InitPromise == Init => Promise!Init
<1> SUFFICES ASSUME Init PROVE Promise!Init
  OBVIOUS
<1>1. 0 \in Ids BY BoundsAssumption DEF Ids
<1>2. {0} \cup 1..minted = {0} BY DEF Init
<1>3. NoEffect \notin Ids BY NothingAssumption
<1> QED BY <1>1, <1>2, <1>3 DEF Init, Promise!Init

\* A worker that moves without having been told anything before or after.
LEMMA NothingTold ==
  ASSUME WorkersType, NEW w \in Workers, NEW p, phase' = [phase EXCEPT ![w] = p],
         phase[w] \notin {"committed", "refused"}
  PROVE  /\ Told[w] = "nothing"
         /\ p \notin {"committed", "refused"} => Told' = Told
         /\ p \in {"committed", "refused"} => Told' = [Told EXCEPT ![w] = p]
<1>1. phase'[w] = p /\ \A v \in Workers \ {w} : phase'[v] = phase[v]
  BY DEF WorkersType
<1>2. Told[w] = "nothing" BY DEF Told
<1>3. CASE p \notin {"committed", "refused"}
  BY <1>1, <1>2, <1>3 DEF Told
<1>4. CASE p \in {"committed", "refused"}
  <2>1. Told' = [v \in Workers |-> IF v = w THEN p ELSE Told[v]] BY <1>1, <1>4 DEF Told
  <2>2. [Told EXCEPT ![w] = p] = [v \in Workers |-> IF v = w THEN p ELSE Told[v]]
    BY DEF Told
  <2> QED BY <1>2, <1>4, <2>1, <2>2
<1> QED BY <1>3, <1>4

\* A worker that goes back to where nothing is told yet tells nothing.
LEMMA StillUntold ==
  ASSUME WorkersType, NEW w \in Workers, phase[w] \notin {"committed", "refused"},
         \E p \in {"start", "invoking", "recover", "looking"} :
           phase' = [phase EXCEPT ![w] = p]
  PROVE  Told[w] = "nothing" /\ Told' = Told
<1>1. PICK p \in {"start", "invoking", "recover", "looking"} :
        phase' = [phase EXCEPT ![w] = p]
  OBVIOUS
<1>2. p \notin {"committed", "refused"} OBVIOUS
<1> QED BY <1>1, <1>2, NothingTold

\* What leaves all of this alone is a stutter.
LEMMA Stutters ==
  ASSUME Kept' = Kept, effect' = effect, Used' = Used, actedBy' = actedBy, Told' = Told
  PROVE  [Promise!Next]_(Promise!vars)
BY DEF Promise!vars, Kept, Used, Told

LEMMA Concludes ==
  ASSUME WorkersType, NEW w \in Workers, Told[w] = "nothing",
         UNCHANGED <<persisted, minted, effect, actedBy>>,
         \/ /\ Told' = [Told EXCEPT ![w] = "committed"]
            /\ effect[w] # NoEffect /\ actedBy[effect[w]] # {}
         \/ /\ Told' = [Told EXCEPT ![w] = "refused"]
            /\ effect[w] # NoEffect => Silent(w)
  PROVE  [Promise!Next]_(Promise!vars)
<1>1. Kept' = Kept /\ Used' = Used BY DEF Kept, Used
<1>2. CASE /\ Told' = [Told EXCEPT ![w] = "committed"]
           /\ effect[w] # NoEffect /\ actedBy[effect[w]] # {}
  <2>1. Promise!Committed(w) BY <1>1, <1>2 DEF Promise!Committed, Kept, Used, Told
  <2> QED BY <2>1 DEF Promise!Next
<1>3. CASE /\ Told' = [Told EXCEPT ![w] = "refused"]
           /\ effect[w] # NoEffect => Silent(w)
  <2>1. effect[w] # NoEffect => ~\E c \in 1..MaxCalls : <<w, c>> \in actedBy[effect[w]]
    BY <1>3 DEF Silent
  <2>2. Promise!Refused(w) BY <1>1, <1>3, <2>1 DEF Promise!Refused, Kept, Used, Told
  <2> QED BY <2>2 DEF Promise!Next
<1> QED BY <1>2, <1>3

LEMMA NextPromise ==
  ASSUME IInv, [Next]_vars PROVE [Promise!Next]_(Promise!vars)
<1>1. /\ WorkersType /\ HostType /\ NetType /\ Counted /\ Named /\ Requested
      /\ ActsRecorded /\ Settled
  BY TypeParts DEF IInv
<1>2. Replied' /\ Settled' /\ Named' BY NextInv DEF IInv
<1>3. ASSUME NEW w \in Workers, Invoke(w) PROVE [Promise!Next]_(Promise!vars)
  <2>1. PICK n : /\ Dispatches(w, n) /\ Chosen(w) \in Ids
                 /\ minted' = IF effect[w] = NoEffect THEN minted + 1 ELSE minted
                 /\ effect' = [effect EXCEPT ![w] = Chosen(w)]
                 /\ phase[w] = "start" /\ phase' = [phase EXCEPT ![w] = "invoking"]
    BY <1>1, <1>3, InvokeDoes
  <2>2. Kept' = Kept /\ actedBy' = actedBy BY <2>1 DEF Dispatches, Kept
  <2>3. Told[w] = "nothing" /\ Told' = Told BY <1>1, <2>1, StillUntold
  <2>4. CASE effect[w] = NoEffect
    <3>1. minted' = minted + 1 /\ Chosen(w) = minted + 1 /\ minted \in Nat
      BY <1>1, <2>1, <2>4 DEF Chosen, WorkersType, Ids
    <3>2. minted + 1 \notin Used /\ Used' = Used \cup {minted + 1} BY <3>1 DEF Used
    <3>3. Promise!Adopt(w, minted + 1)
      BY <2>1, <2>2, <2>3, <2>4, <3>1, <3>2 DEF Promise!Adopt, Kept, Used, Told
    <3> QED BY <2>1, <3>1, <3>3 DEF Promise!Next
  <2>5. CASE effect[w] # NoEffect
    <3>1. effect' = effect BY <1>1, <2>1, <2>5 DEF Chosen, WorkersType
    <3>2. Used' = Used BY <2>1, <2>5 DEF Used
    <3> QED BY <2>2, <2>3, <3>1, <3>2, Stutters
  <2> QED BY <2>4, <2>5
<1>4. ASSUME NEW w \in Workers, Lookup(w) PROVE [Promise!Next]_(Promise!vars)
  <2>1. PICK n : /\ Dispatches(w, n) /\ UNCHANGED <<minted, effect>>
                 /\ phase[w] = "recover" /\ phase' = [phase EXCEPT ![w] = "looking"]
    BY <1>1, <1>4, LookupDoes
  <2>2. Told' = Told BY <1>1, <2>1, StillUntold
  <2> QED BY <2>1, <2>2, Stutters DEF Dispatches, Kept, Used
<1>5. ASSUME NEW w \in Workers, InvokeRefusesInput(w) PROVE [Promise!Next]_(Promise!vars)
  <2>1. /\ UNCHANGED <<persisted, minted, effect, unresolved, actedBy>>
        /\ phase[w] = "start"
        /\ phase' = [phase EXCEPT ![w] = IF unresolved[w] THEN "recover" ELSE "refused"]
    BY <1>5 DEF InvokeRefusesInput
  <2>2. CASE unresolved[w]
    <3>1. Told' = Told BY <1>1, <2>1, <2>2, StillUntold
    <3> QED BY <2>1, <3>1, Stutters DEF Kept, Used
  <2>3. CASE ~unresolved[w]
    <3>1. Told[w] = "nothing" /\ Told' = [Told EXCEPT ![w] = "refused"]
      BY <1>1, <2>1, <2>3, NothingTold
    <3>2. effect[w] # NoEffect => Silent(w) BY <1>1, <2>1, <2>3 DEF Settled
    <3> QED BY <1>1, <2>1, <3>1, <3>2, Concludes
  <2> QED BY <2>2, <2>3
<1>6. ASSUME NEW w \in Workers, InvokeReturns(w) \/ LookupReturns(w)
      PROVE  [Promise!Next]_(Promise!vars)
  <2>1. /\ UNCHANGED <<persisted, minted, effect, inflight, actedBy>>
        /\ phase[w] \in {"invoking", "looking"}
        /\ \E p \in Phases : phase' = [phase EXCEPT ![w] = p]
    BY <1>6, MovesOn DEF InvokeReturns, LookupReturns
  <2>2. PICK p \in Phases : phase' = [phase EXCEPT ![w] = p] BY <2>1
  <2>3. phase'[w] = p BY <1>1, <2>2 DEF WorkersType
  <2>4. Told[w] = "nothing" BY <1>1, <2>1, <2>2, NothingTold
  <2>5. effect[w] # NoEffect BY <1>1, <2>1 DEF Named
  <2>6. CASE p = "committed"
    <3>1. Told' = [Told EXCEPT ![w] = "committed"] BY <1>1, <2>1, <2>2, <2>6, NothingTold
    <3>2. actedBy[effect[w]] # {} BY <1>2, <2>1, <2>3, <2>6 DEF Replied
    <3> QED BY <1>1, <2>1, <2>4, <2>5, <3>1, <3>2, Concludes
  <2>7. CASE p = "refused"
    <3>1. Told' = [Told EXCEPT ![w] = "refused"] BY <1>1, <2>1, <2>2, <2>7, NothingTold
    <3>2. Silent(w)' BY <1>2, <2>1, <2>3, <2>5, <2>7 DEF Settled, Named
    <3>3. Silent(w) BY <2>1, <3>2 DEF Silent
    <3> QED BY <1>1, <2>1, <2>4, <3>1, <3>3, Concludes
  <2>8. CASE p \notin {"committed", "refused"}
    <3>1. Told' = Told BY <1>1, <2>1, <2>2, <2>8, NothingTold
    <3> QED BY <2>1, <3>1, Stutters DEF Kept, Used
  <2> QED BY <2>6, <2>7, <2>8
<1>7. ASSUME NEW w \in Workers, Crash(w) PROVE [Promise!Next]_(Promise!vars)
  <2>1. /\ UNCHANGED <<persisted, minted, actedBy>>
        /\ phase[w] \notin {"committed", "refused"}
        /\ phase' = [phase EXCEPT ![w] = "start"]
        /\ effect' = [effect EXCEPT ![w] = Kept]
    BY <1>7 DEF Crash, Kept
  <2>2. Told[w] = "nothing" /\ Told' = Told BY <1>1, <2>1, StillUntold
  <2>3. Kept' = Kept /\ Used' = Used BY <2>1 DEF Kept, Used
  <2>4. Promise!Crash(w) BY <2>1, <2>2, <2>3 DEF Promise!Crash, Kept, Used, Told
  <2> QED BY <2>4 DEF Promise!Next
<1>8. ASSUME NEW m \in inflight, Act(m) PROVE [Promise!Next]_(Promise!vars)
  <2>1. /\ m.from \in Workers /\ m.id \in Ids /\ m.call \in Nat BY <1>1 DEF NetType, Requests
  <2>2. /\ m.stage = "attempting" /\ UNCHANGED <<persisted, minted, phase, effect>>
        /\ actedBy' = [actedBy EXCEPT ![m.id] = @ \cup {<<m.from, m.call>>}]
    BY <1>8 DEF Act, workers
  <2>3. /\ m.kind = "invoke" /\ actedBy[m.id] = {} /\ m.id <= minted
        /\ m.call \in 1..calls[m.from]
    BY <1>1, <2>2 DEF Requested
  <2>4. m.call \in 1..MaxCalls
    <3>1. calls[m.from] \in 0..MaxCalls BY <1>1, <2>1 DEF WorkersType
    <3> QED BY <2>3, <3>1, BoundsAssumption
  <2>5. m.id \in Used BY <1>1, <2>1, <2>3 DEF Used, Ids, WorkersType
  <2>6. actedBy' = [actedBy EXCEPT ![m.id] = {<<m.from, m.call>>}] BY <2>2, <2>3
  <2>7. ~(Told[m.from] = "refused" /\ effect[m.from] = m.id)
    <3>1. CASE phase[m.from] = "refused" /\ effect[m.from] = m.id
      <4>1. Silent(m.from)
        BY <1>1, <2>1, <3>1, NothingAssumption DEF Settled, Named
      <4> QED BY <2>3, <3>1, <4>1 DEF Silent
    <3>2. CASE ~(phase[m.from] = "refused" /\ effect[m.from] = m.id)
      BY <2>1, <3>2 DEF Told
    <3> QED BY <3>1, <3>2
  <2>8. Kept' = Kept /\ Used' = Used /\ Told' = Told BY <2>2 DEF Kept, Used, Told
  <2>9. Promise!Act(m.from, m.call, m.id)
    BY <2>2, <2>3, <2>5, <2>6, <2>7, <2>8 DEF Promise!Act, Kept, Used, Told
  <2> QED BY <2>1, <2>4, <2>9 DEF Promise!Next
<1>9. ASSUME UNCHANGED <<persisted, minted, phase, effect, actedBy>>
      PROVE  [Promise!Next]_(Promise!vars)
  BY <1>9, Stutters DEF Kept, Used, Told
<1>10. ASSUME NEW m \in inflight,
              \/ RefuseInvoke(m) \/ ProviderRefuses(m) \/ Commit(m) \/ LoseTrack(m)
              \/ Replay(m) \/ AnswerLookup(m) \/ Attempt(m)
       PROVE  UNCHANGED <<persisted, minted, phase, effect, actedBy>>
  BY <1>1, <1>10, HandlersEnd DEF Ends, Attempt, workers
<1>11. (\E w \in Workers : Lost(w)) \/ RemoveDeclaration \/ UNCHANGED vars
       => UNCHANGED <<persisted, minted, phase, effect, actedBy>>
  BY DEF Lost, RemoveDeclaration, vars, workers
<1> QED BY <1>3, <1>4, <1>5, <1>6, <1>7, <1>8, <1>9, <1>10, <1>11 DEF Next

-----------------------------------------------------------------------------
(* Theorems. *)

\* The variables keep their types: among them that no more IDs are minted than calls
\* are made.
THEOREM TypeCorrect == Spec => []TypeOK
<1>1. IInv => TypeOK BY DEF IInv
<1> QED BY Invariant, <1>1, PTL

\* A set of equal elements is empty or a singleton.
LEMMA AtMostOne ==
  ASSUME NEW S, \A a, b \in S : a = b PROVE Cardinality(S) <= 1
<1>1. CASE S = {} BY <1>1, FS_EmptySet
<1>2. CASE S # {}
  <2>1. PICK a : a \in S BY <1>2
  <2>2. S = {a} BY <2>1
  <2> QED BY <2>2, FS_Singleton
<1> QED BY <1>1, <1>2

\* Whatever is delayed, lost, repeated, redelivered or cut short by crashes, with any
\* number of workers: a job with a persisted ID acts at most once, and without one each
\* worker that does not crash does.
THEOREM JobActsOnceHolds == Spec => []JobActsOnce
<1>1. IInv => JobActsOnce
  <2> SUFFICES ASSUME IInv PROVE JobActsOnce
    OBVIOUS
  <2>1. /\ WorkersType /\ ActsRecorded /\ Named /\ Owned
        /\ \A e \in Ids : \A a, b \in actedBy[e] : a = b
    BY TypeParts DEF IInv, ActsRecorded
  <2>2. CASE persisted
    <3> DEFINE S == UNION {actedBy[e] : e \in Ids}
    <3>1. \A e \in Ids : actedBy[e] # {} => e = 0
      BY <2>1, <2>2 DEF ActsRecorded, Named, Ids
    <3>2. \A a \in S : 0 \in Ids /\ a \in actedBy[0] BY <3>1
    <3>3. \A a, b \in S : a = b BY <2>1, <3>2
    <3> HIDE DEF S
    <3>4. Cardinality(S) <= 1 BY <3>3, AtMostOne
    <3> QED BY <2>2, <3>4 DEF JobActsOnce, S
  <2>3. CASE ~persisted
    <3>1. ASSUME crashes = 0, NEW w \in Workers PROVE Cardinality(ActsOf(w)) <= 1
      <4>1. \A a \in ActsOf(w) : \E e \in Ids : a \in actedBy[e] /\ effect[w] = e
        BY <2>1, <2>3, <3>1 DEF ActsOf, Owned
      <4>2. \A a, b \in ActsOf(w) : a = b BY <2>1, <4>1
      <4> HIDE DEF ActsOf
      <4> QED BY <4>2, AtMostOne
    <3> QED BY <2>3, <3>1 DEF JobActsOnce
  <2> QED BY <2>2, <2>3
<1> QED BY Invariant, <1>1, PTL

\* What a worker concludes of its effect is so, whatever it was told and in what order.
THEOREM ConcludedHolds == Spec => []Concluded
<1>1. IInv => Concluded
  <2> SUFFICES ASSUME IInv, NEW w \in Workers
               PROVE  /\ phase[w] = "committed" => actedBy[effect[w]] # {}
                      /\ phase[w] = "refused" /\ effect[w] # NoEffect =>
                           /\ actedBy[effect[w]] \cap ActsOf(w) = {}
                           /\ ~\E m \in inflight :
                                m.from = w /\ m.kind = "invoke" /\ m.id = effect[w]
    BY DEF Concluded
  <2>1. phase[w] = "committed" => actedBy[effect[w]] # {} BY DEF IInv, Replied
  <2>2. phase[w] = "refused" /\ effect[w] # NoEffect => Silent(w)
    BY DEF IInv, Settled, Named
  <2>3. \A a \in ActsOf(w) : a[1] = w BY DEF ActsOf
  <2> QED BY <2>1, <2>2, <2>3 DEF Silent
<1> QED BY Invariant, <1>1, PTL

\* Without a persisted ID too, a worker that has not crashed knows the ID of every
\* effect its requests had.
THEOREM EvidenceKeptHolds == Spec => []EvidenceKept
<1>1. IInv => EvidenceKept
  <2>1. \A w : \A a \in ActsOf(w) : a[1] = w BY DEF ActsOf
  <2> QED BY <2>1 DEF IInv, Owned, EvidenceKept
<1> QED BY Invariant, <1>1, PTL

\* To its callers the client, the network and the host together are what EffectPromise
\* says: at most one act by ID, IDs kept while in doubt, and nothing told that is or
\* becomes untrue.
THEOREM PromiseHolds == Spec => EffectPromised
<1>1. IInv /\ [Next]_vars => [Promise!Next]_(Promise!vars) BY NextPromise
<1> QED BY InitPromise, Invariant, <1>1, PTL DEF Spec, EffectPromised, Promise!Spec
=============================================================================
