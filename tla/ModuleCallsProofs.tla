-------------------------- MODULE ModuleCallsProofs --------------------------
(***************************************************************************)
(* What the facades return is so, and a relayed event is written once, for *)
(* any number of goroutines, artifacts, events, faults and crashes.        *)
(***************************************************************************)
EXTENDS ModuleCalls, TLAPS

\* What holds of one call r, given the host's consents and audit rows: an event is
\* what is emitted, anything else is about something at the host; what the host did
\* is on record there, until the answer is read and after; and r's outcome is true.
Sound(r, con, wr) ==
  /\ r.op = "audit" <=> r.about \in Keys
  /\ r.op # "audit" => r.did \in Ids \cup {Unexecuted}
  /\ r.phase = "executed" /\ r.op = "audit" => wr[r.about] = 1
  /\ r.phase = "executed" /\ r.op = "revoke" => con[r.did] = "revoked"
  /\ r.phase = "returned" /\ r.err = "none" =>
       /\ r.did # Unexecuted
       /\ r.op = "audit" => wr[r.about] = 1
       /\ r.op = "installation" => r.did = r.about
       /\ r.op = "revoke" => con[r.about] = "revoked"
       /\ r.op \in {"approve", "authorize"} => Revision[r.did] = Revision[r.about]
  /\ r.phase = "returned"
     /\ r.err \in {"ErrInvalidExchange", "ErrInvalidNotice", "ErrInvalidAuditEvent",
                   "ErrNoAuthority", "MintFailed", "Unauthenticated"}
     => r.did = Unexecuted

AllSound == \A c \in Callers : Sound(call[c], consent, written)

IInv == TypeOK /\ AllSound /\ EventsWrittenOnce

-----------------------------------------------------------------------------
(* Types. *)

Calls == [phase : {"idle", "first", "retry", "executed", "returned"},
          op : Procedures,
          about : Ids \cup Keys,
          did : Ids \cup Keys \cup {Unexecuted},
          formed : BOOLEAN,
          err : Errors]

\* The part of TypeOK that relates the fields of a call.
Phased ==
  \A c \in Callers :
    /\ call[c].phase \in {"first", "retry"} => call[c].did = Unexecuted
    /\ call[c].phase = "executed" => call[c].did # Unexecuted
    /\ call[c].phase \in {"first", "retry", "executed"} => authority

LEMMA TypeParts ==
  TypeOK => /\ authority \in BOOLEAN
             /\ call \in [Callers -> Calls]
             /\ outbox \subseteq Keys
             /\ consent \in [Ids -> {"none", "approved", "revoked"}]
             /\ written \in [Keys -> Nat]
             /\ spent \in [calls : 0 .. MaxCalls, faults : 0 .. MaxFaults,
                           crashes : 0 .. MaxCrashes]
             /\ Phased
BY DEF TypeOK, Calls, Phased

LEMMA TypePartsNext ==
  ASSUME authority' \in BOOLEAN, call' \in [Callers -> Calls], outbox' \subseteq Keys,
         consent' \in [Ids -> {"none", "approved", "revoked"}], written' \in [Keys -> Nat],
         spent' \in [calls : 0 .. MaxCalls, faults : 0 .. MaxFaults,
                     crashes : 0 .. MaxCrashes],
         Phased'
  PROVE  TypeOK'
BY DEF TypeOK, Calls, Phased

\* What is spent stays within its bound.
LEMMA SpendType ==
  ASSUME spent \in [calls : 0 .. MaxCalls, faults : 0 .. MaxFaults,
                    crashes : 0 .. MaxCrashes],
         \/ UNCHANGED spent \/ Spend("calls", MaxCalls)
         \/ Spend("faults", MaxFaults) \/ Spend("crashes", MaxCrashes)
  PROVE  spent' \in [calls : 0 .. MaxCalls, faults : 0 .. MaxFaults,
                     crashes : 0 .. MaxCrashes]
BY BoundsAssumption DEF Spend

\* A refusal before anything is sent has an error of its own.
LEMMA RefusedType ==
  ASSUME authority \in BOOLEAN, NEW op \in Procedures, NEW valid \in BOOLEAN,
         op = "declare" => valid
  PROVE  /\ Refused(op, valid) \in Errors
         /\ Refused(op, valid) = "none" => authority
<1>1. CASE ~valid
  <2>1. Refused(op, valid) = InvalidRequest(op) BY <1>1 DEF Refused
  <2>2. InvalidRequest(op) \in Errors \ {"none"}
    BY <1>1 DEF InvalidRequest, Procedures, Errors
  <2> QED BY <2>1, <2>2
<1>2. CASE valid
  BY <1>2 DEF Refused, Errors
<1> QED BY <1>1, <1>2

LEMMA ReceiptType ==
  ASSUME NEW op \in Procedures, NEW about, NEW did, NEW formed \in BOOLEAN
  PROVE  /\ Receipt(op, about, did, formed) \in Errors
         /\ Receipt(op, about, did, formed) \notin
              {"ErrInvalidExchange", "ErrInvalidNotice", "ErrInvalidAuditEvent",
               "ErrNoAuthority", "MintFailed", "Unauthenticated"}
         /\ op \in {"approve", "authorize", "revoke", "installation"}
            /\ Receipt(op, about, did, formed) = "none" => Compared(op, about, did)
<1>1. BadReceipt(op) \in {"ErrInvalidArtifact", "ErrInvalidInstallation",
                          "ErrInvalidCapability", "none"}
  BY DEF BadReceipt
<1>2. op \in {"approve", "authorize", "revoke", "installation"} => BadReceipt(op) # "none"
  BY DEF BadReceipt
<1> QED BY <1>1, <1>2 DEF Receipt, Errors

LEMMA InitType == Init => TypeOK
BY BoundsAssumption DEF Init, TypeOK, Procedures, Errors

LEMMA NextType == TypeOK /\ [Next]_vars => TypeOK'
<1> SUFFICES ASSUME TypeOK, [Next]_vars PROVE TypeOK'
  OBVIOUS
<1>0. /\ authority \in BOOLEAN /\ call \in [Callers -> Calls] /\ outbox \subseteq Keys
      /\ consent \in [Ids -> {"none", "approved", "revoked"}]
      /\ written \in [Keys -> Nat] /\ Phased
      /\ spent \in [calls : 0 .. MaxCalls, faults : 0 .. MaxFaults,
                    crashes : 0 .. MaxCrashes]
  BY TypeParts
<1>1. ASSUME NEW c \in Callers, NEW op \in Procedures, NEW about \in Ids \cup Keys,
             NEW valid \in BOOLEAN, op = "declare" => valid,
             Enter(c, op, about, valid), UNCHANGED authority
      PROVE  call' \in [Callers -> Calls] /\ Phased'
  <2>1. Refused(op, valid) \in Errors /\ (Refused(op, valid) = "none" => authority)
    BY <1>0, <1>1, RefusedType
  <2> DEFINE r == [phase |-> IF Refused(op, valid) = "none" THEN "first" ELSE "returned",
                   op |-> op, about |-> about, did |-> Unexecuted,
                   formed |-> TRUE, err |-> Refused(op, valid)]
  <2>2. call' = [call EXCEPT ![c] = r] BY <1>1 DEF Enter
  <2>3. r \in Calls BY <2>1 DEF Calls
  <2>4. r.phase # "executed" /\ r.did = Unexecuted /\ (r.phase = "first" => authority)
        /\ r.phase # "retry"
    BY <2>1
  <2> HIDE DEF r
  <2> QED BY <1>0, <1>1, <2>2, <2>3, <2>4 DEF Phased
<1>2. ASSUME NEW c \in Callers, NEW err \in Errors, Return(c, err), UNCHANGED authority
      PROVE  call' \in [Callers -> Calls] /\ Phased'
  <2> DEFINE r == [call[c] EXCEPT !.phase = "returned", !.err = err]
  <2>1. call' = [call EXCEPT ![c] = r] BY <1>0, <1>2 DEF Return
  <2>2. r \in Calls /\ r.phase = "returned" BY <1>0 DEF Calls
  <2> HIDE DEF r
  <2> QED BY <1>0, <1>2, <2>1, <2>2 DEF Phased
<1>3. ASSUME NEW c \in Callers, NEW did \in Ids \cup Keys, NEW formed \in BOOLEAN,
             Executed(c, did, formed), InPhase(c, {"first", "retry"}), UNCHANGED authority
      PROVE  call' \in [Callers -> Calls] /\ Phased'
  BY <1>0, <1>3, UnexecutedAssumption DEF Executed, InPhase, Calls, Phased
<1>4. CASE UNCHANGED vars
  <2>1. UNCHANGED <<authority, call, outbox, consent, written, spent>> BY <1>4 DEF vars
  <2>2. Phased' BY <1>0, <2>1 DEF Phased
  <2> QED BY <1>0, <2>1, <2>2, TypePartsNext
<1>5. ASSUME NEW c \in Callers, Begin(c) PROVE TypeOK'
  <2>1. call' \in [Callers -> Calls] /\ Phased' BY <1>1, <1>5 DEF Begin
  <2>2. spent' \in [calls : 0 .. MaxCalls, faults : 0 .. MaxFaults,
                    crashes : 0 .. MaxCrashes]
    BY <1>0, <1>5, SpendType DEF Begin
  <2> QED BY <1>0, <1>5, <2>1, <2>2, TypePartsNext DEF Begin
<1>6. ASSUME NEW c \in Callers, NEW k \in Keys, Emit(c, k) PROVE TypeOK'
  <2>1. call' \in [Callers -> Calls] /\ Phased' BY <1>1, <1>6 DEF Emit, Procedures
  <2> QED BY <1>0, <1>6, <2>1, TypePartsNext DEF Emit
<1>7. ASSUME NEW c \in Callers, MintFails(c) \/ Refuse(c) \/ Lose(c) PROVE TypeOK'
  <2>1. call' \in [Callers -> Calls] /\ Phased'
    BY <1>2, <1>7 DEF MintFails, Refuse, Lose, Errors
  <2>2. spent' \in [calls : 0 .. MaxCalls, faults : 0 .. MaxFaults,
                    crashes : 0 .. MaxCrashes]
    BY <1>0, <1>7, SpendType DEF MintFails, Refuse, Lose
  <2> QED BY <1>0, <1>7, <2>1, <2>2, TypePartsNext DEF MintFails, Refuse, Lose
<1>8. ASSUME NEW c \in Callers, Reject(c) PROVE TypeOK'
  <2>1. call' \in [Callers -> Calls] /\ Phased'
    <3>1. CASE InPhase(c, {"first"})
      BY <1>0, <1>8, <3>1 DEF Reject, InPhase, Calls, Phased
    <3>2. CASE ~InPhase(c, {"first"})
      BY <1>2, <1>8, <3>2 DEF Reject, Errors
    <3> QED BY <3>1, <3>2
  <2>2. spent' \in [calls : 0 .. MaxCalls, faults : 0 .. MaxFaults,
                    crashes : 0 .. MaxCrashes]
    BY <1>0, <1>8, SpendType DEF Reject
  <2> QED BY <1>0, <1>8, <2>1, <2>2, TypePartsNext DEF Reject
<1>9. ASSUME NEW c \in Callers, Execute(c) PROVE TypeOK'
  <2>1. PICK i \in Ids, formed \in BOOLEAN :
          /\ Possible(call[c].op, i)
          /\ consent' = [consent EXCEPT ![i] = Consented(call[c].op, i)]
          /\ Executed(c, i, formed)
          /\ UNCHANGED spent \/ Spend("faults", MaxFaults)
    BY <1>9 DEF Execute
  <2>2. call' \in [Callers -> Calls] /\ Phased' BY <1>3, <1>9, <2>1 DEF Execute
  <2>3. spent' \in [calls : 0 .. MaxCalls, faults : 0 .. MaxFaults,
                    crashes : 0 .. MaxCrashes]
    BY <1>0, <2>1, SpendType
  <2>4. Consented(call[c].op, i) \in {"none", "approved", "revoked"}
    BY <1>0 DEF Consented
  <2> QED BY <1>0, <1>9, <2>1, <2>2, <2>3, <2>4, TypePartsNext DEF Execute
<1>10. ASSUME NEW c \in Callers, WriteEvent(c) PROVE TypeOK'
  <2>1. call' \in [Callers -> Calls] /\ Phased' BY <1>3, <1>10 DEF WriteEvent
  <2>2. written' \in [Keys -> Nat] BY <1>0, <1>10 DEF WriteEvent
  <2> QED BY <1>0, <1>10, <2>1, <2>2, TypePartsNext DEF WriteEvent
<1>11. ASSUME NEW c \in Callers, Answer(c) PROVE TypeOK'
  <2>1. call[c].op \in Procedures /\ call[c].formed \in BOOLEAN BY <1>0 DEF Calls
  <2>2. call' \in [Callers -> Calls] /\ Phased'
    BY <1>2, <1>11, <2>1, ReceiptType DEF Answer
  <2> QED BY <1>0, <1>11, <2>2, TypePartsNext DEF Answer
<1>12. ASSUME NEW c \in Callers, Acknowledge(c) PROVE TypeOK'
  BY <1>0, <1>12, TypePartsNext DEF Acknowledge, Phased
<1>13. CASE Crash
  <2> DEFINE r(c) == [call[c] EXCEPT !.phase = "idle", !.did = Unexecuted, !.err = "none"]
  <2>0. call' = [c \in Callers |-> r(c)] BY <1>13 DEF Crash
  <2>1. call' \in [Callers -> Calls] /\ Phased'
    <3>1. ASSUME NEW c \in Callers PROVE r(c) \in Calls /\ r(c).phase = "idle"
      BY <1>0 DEF Calls, Errors
    <3> HIDE DEF r
    <3> QED BY <2>0, <3>1 DEF Phased
  <2>2. spent' \in [calls : 0 .. MaxCalls, faults : 0 .. MaxFaults,
                    crashes : 0 .. MaxCrashes]
    BY <1>0, <1>13, SpendType DEF Crash
  <2> QED BY <1>0, <1>13, <2>1, <2>2, TypePartsNext DEF Crash
<1> QED BY <1>4, <1>5, <1>6, <1>7, <1>8, <1>9, <1>10, <1>11, <1>12, <1>13 DEF Next

-----------------------------------------------------------------------------
(* Outcomes and events. *)

\* What is on record at the host stays there: a revoked consent, a written event.
LEMMA RecordKept ==
  ASSUME TypeOK, AllSound, [Next]_vars
  PROVE  /\ \A i \in Ids : consent[i] = "revoked" => consent'[i] = "revoked"
         /\ \A k \in Keys : written[k] = 1 => written'[k] = 1
         /\ \A k \in Keys : written[k] <= 1 => written'[k] <= 1
<1> USE TypeParts
<1>1. ASSUME NEW c \in Callers, Execute(c)
      PROVE  /\ \A i \in Ids : consent[i] = "revoked" => consent'[i] = "revoked"
             /\ UNCHANGED written
  BY <1>1 DEF Execute, Possible, Consented
<1>2. ASSUME NEW c \in Callers, WriteEvent(c)
      PROVE  /\ UNCHANGED consent
             /\ \A k \in Keys : written[k] = 1 => written'[k] = 1
             /\ \A k \in Keys : written[k] <= 1 => written'[k] <= 1
  <2>1. Keyed(call[c].op) BY <1>2 DEF WriteEvent, AllSound, Sound, Keyed
  <2>2. written' = [written EXCEPT ![call[c].about] = IF @ > 0 THEN @ ELSE @ + 1]
    BY <1>2, <2>1 DEF WriteEvent
  <2> QED BY <1>2, <2>2 DEF WriteEvent
<1>3. ASSUME NEW c \in Callers,
             \/ Begin(c) \/ MintFails(c) \/ Reject(c) \/ Refuse(c) \/ Lose(c)
             \/ Answer(c) \/ Acknowledge(c) \/ \E k \in Keys : Emit(c, k)
      PROVE  UNCHANGED <<consent, written>>
  BY <1>3 DEF Begin, MintFails, Reject, Refuse, Lose, Answer, Acknowledge, Emit
<1>4. CASE Crash \/ UNCHANGED vars
  BY <1>4 DEF Crash, vars
<1> QED BY <1>1, <1>2, <1>3, <1>4 DEF Next

\* A call that did not move stays sound, since the record is kept.
LEMMA SoundKept ==
  ASSUME NEW r \in Calls, NEW con, NEW wr, NEW con2, NEW wr2, Sound(r, con, wr),
         \A i \in Ids : con[i] = "revoked" => con2[i] = "revoked",
         \A k \in Keys : wr[k] = 1 => wr2[k] = 1,
         r.phase = "executed" => r.did # Unexecuted
  PROVE  Sound(r, con2, wr2)
<1>1. r.about \in Ids \cup Keys BY DEF Calls
<1>2. r.op = "revoke" => r.about \in Ids BY <1>1 DEF Sound
<1>3. r.op = "audit" => r.about \in Keys BY DEF Sound
<1>4. r.phase = "executed" /\ r.op = "revoke" => r.did \in Ids BY DEF Sound
<1> QED BY <1>2, <1>3, <1>4 DEF Sound

\* So it is enough to look at the call that moved.
LEMMA OneMoved ==
  ASSUME TypeOK, AllSound, [Next]_vars, NEW c \in Callers, NEW r,
         call' = [call EXCEPT ![c] = r], Sound(r, consent', written')
  PROVE  AllSound'
<1>1. call \in [Callers -> Calls] /\ Phased BY TypeParts
<1>2. ASSUME NEW d \in Callers, d # c PROVE Sound(call[d], consent', written')
  BY <1>1, <1>2, RecordKept, SoundKept DEF AllSound, Phased
<1> QED BY <1>1, <1>2 DEF AllSound

LEMMA InitInv == Init => IInv
<1> SUFFICES ASSUME Init PROVE IInv
  OBVIOUS
<1>1. EventsWrittenOnce BY DEF Init, EventsWrittenOnce
<1>2. AllSound BY KeysAssumption DEF Init, AllSound, Sound
<1> QED BY <1>1, <1>2, InitType DEF IInv

\* A call that returns with an error other than those of a call never made is sound.
LEMMA ReturnSound ==
  ASSUME TypeOK, AllSound, [Next]_vars, NEW c \in Callers, NEW err, Return(c, err),
         err # "none", UNCHANGED <<consent, written>>,
         \/ InPhase(c, {"first", "retry"}) \/ err = "HostError"
  PROVE  AllSound'
<1>1. call \in [Callers -> Calls] /\ Phased BY TypeParts
<1> DEFINE r == [call[c] EXCEPT !.phase = "returned", !.err = err]
<1>2. call' = [call EXCEPT ![c] = r] BY <1>1 DEF Return
<1>3. /\ r.phase = "returned" /\ r.err = err
      /\ r.op = call[c].op /\ r.about = call[c].about /\ r.did = call[c].did
  BY <1>1 DEF Calls
<1>4. InPhase(c, {"first", "retry"}) => call[c].did = Unexecuted
  BY <1>1 DEF Phased, InPhase
<1> HIDE DEF r
<1>5. Sound(r, consent', written') BY <1>3, <1>4 DEF AllSound, Sound
<1> QED BY <1>2, <1>5, OneMoved

\* A call that is begun is sound: nothing is done yet, and a refusal has an error.
LEMMA EnterSound ==
  ASSUME TypeOK, AllSound, [Next]_vars, NEW c \in Callers, NEW op, NEW about,
         NEW valid, Enter(c, op, about, valid), op = "audit" <=> about \in Keys
  PROVE  AllSound'
<1> DEFINE r == [phase |-> IF Refused(op, valid) = "none" THEN "first" ELSE "returned",
                 op |-> op, about |-> about, did |-> Unexecuted,
                 formed |-> TRUE, err |-> Refused(op, valid)]
<1>1. call' = [call EXCEPT ![c] = r] BY DEF Enter
<1>2. Sound(r, consent', written') BY DEF Sound
<1> HIDE DEF r
<1> QED BY <1>1, <1>2, OneMoved

LEMMA NextSound == IInv /\ [Next]_vars => AllSound'
<1> SUFFICES ASSUME TypeOK, AllSound, EventsWrittenOnce, [Next]_vars PROVE AllSound'
  BY DEF IInv
<1>0. /\ call \in [Callers -> Calls] /\ written \in [Keys -> Nat] /\ Phased
      /\ consent \in [Ids -> {"none", "approved", "revoked"}]
  BY TypeParts
<1>1. ASSUME NEW c \in Callers, Begin(c) PROVE AllSound'
  BY <1>1, EnterSound, KeysAssumption DEF Begin
<1>2. ASSUME NEW c \in Callers, NEW k \in Keys, Emit(c, k) PROVE AllSound'
  BY <1>2, EnterSound DEF Emit
<1>3. ASSUME NEW c \in Callers, MintFails(c) \/ Refuse(c) \/ Lose(c) PROVE AllSound'
  BY <1>3, ReturnSound DEF MintFails, Refuse, Lose
<1>4. ASSUME NEW c \in Callers, Reject(c) PROVE AllSound'
  <2>1. CASE InPhase(c, {"first"})
    <3> DEFINE r == [call[c] EXCEPT !.phase = "retry"]
    <3>1. call' = [call EXCEPT ![c] = r] BY <1>0, <1>4, <2>1 DEF Reject
    <3>2. r.phase = "retry" /\ r.op = call[c].op /\ r.about = call[c].about
          /\ r.did = call[c].did
      BY <1>0 DEF Calls
    <3> HIDE DEF r
    <3>3. Sound(r, consent', written') BY <1>4, <3>2 DEF AllSound, Sound, Reject
    <3> QED BY <3>1, <3>3, OneMoved
  <2>2. CASE ~InPhase(c, {"first"})
    BY <1>4, <2>2, ReturnSound DEF Reject
  <2> QED BY <2>1, <2>2
<1>5. ASSUME NEW c \in Callers, Execute(c) PROVE AllSound'
  <2>1. PICK i \in Ids, formed \in BOOLEAN :
          /\ consent' = [consent EXCEPT ![i] = Consented(call[c].op, i)]
          /\ Executed(c, i, formed)
    BY <1>5 DEF Execute
  <2> DEFINE r == [call[c] EXCEPT !.phase = "executed", !.did = i, !.formed = formed]
  <2>2. call' = [call EXCEPT ![c] = r] BY <1>0, <2>1 DEF Executed
  <2>3. r.phase = "executed" /\ r.op = call[c].op /\ r.about = call[c].about /\ r.did = i
    BY <1>0 DEF Calls
  <2>4. call[c].op # "audit"
    BY <1>5, KeysAssumption DEF Execute, AllSound, Sound
  <2>5. call[c].op = "revoke" => consent'[i] = "revoked"
    BY <1>0, <2>1 DEF Consented
  <2> HIDE DEF r
  <2>6. Sound(r, consent', written') BY <2>3, <2>4, <2>5 DEF AllSound, Sound
  <2> QED BY <2>2, <2>6, OneMoved
<1>6. ASSUME NEW c \in Callers, WriteEvent(c) PROVE AllSound'
  <2> DEFINE k == call[c].about
             r == [call[c] EXCEPT !.phase = "executed", !.did = k, !.formed = TRUE]
  <2>1. call' = [call EXCEPT ![c] = r] BY <1>0, <1>6 DEF WriteEvent, Executed
  <2>2. r.phase = "executed" /\ r.op = call[c].op /\ r.about = k BY <1>0 DEF Calls
  <2>3. k \in Keys /\ call[c].op = "audit" BY <1>6 DEF WriteEvent, AllSound, Sound
  <2>4. Keyed(call[c].op) BY <2>3 DEF Keyed
  <2>5. written' = [written EXCEPT ![k] = IF @ > 0 THEN @ ELSE @ + 1]
    BY <1>6, <2>4 DEF WriteEvent
  <2>6. written[k] \in Nat /\ written[k] <= 1 BY <1>0, <2>3 DEF EventsWrittenOnce
  <2>7. written'[k] = 1 BY <1>0, <2>3, <2>5, <2>6
  <2> HIDE DEF r, k
  <2>8. Sound(r, consent', written') BY <2>2, <2>3, <2>7 DEF Sound
  <2> QED BY <2>1, <2>8, OneMoved
<1>7. ASSUME NEW c \in Callers, Answer(c) PROVE AllSound'
  <2> DEFINE err == Receipt(call[c].op, call[c].about, call[c].did, call[c].formed)
             r == [call[c] EXCEPT !.phase = "returned", !.err = err]
  <2>1. call' = [call EXCEPT ![c] = r] BY <1>0, <1>7 DEF Answer, Return
  <2>2. /\ r.phase = "returned" /\ r.err = err
        /\ r.op = call[c].op /\ r.about = call[c].about /\ r.did = call[c].did
        /\ call[c].op \in Procedures /\ call[c].formed \in BOOLEAN
    BY <1>0 DEF Calls
  <2>3. /\ err \notin {"ErrInvalidExchange", "ErrInvalidNotice", "ErrInvalidAuditEvent",
                       "ErrNoAuthority", "MintFailed", "Unauthenticated"}
        /\ call[c].op \in {"approve", "authorize", "revoke", "installation"}
           /\ err = "none" => Compared(call[c].op, call[c].about, call[c].did)
    BY <2>2, ReceiptType
  <2>4. call[c].phase = "executed" /\ call[c].did # Unexecuted
    BY <1>0, <1>7 DEF Answer, InPhase, Phased
  <2> HIDE DEF r, err
  <2>5. Sound(r, consent', written')
    BY <1>7, <2>2, <2>3, <2>4 DEF Answer, AllSound, Sound, Compared
  <2> QED BY <2>1, <2>5, OneMoved
<1>8. CASE UNCHANGED <<call, consent, written>>
  BY <1>8 DEF AllSound
<1>9. CASE Crash
  <2>1. ASSUME NEW c \in Callers PROVE Sound(call'[c], consent', written')
    <3> DEFINE r == [call[c] EXCEPT !.phase = "idle", !.did = Unexecuted, !.err = "none"]
    <3>1. call'[c] = r BY <1>9 DEF Crash
    <3>2. r.phase = "idle" /\ r.op = call[c].op /\ r.about = call[c].about
          /\ r.did = Unexecuted
      BY <1>0 DEF Calls
    <3> HIDE DEF r
    <3> QED BY <3>1, <3>2 DEF AllSound, Sound
  <2> QED BY <2>1 DEF AllSound
<1>10. (\E c \in Callers : Acknowledge(c)) \/ UNCHANGED vars
       => UNCHANGED <<call, consent, written>>
  BY DEF Acknowledge, vars
<1> QED BY <1>1, <1>2, <1>3, <1>4, <1>5, <1>6, <1>7, <1>8, <1>9, <1>10 DEF Next

\* Only an event whose answer was accepted leaves the outbox.
LEMMA NextEvents == IInv /\ [Next]_vars => EventsWrittenOnce'
<1> SUFFICES ASSUME TypeOK, AllSound, EventsWrittenOnce, [Next]_vars,
                    NEW k \in Keys
             PROVE  written'[k] <= 1 /\ (k \notin outbox' => written'[k] = 1)
  BY DEF IInv, EventsWrittenOnce
<1>1. /\ written[k] <= 1 => written'[k] <= 1
      /\ written[k] = 1 => written'[k] = 1
  BY RecordKept
<1>2. ASSUME k \in outbox, k \notin outbox' PROVE written[k] = 1
  <2>1. PICK c \in Callers : Acknowledge(c)
    BY <1>2 DEF Next, vars, Begin, MintFails, Reject, Refuse, Execute, WriteEvent,
                Lose, Answer, Emit, Crash
  <2>2. call[c].about = k BY <1>2, <2>1 DEF Acknowledge
  <2> QED BY <2>1, <2>2 DEF Acknowledge, InPhase, AllSound, Sound
<1> QED BY <1>1, <1>2 DEF EventsWrittenOnce

LEMMA Invariant == Spec => []IInv
<1>1. IInv /\ [Next]_vars => IInv' BY NextType, NextSound, NextEvents DEF IInv
<1> QED BY InitInv, <1>1, PTL DEF Spec

\* The variables of the facades keep their types, and a call is under way only where
\* there is an authority endpoint.
THEOREM TypeCorrect == Spec => []TypeOK
<1>1. IInv => TypeOK BY DEF IInv
<1> QED BY Invariant, <1>1, PTL

\* Whatever the number of goroutines, rejections, wrong or lost answers and crashes,
\* a facade's outcome is so: a success was done as far as its receipt tells, and the
\* errors documented as precedent to any call mean that nothing was done.
THEOREM OutcomeIsTrueHolds == Spec => []OutcomeIsTrue
<1>1. IInv => OutcomeIsTrue BY DEF IInv, AllSound, Sound, OutcomeIsTrue, Succeeded, InPhase
<1> QED BY Invariant, <1>1, PTL

\* Whatever the number of relaying goroutines, lost answers and crashes, an event
\* emitted with its persisted key is written at most once, and has been when the relay
\* forgets it.
THEOREM EventsWrittenOnceHolds == Spec => []EventsWrittenOnce
<1>1. IInv => EventsWrittenOnce BY DEF IInv
<1> QED BY Invariant, <1>1, PTL
=============================================================================
