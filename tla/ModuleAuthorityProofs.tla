------------------------ MODULE ModuleAuthorityProofs ------------------------
(***************************************************************************)
(* Proofs about ModuleAuthority, for any set of callers, any skew, any     *)
(* lifetimes and any bounds: its properties, then that it implements       *)
(* CapabilityCell.                                                         *)
(***************************************************************************)
EXTENDS ModuleAuthority, TLAPS

Critical(c) ==
  \/ pc[c] \in {"forget", "check"}
  \/ pc[c] \in {"read", "wait"} /\ Locking(c)

\* The mutex is held by exactly the caller inside the critical section.
LockOwner == \A c \in Callers : Critical(c) <=> mu = c

\* Which operations reach which steps, and what is reset when they return.
Phases ==
  \A c \in Callers :
    /\ pc[c] \in {"lock", "forget", "check"} => Locking(c)
    /\ pc[c] = "call" => op[c] = "call"
    /\ rejected[c] # NoToken => pc[c] # "idle" /\ op[c] = "call"
    /\ answer[c] # NoToken => pc[c] = "wait"

\* A mint under the mutex is made for want of a usable capability.
Needed ==
  \A c \in Callers :
    pc[c] \in {"read", "wait"} /\ Locking(c) => ~Usable(cached)

\* Every capability in sight has been issued.
Numbered ==
  /\ cached.id <= issued
  /\ \A c \in Callers :
       module[c].id <= issued /\ rejected[c].id <= issued /\ answer[c].id <= issued

\* What was handed out under the mutex came from the cache, so nothing newer
\* than the cached capability was.
Newest ==
  cached # NoToken =>
    \A c \in Callers :
      Locking(c) =>
        /\ module[c] = cached \/ module[c].id < cached.id
        /\ rejected[c] = cached \/ rejected[c].id < cached.id

\* And the answer to a mint under the mutex is newer than all of them.
AnswerNewest ==
  \A c \in Callers :
    Locking(c) /\ answer[c] # NoToken =>
      /\ cached.id < answer[c].id
      /\ \A d \in Callers :
           Locking(d) => /\ module[d].id < answer[c].id
                         /\ rejected[d].id < answer[c].id

\* Once its refresh has forgotten, a caller sees only newer capabilities.
Retrying ==
  \A c \in Callers :
    rejected[c] # NoToken /\ cached # NoToken /\ pc[c] \in {"check", "read", "wait"}
      => rejected[c].id < cached.id

\* The host stays with its rejection.
RejectedDead ==
  \A c \in Callers :
    rejected[c] # NoToken =>
      rejected[c].id <= revoked \/ rejected[c].exp <= now

IInv ==
  /\ TypeOK /\ LockOwner /\ Phases /\ Needed /\ Numbered
  /\ Newest /\ AnswerNewest /\ Retrying /\ RejectedDead
  /\ RetryIsNewer /\ CallOutcome

-----------------------------------------------------------------------------
(* Types. *)

\* A capability in hand has a number and an expiry; only the missing one is
\* numbered 0.
LEMMA TokenFields ==
  ASSUME NEW t \in Tokens
  PROVE  t.id \in Nat /\ t.exp \in Nat /\ (t # NoToken => t.id > 0)
BY DEF Tokens, NoToken

LEMMA TypeInit == Init => TypeOK
BY DEF Init, TypeOK, Tokens, NoToken, Control, Operations, Results

LEMMA TypeNext == TypeOK /\ [Next]_vars => TypeOK'
<1> SUFFICES ASSUME TypeOK, [Next]_vars PROVE TypeOK'
  OBVIOUS
<1> USE SkewAssumption, LifetimesAssumption, BoundsAssumption, NobodyAssumption
    DEF TypeOK, Control, Operations, Results
<1>1. NoToken \in Tokens
  BY DEF Tokens, NoToken
<1>2. ASSUME NEW c \in Callers, NEW o \in Operations, Start(c, o) PROVE TypeOK'
  BY <1>1, <1>2 DEF Start, Return, Goto, shared, external
<1>3. ASSUME NEW c \in Callers, Lock(c) PROVE TypeOK'
  BY <1>3 DEF Lock, Goto, external
<1>4. ASSUME NEW c \in Callers, Forget(c) PROVE TypeOK'
  BY <1>1, <1>4 DEF Forget, Goto, external
<1>5. ASSUME NEW c \in Callers, ServeCached(c) PROVE TypeOK'
  BY <1>1, <1>5 DEF ServeCached, HandOut, Return, Goto, external
<1>6. ASSUME NEW c \in Callers, Refresh(c) PROVE TypeOK'
  BY <1>6 DEF Refresh, Goto, shared, external
<1>7. ASSUME NEW c \in Callers, ReadProjection(c) PROVE TypeOK'
  BY <1>1, <1>7 DEF ReadProjection, Drop, Return, Goto, Unlock, external
<1>8. ASSUME NEW c \in Callers, MintFails(c) PROVE TypeOK'
  BY <1>1, <1>8 DEF MintFails, Drop, Return, Goto, Unlock, external
<1>9. ASSUME NEW c \in Callers, MintReturns(c) PROVE TypeOK'
  BY <1>1, <1>9 DEF MintReturns, HandOut, Drop, Return, Goto, Unlock, external
<1>10. ASSUME NEW c \in Callers, CallStep(c) PROVE TypeOK'
  BY <1>1, <1>10
  DEF CallStep, HostExecutes, HostRefuses, HostRejects, Drop, Return, Goto, shared, external
<1>11. ASSUME NEW c \in Callers, BrokerIssues(c) PROVE TypeOK'
  BY <1>11 DEF BrokerIssues, Tokens, shared
<1>12. CASE Tick
  BY <1>12 DEF Tick, shared, local
<1>13. CASE Revoke
  BY <1>13 DEF Revoke, shared, local
<1>14. CASE UNCHANGED vars
  BY <1>14 DEF vars, shared, local, external
<1> QED
  BY <1>2, <1>3, <1>4, <1>5, <1>6, <1>7, <1>8, <1>9, <1>10, <1>11, <1>12, <1>13, <1>14
  DEF Next, CallerStep

\* Every variable of the Client and of its callers keeps its type.
THEOREM TypeCorrect == Spec => []TypeOK
BY TypeInit, TypeNext, PTL DEF Spec

-----------------------------------------------------------------------------
(* The inductive invariant. *)

Rest == /\ LockOwner /\ Phases /\ Needed /\ Numbered /\ Newest /\ AnswerNewest
        /\ Retrying /\ RejectedDead /\ RetryIsNewer /\ CallOutcome

LEMMA InitIInv == Init => IInv
BY TypeInit, NobodyAssumption
DEF Init, IInv, LockOwner, Critical, Locking, Phases, Needed, Usable, Numbered, Newest,
    AnswerNewest, Retrying, RejectedDead, RetryIsNewer, CallOutcome, NoToken

LEMMA NextIInv == IInv /\ [Next]_vars => IInv'
<1> SUFFICES ASSUME IInv, [Next]_vars PROVE IInv'
  OBVIOUS
<1> USE SkewAssumption, LifetimesAssumption, BoundsAssumption, NobodyAssumption
<1>t. TypeOK /\ TypeOK'
  BY TypeNext DEF IInv
<1>f. /\ \A t \in Tokens : t.id \in Nat /\ t.exp \in Nat /\ (t # NoToken => t.id > 0)
      /\ NoToken \in Tokens /\ NoToken.id = 0 /\ NoToken.exp = 0
  BY TokenFields DEF Tokens, NoToken
<1> USE <1>t, <1>f
<1> USE DEF IInv, TypeOK, LockOwner, Critical, Locking, Phases, Needed, Usable, Numbered, Newest,
    AnswerNewest, Retrying, RejectedDead, RetryIsNewer, CallOutcome
<1>2. ASSUME NEW c \in Callers, NEW o \in Operations, Start(c, o) PROVE Rest'
  BY <1>2 DEF Rest, Start, Return, Goto, shared, external
<1>3. ASSUME NEW c \in Callers, Lock(c) PROVE Rest'
  BY <1>3 DEF Rest, Lock, Goto, external
<1>4. ASSUME NEW c \in Callers, Forget(c) PROVE Rest'
  BY <1>4 DEF Rest, Forget, Goto, external
<1>5. ASSUME NEW c \in Callers, ServeCached(c) PROVE Rest'
  BY <1>5 DEF Rest, ServeCached, HandOut, Return, Goto, external
<1>6. ASSUME NEW c \in Callers, Refresh(c) PROVE Rest'
  BY <1>6 DEF Rest, Refresh, Goto, shared, external
<1>7. ASSUME NEW c \in Callers, ReadProjection(c) PROVE Rest'
  <2>1. LockOwner'
    BY <1>7 DEF ReadProjection, Drop, Return, Goto, Unlock, external
  <2>2. Phases'
    BY <1>7 DEF ReadProjection, Drop, Return, Goto, Unlock, external
  <2>3. Needed'
    BY <1>7 DEF ReadProjection, Drop, Return, Goto, Unlock, external
  <2>4. Numbered'
    BY <1>7 DEF ReadProjection, Drop, Return, Goto, Unlock, external
  <2>5. Newest'
    BY <1>7 DEF ReadProjection, Drop, Return, Goto, Unlock, external
  <2>6. AnswerNewest'
    BY <1>7 DEF ReadProjection, Drop, Return, Goto, Unlock, external
  <2>7. Retrying'
    BY <1>7 DEF ReadProjection, Drop, Return, Goto, Unlock, external
  <2>8. RejectedDead'
    BY <1>7 DEF ReadProjection, Drop, Return, Goto, Unlock, external
  <2>9. RetryIsNewer'
    BY <1>7 DEF ReadProjection, Drop, Return, Goto, Unlock, external
  <2>10. CallOutcome'
    BY <1>7 DEF ReadProjection, Drop, Return, Goto, Unlock, external
  <2> QED
    BY <2>1, <2>2, <2>3, <2>4, <2>5, <2>6, <2>7, <2>8, <2>9, <2>10 DEF Rest
<1>8. ASSUME NEW c \in Callers, MintFails(c) PROVE Rest'
  BY <1>8 DEF Rest, MintFails, Drop, Return, Goto, Unlock, external
<1>9. ASSUME NEW c \in Callers, MintReturns(c) PROVE Rest'
  <2>1. LockOwner'
    BY <1>9 DEF MintReturns, HandOut, Drop, Return, Goto, Unlock, Unexpired, external
  <2>2. Phases'
    BY <1>9 DEF MintReturns, HandOut, Drop, Return, Goto, Unlock, Unexpired, external
  <2>3. Needed'
    BY <1>9 DEF MintReturns, HandOut, Drop, Return, Goto, Unlock, Unexpired, external
  <2>4. Numbered'
    BY <1>9 DEF MintReturns, HandOut, Drop, Return, Goto, Unlock, Unexpired, external
  <2>5. Newest'
    BY <1>9 DEF MintReturns, HandOut, Drop, Return, Goto, Unlock, Unexpired, external
  <2>6. AnswerNewest'
    <3>1. /\ op' = op /\ answer' = [answer EXCEPT ![c] = NoToken]
          /\ ~Locking(c) => cached' = cached
          /\ \A d \in Callers : Locking(d) /\ (Locking(c) => d # c) =>
               module'[d] = module[d] /\ rejected'[d] = rejected[d]
      BY <1>9 DEF MintReturns, HandOut, Drop, Return, Goto, Unlock
    <3>2. ASSUME NEW d \in Callers, Locking(d), answer'[d] # NoToken PROVE ~Locking(c)
      \* d waits under the mutex, which c would hold.
      BY <1>9, <3>1, <3>2 DEF MintReturns
    <3> QED
      BY <3>1, <3>2
  <2>7. Retrying'
    BY <1>9 DEF MintReturns, HandOut, Drop, Return, Goto, Unlock, Unexpired, external
  <2>8. RejectedDead'
    BY <1>9 DEF MintReturns, HandOut, Drop, Return, Goto, Unlock, Unexpired, external
  <2>9. RetryIsNewer'
    BY <1>9 DEF MintReturns, HandOut, Drop, Return, Goto, Unlock, Unexpired, external
  <2>10. CallOutcome'
    BY <1>9 DEF MintReturns, HandOut, Drop, Return, Goto, Unlock, Unexpired, external
  <2> QED
    BY <2>1, <2>2, <2>3, <2>4, <2>5, <2>6, <2>7, <2>8, <2>9, <2>10 DEF Rest
<1>10. ASSUME NEW c \in Callers, CallStep(c) PROVE Rest'
  <2>1. CASE HostExecutes(c)
    BY <2>1 DEF Rest, HostExecutes, Drop, Return, Goto, shared, external
  <2>2. CASE HostRefuses(c)
    BY <2>2 DEF Rest, HostRefuses, Drop, Return, Goto, shared, external
  <2>3. CASE HostRejects(c)
    <3>0. /\ op' = op /\ answer' = answer /\ cached' = cached /\ issued' = issued
          /\ \A d \in Callers :
               /\ module'[d] = module[d] \/ module'[d] = NoToken
               /\ \/ rejected'[d] = rejected[d] \/ rejected'[d] = module[d]
                  \/ rejected'[d] = NoToken
      BY <2>3 DEF HostRejects, Drop, Return, Goto, shared, external
    <3>1. LockOwner'
      BY <2>3 DEF HostRejects, Honoured, Drop, Return, Goto, shared, external
    <3>2. Phases'
      BY <2>3 DEF HostRejects, Honoured, Drop, Return, Goto, shared, external
    <3>3. Needed'
      BY <2>3 DEF HostRejects, Honoured, Drop, Return, Goto, shared, external
    <3>4. Numbered'
      <4> SUFFICES ASSUME NEW d \in Callers
                   PROVE  module'[d].id <= issued /\ rejected'[d].id <= issued
        BY <3>0
      <4>0. module[d].id <= issued /\ rejected[d].id <= issued /\ NoToken.id <= issued
        OBVIOUS
      <4>1. module'[d].id <= issued
        BY <3>0, <4>0
      <4>2. rejected'[d].id <= issued
        BY <3>0, <4>0
      <4> QED
        BY <4>1, <4>2
    <3>5. Newest'
      <4> SUFFICES ASSUME NEW d \in Callers, Locking(d), cached # NoToken
                   PROVE  /\ module'[d] = cached \/ module'[d].id < cached.id
                          /\ rejected'[d] = cached \/ rejected'[d].id < cached.id
        BY <3>0
      <4>0. /\ module[d] = cached \/ module[d].id < cached.id
            /\ rejected[d] = cached \/ rejected[d].id < cached.id
            /\ NoToken.id < cached.id
        OBVIOUS
      <4>1. module'[d] = cached \/ module'[d].id < cached.id
        BY <3>0, <4>0
      <4>2. rejected'[d] = cached \/ rejected'[d].id < cached.id
        BY <3>0, <4>0
      <4> QED
        BY <4>1, <4>2
    <3>6. AnswerNewest'
      <4> SUFFICES ASSUME NEW a \in Callers, Locking(a), answer[a] # NoToken,
                          NEW d \in Callers, Locking(d)
                   PROVE  /\ module'[d].id < answer[a].id
                          /\ rejected'[d].id < answer[a].id
        BY <3>0
      <4>0. /\ module[d].id < answer[a].id /\ rejected[d].id < answer[a].id
            /\ NoToken.id < answer[a].id
        OBVIOUS
      <4>1. module'[d].id < answer[a].id
        BY <3>0, <4>0
      <4>2. rejected'[d].id < answer[a].id
        BY <3>0, <4>0
      <4> QED
        BY <4>1, <4>2
    <3>7. Retrying'
      BY <2>3 DEF HostRejects, Honoured, Drop, Return, Goto, shared, external
    <3>8. RejectedDead'
      BY <2>3 DEF HostRejects, Honoured, Drop, Return, Goto, shared, external
    <3>9. RetryIsNewer'
      BY <2>3 DEF HostRejects, Honoured, Drop, Return, Goto, shared, external
    <3>10. CallOutcome'
      BY <2>3 DEF HostRejects, Honoured, Drop, Return, Goto, shared, external
    <3> QED
      BY <3>1, <3>2, <3>3, <3>4, <3>5, <3>6, <3>7, <3>8, <3>9, <3>10 DEF Rest
  <2> QED
    BY <1>10, <2>1, <2>2, <2>3 DEF CallStep
<1>11. ASSUME NEW c \in Callers, BrokerIssues(c) PROVE Rest'
  BY <1>11 DEF Rest, BrokerIssues, shared
<1>12. CASE Tick
  BY <1>12 DEF Rest, Tick, shared, local
<1>13. CASE Revoke
  BY <1>13 DEF Rest, Revoke, shared, local
<1>14. CASE UNCHANGED vars
  BY <1>14 DEF Rest, vars, shared, local, external
<1> QED
  BY <1>2, <1>3, <1>4, <1>5, <1>6, <1>7, <1>8, <1>9, <1>10, <1>11, <1>12, <1>13, <1>14
  DEF Next, CallerStep, Rest

-----------------------------------------------------------------------------
(* What follows from it. *)

LEMMA Invariance == Spec => []IInv
BY InitIInv, NextIInv, PTL DEF Spec

\* Concurrent callers share one refresh.
THEOREM OneRefreshHolds == Spec => []OneRefresh
<1>1. IInv => OneRefresh
  BY DEF IInv, OneRefresh, LockOwner, Critical, Needed
<1> QED
  BY <1>1, Invariance, PTL

\* A retry never carries the rejected capability, nor an older one.
THEOREM RetryIsNewerHolds == Spec => []RetryIsNewer
<1>1. IInv => RetryIsNewer
  BY DEF IInv
<1> QED
  BY <1>1, Invariance, PTL

\* A procedure is executed at most once over both attempts, and the outcome
\* reported says so.
THEOREM CallOutcomeHolds == Spec => []CallOutcome
<1>1. IInv => CallOutcome
  BY DEF IInv
<1> QED
  BY <1>1, Invariance, PTL

\* Only two steps write the cache: Forget, on what the host rejected, and the
\* refresh, made for want of a usable capability.
THEOREM DroppedIsDeadHolds == Spec => DroppedIsDead
<1> DEFINE A == cached # NoToken /\ cached' # cached =>
                  cached.id <= revoked \/ cached.exp <= now + Skew
<1>1. IInv /\ [Next]_vars => [A]_vars
  <2> SUFFICES ASSUME IInv, Next, cached # NoToken, cached' # cached
               PROVE  cached.id <= revoked \/ cached.exp <= now + Skew
    BY DEF vars, shared
  <2> USE SkewAssumption DEF IInv, TypeOK
  <2>1. PICK c \in Callers : Forget(c) \/ MintReturns(c)
    BY DEF Next, CallerStep, CallStep, Start, Lock, ServeCached, Refresh, ReadProjection,
       MintFails, HostExecutes, HostRefuses, HostRejects, BrokerIssues, Tick, Revoke, shared
  <2>2. cached.exp \in Nat /\ (rejected[c] # NoToken => rejected[c].exp \in Nat)
    BY TokenFields
  <2>3. CASE Forget(c)
    BY <2>2, <2>3 DEF Forget, RejectedDead
  <2>4. CASE MintReturns(c)
    BY <2>2, <2>4 DEF MintReturns, Needed, Usable
  <2> QED
    BY <2>1, <2>3, <2>4
<1> QED
  BY <1>1, Invariance, PTL DEF Spec, DroppedIsDead

\* Only ServeCached and MintReturns hand a capability out.
THEOREM HandedOutLiveHolds == Spec => HandedOutLive
<1> DEFINE A == \A c \in Callers :
                  module'[c] # module[c] /\ module'[c] # NoToken =>
                    \/ module'[c].exp > now + Skew
                    \/ module'[c] = answer[c] /\ module'[c].exp > now
<1>1. TypeOK /\ [Next]_vars => [A]_vars
  <2> SUFFICES ASSUME TypeOK, Next,
                      NEW c \in Callers, module'[c] # module[c], module'[c] # NoToken
               PROVE  \/ module'[c].exp > now + Skew
                      \/ module'[c] = answer[c] /\ module'[c].exp > now
    BY DEF vars, local
  <2> USE SkewAssumption DEF TypeOK
  <2>1. PICK d \in Callers : ServeCached(d) \/ MintReturns(d)
    BY DEF Next, CallerStep, CallStep, Start, Lock, Forget, Refresh, ReadProjection,
       MintFails, HostExecutes, HostRefuses, HostRejects, BrokerIssues, Tick, Revoke,
       Drop, Return, Goto, shared, local
  <2>2. c = d
    BY <2>1 DEF ServeCached, MintReturns, HandOut, Drop
  <2>3. CASE ServeCached(d)
    BY <2>2, <2>3, TokenFields DEF ServeCached, HandOut, Usable
  <2>4. CASE MintReturns(d)
    BY <2>2, <2>4, TokenFields DEF MintReturns, HandOut, Drop, Unexpired
  <2> QED
    BY <2>1, <2>3, <2>4
<1> QED
  BY <1>1, TypeCorrect, PTL DEF Spec, HandedOutLive

-----------------------------------------------------------------------------
(* ModuleAuthority implements CapabilityCell: every step of the mutex, the    *)
(* cache and the exchanges in flight is a step of the cell or stutters.       *)

\* A caller that is about to call the host has a capability to call it with.
InHand == \A c \in Callers : pc[c] = "call" => module[c] # NoToken

LEMMA InHandNext == TypeOK /\ InHand /\ [Next]_vars => InHand'
<1> SUFFICES ASSUME TypeOK, InHand, [Next]_vars,
                    NEW d \in Callers, pc'[d] = "call"
             PROVE  module'[d] # NoToken
  BY DEF InHand
<1> USE DEF TypeOK
<1>1. CASE pc[d] = "call" /\ module'[d] = module[d]
  BY <1>1 DEF InHand
<1>2. ASSUME pc[d] # "call" \/ module'[d] # module[d] PROVE module'[d] # NoToken
  <2>1. PICK c \in Callers : ServeCached(c) \/ MintReturns(c)
    BY <1>2
    DEF Next, CallerStep, CallStep, Start, Lock, Forget, Refresh, ReadProjection, MintFails,
        HostExecutes, HostRefuses, HostRejects, BrokerIssues, Tick, Revoke, Drop, Return,
        Goto, vars, shared, local
  <2>2. c = d
    BY <1>2, <2>1 DEF ServeCached, MintReturns, HandOut, Drop, Return, Goto
  <2>3. CASE ServeCached(c)
    BY <2>2, <2>3 DEF ServeCached, HandOut, Return, Goto, Usable
  <2>4. CASE MintReturns(c)
    BY <2>2, <2>4 DEF MintReturns, HandOut, Drop, Return, Goto
  <2> QED
    BY <2>1, <2>3, <2>4
<1> QED
  BY <1>1, <1>2

LEMMA InHandAlways == Spec => []InHand
<1>1. Init => InHand
  BY DEF Init, InHand
<1> QED
  BY <1>1, InHandNext, TypeCorrect, PTL DEF Spec

-----------------------------------------------------------------------------
(* The refinement mapping is that of Cell: the cached capability is the cell, *)
(* and what a caller was rejected with and ran are its own. What it was       *)
(* handed it has in hand when it has returned or is about to call.            *)

LEMMA InitCell == Init => Cell!Init
BY DEF Init, Hands, Cell!Init

\* One caller is handed a capability, or its own is taken away.
LEMMA HandsMoved ==
  ASSUME TypeOK, NEW c \in Callers, NEW l \in Control, Goto(c, l), NEW t \in Tokens,
         module' = [module EXCEPT ![c] = t]
  PROVE  Hands' = [Hands EXCEPT ![c] = IF l \in {"idle", "call"} THEN t ELSE NoToken]
BY DEF TypeOK, Goto, Hands

LEMMA HandsEmptied ==
  ASSUME TypeOK, NEW c \in Callers, NEW l \in Control \ {"idle", "call"}, Goto(c, l),
         module' = module
  PROVE  Hands' = [Hands EXCEPT ![c] = NoToken]
BY DEF TypeOK, Goto, Hands

\* What a caller does between two calls leaves its hand empty.
LEMMA HandsStay ==
  ASSUME TypeOK, NEW c \in Callers, pc[c] \notin {"idle", "call"},
         NEW l \in Control \ {"idle", "call"}, Goto(c, l), module' = module
  PROVE  Hands' = Hands
BY DEF TypeOK, Goto, Hands

LEMMA HandsSame == ASSUME pc' = pc, module' = module PROVE Hands' = Hands
BY DEF Hands

LEMMA HandsDropped ==
  ASSUME TypeOK, NEW c \in Callers, NEW r, Drop(c, r)
  PROVE  Cell!Hand(c, NoToken)
<1>1. Goto(c, "idle") /\ module' = [module EXCEPT ![c] = NoToken]
  BY DEF Drop, Return
<1>2. "idle" \in Control /\ NoToken \in Tokens BY DEF Control, Tokens
<1>3. Hands' = [Hands EXCEPT ![c] = NoToken] BY <1>1, <1>2, HandsMoved
<1> QED BY <1>3 DEF Cell!Hand

LEMMA HandsHandedOut ==
  ASSUME TypeOK, NEW c \in Callers, NEW t \in Tokens, HandOut(c, t)
  PROVE  Cell!Hand(c, t)
<1>1. PICK l \in {"idle", "call"} : Goto(c, l) /\ module' = [module EXCEPT ![c] = t]
  BY DEF HandOut, Return
<1>2. l \in Control BY DEF Control
<1>3. Hands' = [Hands EXCEPT ![c] = t] BY <1>1, <1>2, HandsMoved
<1> QED BY <1>3 DEF Cell!Hand

\* An operation that ends without a capability ran nothing before it did.
LEMMA DropGivesUp ==
  ASSUME TypeOK, NEW c \in Callers, CallOutcome, pc[c] # "idle",
         NEW r, Drop(c, r), UNCHANGED <<executed, cached, external>>
  PROVE  Cell!GiveUp(c)
<1>1. Cell!Hand(c, NoToken) BY HandsDropped
<1> QED BY <1>1 DEF CallOutcome, Drop, Return, external, Cell!GiveUp, Cell!Spend

LEMMA NextCell == IInv /\ InHand /\ [Next]_vars => [Cell!Next]_(Cell!vars)
<1> SUFFICES ASSUME IInv, InHand, [Next]_vars PROVE [Cell!Next]_(Cell!vars)
  OBVIOUS
<1> USE SkewAssumption, LifetimesAssumption, BoundsAssumption
<1>t. TypeOK
  BY DEF IInv
<1>f. /\ \A t \in Tokens : t.id \in Nat /\ t.exp \in Nat /\ (t # NoToken => t.id > 0)
      /\ NoToken.id = 0 /\ NoToken \in Tokens
  BY TokenFields DEF NoToken, Tokens
<1>2. ASSUME NEW c \in Callers, NEW o \in Operations, Start(c, o) PROVE Cell!Begin(c)
  <2>1. module' = [module EXCEPT ![c] = NoToken]
        /\ \E l \in {"idle", "read", "lock"} : Goto(c, l)
    BY <1>2 DEF Start, Return
  <2>2. Cell!Hand(c, NoToken)
    BY <2>1, <1>t, <1>f, HandsMoved DEF Control, Cell!Hand
  <2>3. rejected[c] = NoToken /\ rejected' = rejected
    BY <1>2, <1>t DEF IInv, Phases, TypeOK, Start, Return
  <2> QED
    BY <1>2, <2>2, <2>3 DEF Start, shared, external, Cell!Begin
<1>3. ASSUME NEW c \in Callers, Lock(c) \/ Refresh(c) PROVE UNCHANGED Cell!vars
  <2>1. pc[c] \in {"lock", "check"} /\ module' = module
        /\ \E l \in {"forget", "check", "read"} : Goto(c, l)
    BY <1>3 DEF Lock, Refresh
  <2>2. Hands' = Hands BY <2>1, <1>t, HandsStay DEF Control
  <2> QED
    BY <1>3, <2>2 DEF Lock, Refresh, shared, external, Cell!vars
<1>4. ASSUME NEW c \in Callers, Forget(c) PROVE Cell!Empty(c) \/ UNCHANGED Cell!vars
  <2>0. Hands' = Hands
    BY <1>4, <1>t, HandsStay DEF Forget, Control
  <2>1. CASE cached # NoToken /\ cached = rejected[c]
    <3>1. ~Cell!Honoured(cached)
      BY <2>1, <1>t, <1>f DEF IInv, RejectedDead, TypeOK, Cell!Honoured
    <3> QED
      BY <2>0, <2>1, <3>1, <1>4 DEF Forget, external, Cell!Empty
  <2>2. CASE ~(cached # NoToken /\ cached = rejected[c])
    BY <2>0, <2>2, <1>4 DEF Forget, external, Cell!vars
  <2> QED
    BY <2>1, <2>2
<1>5. ASSUME NEW c \in Callers, ServeCached(c) PROVE Cell!Serve(c)
  <2>1. Usable(cached) /\ Cell!Usable(cached)
    BY <1>5 DEF ServeCached, Usable, Cell!Usable
  <2>2. cached.id > rejected[c].id
    BY <1>5, <2>1, <1>t, <1>f DEF ServeCached, Usable, IInv, Retrying, TypeOK
  <2>3. rejected' = rejected
    BY <1>5, <1>t DEF ServeCached, HandOut, Return, IInv, Phases, TypeOK
  <2>4. Cell!Hand(c, cached)
    BY <1>5, <1>t, HandsHandedOut DEF ServeCached, TypeOK
  <2> QED
    BY <1>5, <2>1, <2>2, <2>3, <2>4 DEF ServeCached, external, Cell!Serve
<1>6. ASSUME NEW c \in Callers, ReadProjection(c)
      PROVE  Cell!GiveUp(c) \/ UNCHANGED Cell!vars
  <2>1. CASE Drop(c, "MintFailed")
    BY <1>6, <1>t, <2>1, DropGivesUp DEF IInv, ReadProjection
  <2>2. CASE Goto(c, "wait") /\ UNCHANGED <<module, rejected>>
    <3>1. Hands' = Hands
      BY <1>6, <1>t, <2>2, HandsStay DEF ReadProjection, Control
    <3> QED
      BY <1>6, <2>2, <3>1 DEF ReadProjection, external, Cell!vars
  <2> QED
    BY <1>6, <2>1, <2>2 DEF ReadProjection
<1>7. ASSUME NEW c \in Callers, MintFails(c) PROVE Cell!GiveUp(c)
  BY <1>7, <1>t, DropGivesUp DEF IInv, MintFails
<1>8. ASSUME NEW c \in Callers, MintReturns(c)
      PROVE  Cell!Refill(c, Hands'[c]) \/ Cell!Take(c, Hands'[c]) \/ Cell!GiveUp(c)
  <2>1. CASE ~Unexpired(answer[c])
    BY <1>8, <1>t, <2>1, DropGivesUp DEF IInv, MintReturns
  <2>2. CASE Unexpired(answer[c])
    <3>1. HandOut(c, answer[c]) /\ answer[c] # NoToken /\ answer[c] \in Tokens
      BY <1>8, <2>2, <1>t DEF MintReturns, TypeOK
    <3>2. Cell!Fresh(answer[c])
      BY <3>1, <2>2, <1>t, <1>f DEF IInv, Numbered, TypeOK, Unexpired, Cell!Fresh
    <3>3. rejected' = rejected
      BY <1>8, <3>1, <1>t DEF MintReturns, HandOut, Return, IInv, Phases, TypeOK
    <3>h. Cell!Hand(c, answer[c]) /\ Hands'[c] = answer[c]
      <4>1. Cell!Hand(c, answer[c]) BY <1>t, <3>1, HandsHandedOut
      <4> QED BY <4>1 DEF Cell!Hand, Hands
    <3>4. CASE Locking(c)
      <4>1. ~Cell!Usable(cached)
        BY <1>8, <3>4 DEF MintReturns, IInv, Needed, Usable, Cell!Usable
      <4>2. answer[c].id > cached.id /\ answer[c].id > rejected[c].id
        BY <3>1, <3>4, <1>t, <1>f DEF IInv, AnswerNewest, TypeOK
      <4>3. cached' = answer[c] /\ UNCHANGED <<executed, external>>
        BY <1>8, <2>2, <3>4 DEF MintReturns
      <4>4. Cell!Refill(c, answer[c])
        BY <3>2, <3>3, <3>h, <4>1, <4>2, <4>3 DEF external, Cell!Refill
      <4> QED BY <3>h, <4>4
    <3>5. CASE ~Locking(c)
      <4>1. rejected[c] = NoToken
        BY <3>5 DEF IInv, Phases, Locking
      <4>2. cached' = cached /\ UNCHANGED <<executed, external>>
        BY <1>8, <2>2, <3>5 DEF MintReturns
      <4>3. Cell!Take(c, answer[c])
        BY <3>2, <3>3, <3>h, <4>1, <4>2 DEF external, Cell!Take
      <4> QED BY <3>h, <4>3
    <3> QED
      BY <3>4, <3>5
  <2> QED
    BY <2>1, <2>2
<1>9. ASSUME NEW c \in Callers, HostExecutes(c) PROVE Cell!Run(c)
  <2>1. pc[c] = "call" /\ Hands[c] = module[c]
    BY <1>9 DEF HostExecutes, Hands
  <2>2. executed[c] = 0 /\ Cell!Honoured(Hands[c])
    BY <1>9, <2>1 DEF HostExecutes, IInv, CallOutcome, Honoured, Cell!Honoured
  <2>3. executed' = [executed EXCEPT ![c] = 1]
    BY <1>9, <2>2, <1>t DEF HostExecutes, TypeOK
  <2>4. Cell!Hand(c, NoToken) BY <1>9, <1>t, HandsDropped DEF HostExecutes
  <2>5. Cell!Spend(c, NoToken)
    BY <1>9 DEF HostExecutes, Drop, Return, Cell!Spend
  <2> QED
    BY <1>9, <2>2, <2>3, <2>4, <2>5 DEF HostExecutes, shared, external, Cell!Run
<1>10. ASSUME NEW c \in Callers, HostRefuses(c) PROVE Cell!GiveUp(c)
  BY <1>10, <1>t, DropGivesUp DEF IInv, HostRefuses, shared
<1>11. ASSUME NEW c \in Callers, HostRejects(c) PROVE Cell!Reject(c) \/ Cell!GiveUp(c)
  <2>1. CASE rejected[c] = NoToken
    <3>1. executed[c] = 0 /\ module[c] # NoToken /\ ~Cell!Honoured(module[c])
      BY <1>11 DEF HostRejects, IInv, CallOutcome, InHand, Honoured, Cell!Honoured
    <3>2. Hands[c] = module[c]
      BY <1>11 DEF HostRejects, Hands
    <3>3. Cell!Hand(c, NoToken)
      BY <1>11, <1>t, <2>1, HandsEmptied DEF HostRejects, Control, Cell!Hand
    <3>4. Cell!Spend(c, Hands[c])
      BY <1>11, <2>1, <3>2 DEF HostRejects, Cell!Spend
    <3> QED
      BY <1>11, <2>1, <3>1, <3>2, <3>3, <3>4
      DEF HostRejects, shared, external, Cell!Reject
  <2>2. CASE rejected[c] # NoToken
    BY <1>11, <1>t, <2>2, DropGivesUp DEF IInv, HostRejects, shared
  <2> QED
    BY <2>1, <2>2
<1>12. ASSUME NEW c \in Callers, BrokerIssues(c) PROVE Cell!Issue
  BY <1>12, HandsSame DEF BrokerIssues, shared, Cell!Issue
<1>13. ASSUME Tick PROVE Cell!Tick
  BY <1>13, HandsSame DEF Tick, shared, local, Cell!Tick
<1>14. ASSUME Revoke PROVE Cell!Revoke
  BY <1>14, HandsSame DEF Revoke, shared, local, Cell!Revoke
<1>15. ASSUME UNCHANGED vars PROVE UNCHANGED Cell!vars
  BY <1>15, HandsSame DEF vars, shared, local, external, Cell!vars
<1> QED
  BY <1>2, <1>3, <1>4, <1>5, <1>6, <1>7, <1>8, <1>9, <1>10, <1>11, <1>12, <1>13, <1>14, <1>15
  DEF Next, CallerStep, CallStep, Cell!Next

\* To its callers a Client is one cell, whatever their number: emptied only of
\* what is dead, refilled with what is newer, each call run at most once, and never
\* with the capability its first attempt was rejected with.
THEOREM CellHolds == Spec => CellImplemented
BY InitCell, NextCell, Invariance, InHandAlways, PTL DEF Spec, CellImplemented, Cell!Spec

=============================================================================
