--------------------------- MODULE ModuleAuthority ---------------------------
(***************************************************************************)
(* moduleauthority.Client: a module's short-lived Work Context, cached     *)
(* under one mutex, and the calls made on the host's authority endpoint    *)
(* with it.                                                                *)
(*                                                                         *)
(* Goroutines ("callers") run three kinds of operation:                    *)
(*   "work"  ModuleWorkContext: serve the cached capability or, holding    *)
(*           the mutex over the whole round trip, mint another;            *)
(*   "mint"  MintModuleWorkContext: mint without lock or cache;            *)
(*   "call"  callAsModule: obtain the capability as "work" does, call the  *)
(*           host, and on Unauthenticated forget it, refresh and call once *)
(*           more.                                                         *)
(* The broker and the host are external. A capability is what they tell    *)
(* apart: the number of its issue and the expiry it was issued with.       *)
(***************************************************************************)
EXTENDS Naturals

CONSTANTS Callers,     \* goroutines sharing one Client
          Nobody,      \* the mutex is free
          Skew,        \* refreshSkew, in ticks
          Lifetimes,   \* the lifetimes the broker may issue, in ticks
          MaxTime,     \* bound: the clock stops here
          MaxIssued    \* bound: capabilities the broker issues

ASSUME NobodyAssumption == Nobody \notin Callers
ASSUME SkewAssumption == Skew \in Nat
ASSUME LifetimesAssumption == Lifetimes \subseteq Nat
ASSUME BoundsAssumption == MaxTime \in Nat /\ MaxIssued \in Nat

VARIABLES authority,   \* New was given the authority seam
          now,         \* the clock, shared by client and host
          cached,      \* c.module and c.expiresAt
          mu,          \* the caller holding c.mu, or Nobody
          pc,          \* where each caller is
          op,          \* the operation it runs
          module,      \* the capability it was handed
          rejected,    \* the capability its first attempt was rejected with
          answer,      \* what the broker issued to the mint it has in flight
          result,      \* how its last operation returned
          executed,    \* times the host executed its procedure
          issued,      \* capabilities the broker issued so far
          revoked      \* the host honours no capability up to this one

local == <<pc, op, module, rejected, answer, result, executed>>
shared == <<authority, cached, mu>>
external == <<now, issued, revoked>>
vars == <<shared, local, external>>

\* c.module == "" and the zero expiresAt are the capability numbered 0.
NoToken == [id |-> 0, exp |-> 0]
Tokens == {t \in [id : Nat, exp : Nat] : t.id > 0} \cup {NoToken}

Operations == {"work", "mint", "call"}
Control == {"idle", "lock", "forget", "check", "read", "wait", "call"}
Results == {"none", "ok", "NoAuthority", "MintFailed", "Unauthenticated",
            "HostError"}

TypeOK ==
  /\ authority \in BOOLEAN
  /\ now \in Nat
  /\ cached \in Tokens
  /\ mu \in Callers \cup {Nobody}
  /\ pc \in [Callers -> Control]
  /\ op \in [Callers -> Operations]
  /\ module \in [Callers -> Tokens]
  /\ rejected \in [Callers -> Tokens]
  /\ answer \in [Callers -> Tokens]
  /\ result \in [Callers -> Results]
  /\ executed \in [Callers -> Nat]
  /\ issued \in Nat
  /\ revoked \in Nat

Init ==
  /\ authority \in BOOLEAN
  /\ now = 0
  /\ cached = NoToken
  /\ mu = Nobody
  /\ pc = [c \in Callers |-> "idle"]
  /\ op = [c \in Callers |-> "work"]
  /\ module = [c \in Callers |-> NoToken]
  /\ rejected = [c \in Callers |-> NoToken]
  /\ answer = [c \in Callers |-> NoToken]
  /\ result = [c \in Callers |-> "none"]
  /\ executed = [c \in Callers |-> 0]
  /\ issued = 0
  /\ revoked = 0

-----------------------------------------------------------------------------
(* The guards of the code, and the host's. *)

\* The cached capability is served: it is one, and outlives the skew.
Usable(t) == t # NoToken /\ now + Skew < t.exp

\* (Slip: the expiry the broker reports is taken as it is.)
AnyExpiry(t) == t # NoToken

\* parseExpiry: an expiry that is not after now is refused.
Unexpired(t) == t.exp > now

\* External: the host honours a capability until it expires or is revoked.
Honoured(t) == t.id > revoked /\ now < t.exp

\* A mint runs under the mutex, except the explicit one.
Locking(c) == op[c] # "mint"

-----------------------------------------------------------------------------
(* One step of a caller each. *)

Goto(c, l) == pc' = [pc EXCEPT ![c] = l]

\* The operation returns, and with it go its local variables.
Return(c, r) ==
  /\ Goto(c, "idle")
  /\ result' = [result EXCEPT ![c] = r]
  /\ rejected' = [rejected EXCEPT ![c] = NoToken]

\* It returns no capability: an error, or the answer of the host.
Drop(c, r) == Return(c, r) /\ module' = [module EXCEPT ![c] = NoToken]

Unlock(c) == mu' = IF Locking(c) THEN Nobody ELSE mu

\* moduleWorkContextLocked returned t: "call" goes on to send it.
HandOut(c, t) ==
  /\ module' = [module EXCEPT ![c] = t]
  /\ IF op[c] = "call" THEN Goto(c, "call") /\ UNCHANGED <<result, rejected>>
                       ELSE Return(c, "ok")

\* Every operation starts from a goroutine that has returned from its last.
\* Without the authority seam callAsModule answers ErrNoAuthority.
Start(c, o) ==
  /\ pc[c] = "idle"
  /\ op' = [op EXCEPT ![c] = o]
  /\ module' = [module EXCEPT ![c] = NoToken]
  /\ executed' = [executed EXCEPT ![c] = 0]
  /\ IF o = "call" /\ ~authority
       THEN Return(c, "NoAuthority")
       ELSE /\ Goto(c, IF o = "mint" THEN "read" ELSE "lock")
            /\ result' = [result EXCEPT ![c] = "none"]
            /\ UNCHANGED rejected
  /\ UNCHANGED <<answer, shared, external>>

\* (Slip: the cache is consulted without taking the mutex.)
LockUnheld(c) ==
  /\ pc[c] = "lock"
  /\ Goto(c, IF rejected[c] # NoToken THEN "forget" ELSE "check")
  /\ UNCHANGED <<shared, op, module, rejected, answer, result, executed,
                 external>>

\* c.mu.Lock(), by ModuleWorkContext or by callAsModule's refresh.
Lock(c) ==
  /\ pc[c] = "lock" /\ mu = Nobody
  /\ mu' = c
  /\ Goto(c, IF rejected[c] # NoToken THEN "forget" ELSE "check")
  /\ UNCHANGED <<authority, cached, op, module, rejected, answer, result,
                 executed, external>>

\* (Slip: the refresh drops whatever is cached by now.)
ForgetWhatever(c) ==
  /\ pc[c] = "forget"
  /\ cached' = NoToken
  /\ Goto(c, "check")
  /\ UNCHANGED <<authority, mu, op, module, rejected, answer, result,
                 executed, external>>

\* (Slip: the capability goes, its expiry stays.)
ForgetHalf(c) ==
  /\ pc[c] = "forget"
  /\ cached' = IF cached = rejected[c] THEN [id |-> 0, exp |-> cached.exp] ELSE cached
  /\ Goto(c, "check")
  /\ UNCHANGED <<authority, mu, op, module, rejected, answer, result,
                 executed, external>>

\* (Slip: the refresh drops nothing.)
ForgetNothing(c) ==
  /\ pc[c] = "forget"
  /\ Goto(c, "check")
  /\ UNCHANGED <<shared, op, module, rejected, answer, result, executed,
                 external>>

\* forgetModuleWorkContext: only the very capability that was rejected.
Forget(c) ==
  /\ pc[c] = "forget"
  /\ cached' = IF cached = rejected[c] THEN NoToken ELSE cached
  /\ Goto(c, "check")
  /\ UNCHANGED <<authority, mu, op, module, rejected, answer, result,
                 executed, external>>

ServeCached(c) ==
  /\ pc[c] = "check" /\ Usable(cached)
  /\ HandOut(c, cached)
  /\ mu' = Nobody
  /\ UNCHANGED <<authority, cached, op, answer, executed, external>>

Refresh(c) ==
  /\ pc[c] = "check" /\ ~Usable(cached)
  /\ Goto(c, "read")
  /\ UNCHANGED <<shared, op, module, rejected, answer, result, executed,
                 external>>

\* projectedToken, read before every mint: the kubelet may be rewriting it.
\* The request leaves only when there is one.
ReadProjection(c) ==
  /\ pc[c] = "read"
  /\ \/ Goto(c, "wait") /\ UNCHANGED <<mu, module, rejected, result>>
     \/ Drop(c, "MintFailed") /\ Unlock(c)
  /\ UNCHANGED <<authority, cached, op, answer, executed, external>>

\* (Slip: an error path returns with the mutex held.)
MintFailsLocked(c) ==
  /\ pc[c] = "wait"
  /\ Drop(c, "MintFailed")
  /\ answer' = [answer EXCEPT ![c] = NoToken]
  /\ UNCHANGED <<shared, op, executed, external>>

\* A refusal, a transport failure (which may lose an issued capability), a
\* caller's cancelled context, an oversized, undecodable or unsealed answer.
MintFails(c) ==
  /\ pc[c] = "wait"
  /\ Drop(c, "MintFailed")
  /\ Unlock(c)
  /\ answer' = [answer EXCEPT ![c] = NoToken]
  /\ UNCHANGED <<authority, cached, op, executed, external>>

\* (Slip: the explicit mint stores its capability as well.)
MintReturnsShared(c) ==
  /\ pc[c] = "wait" /\ answer[c] # NoToken
  /\ IF Unexpired(answer[c])
       THEN HandOut(c, answer[c]) /\ cached' = answer[c]
       ELSE Drop(c, "MintFailed") /\ UNCHANGED cached
  /\ Unlock(c)
  /\ answer' = [answer EXCEPT ![c] = NoToken]
  /\ UNCHANGED <<authority, op, executed, external>>

\* The answer arrived. An expired one fails and leaves the cache as it was;
\* the locked refresh stores the other, the explicit mint does not.
MintReturns(c) ==
  /\ pc[c] = "wait" /\ answer[c] # NoToken
  /\ IF Unexpired(answer[c])
       THEN /\ HandOut(c, answer[c])
            /\ cached' = IF Locking(c) THEN answer[c] ELSE cached
       ELSE Drop(c, "MintFailed") /\ UNCHANGED cached
  /\ Unlock(c)
  /\ answer' = [answer EXCEPT ![c] = NoToken]
  /\ UNCHANGED <<authority, op, executed, external>>

\* (Slip: a lost answer is retried as a rejection is.)
HostExecutesRetried(c) ==
  /\ pc[c] = "call" /\ Honoured(module[c])
  /\ executed' = [executed EXCEPT ![c] = @ + 1]
  /\ \/ Drop(c, "ok")
     \/ /\ rejected[c] = NoToken
        /\ rejected' = [rejected EXCEPT ![c] = module[c]]
        /\ Goto(c, "lock") /\ UNCHANGED <<module, result>>
  /\ UNCHANGED <<op, answer, shared, external>>

\* The host authenticated the module and ran the procedure; its answer may
\* still be lost on the way back.
HostExecutes(c) ==
  /\ pc[c] = "call" /\ Honoured(module[c])
  /\ executed' = [executed EXCEPT ![c] = @ + 1]
  /\ \E r \in {"ok", "HostError"} : Drop(c, r)
  /\ UNCHANGED <<op, answer, shared, external>>

\* Any answer but Unauthenticated, or none: returned as it is.
HostRefuses(c) ==
  /\ pc[c] = "call"
  /\ Drop(c, "HostError")
  /\ UNCHANGED <<op, answer, executed, shared, external>>

\* Unauthenticated: once, the caller goes for a fresh capability.
HostRejects(c) ==
  /\ pc[c] = "call" /\ ~Honoured(module[c])
  /\ IF rejected[c] = NoToken
       THEN /\ rejected' = [rejected EXCEPT ![c] = module[c]]
            /\ Goto(c, "lock") /\ UNCHANGED <<module, result>>
       ELSE Drop(c, "Unauthenticated")
  /\ UNCHANGED <<op, answer, executed, shared, external>>

-----------------------------------------------------------------------------
(* External: the broker and the host. *)

BrokerIssues(c) ==
  /\ pc[c] = "wait" /\ answer[c] = NoToken
  /\ issued < MaxIssued
  /\ issued' = issued + 1
  /\ \E life \in Lifetimes :
       answer' = [answer EXCEPT ![c] = [id |-> issued + 1, exp |-> now + life]]
  /\ UNCHANGED <<pc, op, module, rejected, result, executed, shared, now,
                 revoked>>

Tick ==
  /\ now < MaxTime
  /\ now' = now + 1
  /\ UNCHANGED <<issued, revoked, shared, local>>

\* The installation, its principal or the signing key changed: nothing issued
\* so far is honoured any more.
Revoke ==
  /\ revoked < issued
  /\ revoked' = issued
  /\ UNCHANGED <<now, issued, shared, local>>

CallerStep(c) ==
  \/ Forget(c) \/ ServeCached(c) \/ Refresh(c) \/ ReadProjection(c)
  \/ MintReturns(c)
CallStep(c) == HostExecutes(c) \/ HostRefuses(c) \/ HostRejects(c)

Next ==
  \/ \E c \in Callers :
       \/ \E o \in Operations : Start(c, o)
       \/ Lock(c) \/ CallerStep(c)
       \/ MintFails(c) \/ BrokerIssues(c) \/ CallStep(c)
  \/ Tick \/ Revoke

Spec == Init /\ [][Next]_vars

\* sync.Mutex hands the lock to a waiter that has starved (strong fairness);
\* a goroutine that can run does; an exchange with the broker or the host ends,
\* by its answer or by the deadline of the context it was given.
Fairness ==
  \A c \in Callers :
    /\ SF_vars(Lock(c))
    /\ WF_vars(CallerStep(c))
    /\ WF_vars(MintFails(c) \/ MintReturns(c))
    /\ WF_vars(CallStep(c))

FairSpec == Spec /\ Fairness

-----------------------------------------------------------------------------
(* Properties. *)

\* "Concurrent callers share one refresh" (client.go:356): the caller minting
\* under the mutex is the only one, and it mints because no cached capability
\* is usable, not after another caller has already refreshed it.
OneRefresh ==
  \A c \in Callers :
    pc[c] \in {"read", "wait"} /\ Locking(c) => mu = c /\ ~Usable(cached)

\* "A retry never carries the rejected token" (authority.go:124): the second
\* attempt carries a capability issued after the one the first attempt was
\* rejected with, even when other callers refreshed, or were handed the rejected
\* one, in between.
RetryIsNewer ==
  \A c \in Callers :
    pc[c] = "call" /\ rejected[c] # NoToken => module[c].id > rejected[c].id

\* callAsModule retries only what the host did not run: over both attempts the
\* procedure is executed at most once, success means it was, and an error of
\* the refresh or of authentication means it was not (only an error of the host
\* or of the transport leaves it open).
CallOutcome ==
  \A c \in Callers :
    /\ executed[c] <= 1
    /\ pc[c] # "idle" => executed[c] = 0
    /\ op[c] = "call" /\ result[c] = "ok" => executed[c] = 1
    /\ result[c] \in {"MintFailed", "Unauthenticated", "NoAuthority"} =>
         executed[c] = 0

\* "A capability another caller already refreshed is kept" (client.go:490): the
\* cached capability is dropped or replaced only when the host honours it no
\* longer or it is within the refresh skew of its expiry. A rejection that
\* arrives late never costs the others a mint.
DroppedIsDead ==
  [][cached # NoToken /\ cached' # cached =>
       cached.id <= revoked \/ cached.exp <= now + Skew]_vars

\* No operation hands out an expired capability, however long its mint was in
\* flight or its caller waited for the mutex; one that is not fresh from the
\* broker has more than the refresh skew left.
HandedOutLive ==
  [][\A c \in Callers :
       module'[c] # module[c] /\ module'[c] # NoToken =>
         \/ module'[c].exp > now + Skew
         \/ module'[c] = answer[c] /\ module'[c].exp > now]_vars

\* Every operation returns: no caller waits for the mutex for ever, whatever
\* the broker answers to the mint made while holding it.
OperationsReturn == \A c \in Callers : pc[c] # "idle" ~> pc[c] = "idle"

\* What a caller can call with: the rejected capability, which it has until the
\* refresh replaces it, is not.
Hands == [c \in Callers |-> IF pc[c] \in {"idle", "call"} THEN module[c] ELSE NoToken]

\* What the goroutines are promised (CapabilityCell), whatever the mutex, the
\* cache and the mints in flight do.
Cell == INSTANCE CapabilityCell WITH
  cell <- cached, hand <- Hands, spent <- rejected, runs <- executed

\* "Concurrent callers share one refresh", "retries exactly once", "a retry never
\* carries the rejected token" (client.go:356, authority.go:72, authority.go:124)
\* as one: to its callers the client is a single cell.
CellImplemented == Cell!Spec

=============================================================================
