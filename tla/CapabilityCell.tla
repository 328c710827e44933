---------------------------- MODULE CapabilityCell ----------------------------
(***************************************************************************)
(* What a module's client promises the goroutines that share it, without   *)
(* a mutex, a broker or an exchange in flight: a cell with at most one     *)
(* capability, given up only when it is of no more use and replaced only   *)
(* by a newer one; goroutines that are handed capabilities worth using;    *)
(* and calls that run once, the second attempt under a newer capability.   *)
(***************************************************************************)
EXTENDS Naturals

CONSTANTS Callers,
          Skew,    \* a capability this close to its expiry is of no more use
          NoToken

VARIABLES now,
          issued,  \* capabilities issued so far
          revoked, \* those up to this one are no longer honoured
          cell,    \* the shared capability
          hand,    \* the capability each goroutine has in hand
          spent,   \* the one its first attempt was rejected with
          runs     \* times its call was run

vars == <<now, issued, revoked, cell, hand, spent, runs>>

Init ==
  /\ now = 0 /\ issued = 0 /\ revoked = 0
  /\ cell = NoToken
  /\ hand = [c \in Callers |-> NoToken]
  /\ spent = [c \in Callers |-> NoToken]
  /\ runs = [c \in Callers |-> 0]

Usable(t) == t # NoToken /\ now + Skew < t.exp
Honoured(t) == t.id > revoked /\ now < t.exp

\* Fresh from the issuer, and not expired on the way.
Fresh(t) == t # NoToken /\ t.id \in 1..issued /\ now < t.exp

Hand(c, t) == hand' = [hand EXCEPT ![c] = t]
Spend(c, t) == spent' = [spent EXCEPT ![c] = t]

\* A goroutine starts over with nothing in hand.
Begin(c) ==
  /\ Hand(c, NoToken)
  /\ runs' = [runs EXCEPT ![c] = 0]
  /\ spent[c] = NoToken
  /\ UNCHANGED <<now, issued, revoked, cell, spent>>

\* A second attempt is served only what is newer than the rejected capability.
Serve(c) ==
  /\ Usable(cell) /\ cell.id > spent[c].id
  /\ Hand(c, cell)
  /\ UNCHANGED <<now, issued, revoked, cell, spent, runs>>

\* The cell is refilled, when it has to be, with what is newer than it ever held.
Refill(c, t) ==
  /\ ~Usable(cell) /\ Fresh(t)
  /\ t.id > cell.id /\ t.id > spent[c].id
  /\ cell' = t
  /\ Hand(c, t)
  /\ UNCHANGED <<now, issued, revoked, spent, runs>>

\* A capability of a goroutine's own, beside the cell; never for a second attempt.
Take(c, t) ==
  /\ Fresh(t) /\ spent[c] = NoToken
  /\ Hand(c, t)
  /\ UNCHANGED <<now, issued, revoked, cell, spent, runs>>

\* The cell is emptied only of a capability that is of no more use.
Empty(c) ==
  /\ cell # NoToken /\ spent[c] = cell
  /\ ~Honoured(cell)
  /\ cell' = NoToken
  /\ UNCHANGED <<now, issued, revoked, hand, spent, runs>>

Run(c) ==
  /\ Honoured(hand[c]) /\ runs[c] = 0
  /\ runs' = [runs EXCEPT ![c] = 1]
  /\ Hand(c, NoToken) /\ Spend(c, NoToken)
  /\ UNCHANGED <<now, issued, revoked, cell>>

\* The first attempt was rejected: the call was not run, and a second one has to be
\* handed a capability of its own first.
Reject(c) ==
  /\ hand[c] # NoToken /\ ~Honoured(hand[c])
  /\ spent[c] = NoToken /\ runs[c] = 0
  /\ Hand(c, NoToken) /\ Spend(c, hand[c])
  /\ UNCHANGED <<now, issued, revoked, cell, runs>>

GiveUp(c) ==
  /\ runs[c] = 0
  /\ Hand(c, NoToken) /\ Spend(c, NoToken)
  /\ UNCHANGED <<now, issued, revoked, cell, runs>>

Issue ==
  /\ issued' = issued + 1
  /\ UNCHANGED <<now, revoked, cell, hand, spent, runs>>

Revoke ==
  /\ revoked' = issued
  /\ UNCHANGED <<now, issued, cell, hand, spent, runs>>

Tick ==
  /\ now' = now + 1
  /\ UNCHANGED <<issued, revoked, cell, hand, spent, runs>>

Next ==
  \/ \E c \in Callers :
       \/ Begin(c) \/ Serve(c) \/ Empty(c) \/ Run(c) \/ Reject(c) \/ GiveUp(c)
       \/ Refill(c, hand'[c]) \/ Take(c, hand'[c])
  \/ Issue \/ Revoke \/ Tick

Spec == Init /\ [][Next]_vars
=============================================================================
