----------------------------- MODULE ModuleSeams -----------------------------
(***************************************************************************)
(* Which credential of a module reaches whom, and how current it is: the   *)
(* construction of a Client over the host's two seams (New,                *)
(* NewGatewayAuthority, the transport rule), and the two kinds of request  *)
(* it sends, mints at the gateway broker with the projected token and      *)
(* calls on the authority endpoint with the module capability.             *)
(*                                                                         *)
(* The token's file is rotated under the running process, by replacing it  *)
(* or by writing it in place. Tokens are numbered by rotation. The host,   *)
(* the kubelet and the consumer, which keeps minting, are external.        *)
(***************************************************************************)
EXTENDS Naturals

CONSTANTS Goroutines,
          MaxRotations, \* bound: rotations of the token
          MaxFaults,    \* bound: answers other than the host's decision
          None

ASSUME BoundsAssumption == MaxRotations \in Nat /\ MaxFaults \in Nat

VARIABLES seams,     \* what the consumer configured
          built,     \* whether the client has been built, or was refused
          client,    \* where it sends
          file,      \* the projected token's file
          live,      \* the oldest token the host still honours
          phase,     \* where the mint or call of each goroutine is
          presented, \* what its mint presents
          admitted,  \* the newest token the host minted for
          sent,      \* who was sent which credential
          faults

host == <<file, live>>
work == <<phase, presented, admitted>>
vars == <<seams, built, client, host, work, sent, faults>>

Gateways == [scheme : {"https", "http", "other"}, loopback : BOOLEAN,
             base : BOOLEAN]       \* base: an absolute URL and nothing beside it
Authorities == [hostport : BOOLEAN, tls : BOOLEAN, loopback : BOOLEAN]
AllSeams == [gateway : Gateways \cup {None}, authority : Authorities \cup {None},
             allow : BOOLEAN,      \* AllowInsecureHTTP
             complete : BOOLEAN,   \* the internal token and the credentials
             bridge : BOOLEAN]     \* built with NewGatewayAuthority
Hops == [to : {"gateway", "accounts", "elsewhere"}, tls : BOOLEAN, loopback : BOOLEAN]
Tokens == [number : 1..(MaxRotations + 1), state : {"whole", "partial"}]
Clients == [broker : Hops, authority : Hops \cup {None}]

ASSUME NoneAssumption == None \notin Clients

TypeOK ==
  /\ seams \in AllSeams
  /\ built \in {"unbuilt", "refused", "built"}
  /\ client \in Clients \cup {None} /\ (client # None <=> built = "built")
  /\ file \in [number : 1..(MaxRotations + 1), state : {"whole", "partial", "empty"}]
  /\ live \in 1..file.number
  /\ phase \in [Goroutines -> {"idle", "minting", "read", "posted", "calling"}]
  /\ presented \in [Goroutines -> Tokens \cup {None}]
  /\ admitted \in 0..file.number
  /\ sent \subseteq (Hops \X {"internal", "projected", "capability"})
  /\ faults \in 0..MaxFaults

Init ==
  /\ seams \in AllSeams
  /\ built = "unbuilt" /\ client = None
  /\ file = [number |-> 1, state |-> "whole"]
  /\ live = 1
  /\ phase = [g \in Goroutines |-> "idle"]
  /\ presented = [g \in Goroutines |-> None]
  /\ admitted = 0
  /\ sent = {}
  /\ faults = 0

-----------------------------------------------------------------------------
(* Construction. *)

Hop(to, tls, loopback) == [to |-> to, tls |-> tls, loopback |-> loopback]

\* gatewayBaseURL
GatewayAccepted(g, allow) ==
  g.base /\ (g.scheme = "https" \/ (g.scheme = "http" /\ (g.loopback \/ allow)))

\* authorityBaseURL
AuthorityAccepted(a, allow) == a.hostport /\ (a.tls \/ a.loopback \/ allow)

NewAccepted(s) ==
  /\ s.complete
  /\ s.gateway # None /\ GatewayAccepted(s.gateway, s.allow)
  /\ s.authority # None => AuthorityAccepted(s.authority, s.allow)

\* (Slip: the bridge leaves a direct endpoint in place.)
BridgeBeside(s) == s.bridge => NewAccepted(s)

BridgeAccepted(s) == s.bridge => s.authority = None

Broker(s) == Hop("gateway", s.gateway.scheme = "https", s.gateway.loopback)

\* The bridge is the broker's client under another path, a mint-only client has
\* no endpoint for calls.
Endpoint(s) ==
  IF s.authority # None THEN Hop("accounts", s.authority.tls, s.authority.loopback)
  ELSE IF s.bridge THEN Broker(s) ELSE None

Build ==
  /\ built = "unbuilt"
  /\ IF BridgeAccepted(seams) /\ NewAccepted(seams)
     THEN /\ built' = "built"
          /\ client' = [broker |-> Broker(seams), authority |-> Endpoint(seams)]
     ELSE built' = "refused" /\ UNCHANGED client
  /\ UNCHANGED <<seams, host, work, sent, faults>>

-----------------------------------------------------------------------------
(* Requests. *)

\* (Slip: net/http follows a redirect, with these headers.)
Followed(hop) == {Hop("elsewhere", FALSE, FALSE)}

\* Where else a request goes when it is answered with a redirect.
Redirected(hop) == {}

\* What is sent to hop, and what a redirect would make of it.
Send(hop, credential, redirect) ==
  sent' = sent \cup (({hop} \cup IF redirect THEN Redirected(hop) ELSE {})
                       \X {"internal", credential})

Begin(g) ==
  /\ built = "built" /\ phase[g] = "idle"
  /\ phase' = [phase EXCEPT ![g] = "minting"]
  /\ UNCHANGED <<seams, built, client, host, presented, admitted, sent, faults>>

\* (Slip: the token is read once.)
ReadOnce(g) ==
  /\ phase[g] = "minting" /\ file.state # "empty"
  /\ presented' = [presented EXCEPT ![g] = [file EXCEPT !.number = 1]]
  /\ phase' = [phase EXCEPT ![g] = "read"]
  /\ UNCHANGED <<seams, built, client, host, admitted, sent, faults>>

\* projectedToken: the file as it is now, which may be half written.
ReadToken(g) ==
  /\ phase[g] = "minting" /\ file.state # "empty"
  /\ presented' = [presented EXCEPT ![g] = file]
  /\ phase' = [phase EXCEPT ![g] = "read"]
  /\ UNCHANGED <<seams, built, client, host, admitted, sent, faults>>

\* (Slip: a blank token is presented like any other.)
ReadBlank(g) ==
  /\ phase[g] = "minting" /\ file.state = "empty"
  /\ presented' = [presented EXCEPT ![g] = file]
  /\ phase' = [phase EXCEPT ![g] = "read"]
  /\ UNCHANGED <<seams, built, client, host, admitted, sent, faults>>

\* A blank token is refused before any request.
TokenUnread(g) ==
  /\ phase[g] = "minting" /\ file.state = "empty"
  /\ phase' = [phase EXCEPT ![g] = "idle"]
  /\ UNCHANGED <<seams, built, client, host, presented, admitted, sent, faults>>

\* The answer is still to come when the request is sent.
Post(g) ==
  /\ phase[g] = "read"
  /\ phase' = [phase EXCEPT ![g] = "posted"]
  /\ Send(client.broker, "projected", FALSE)
  /\ UNCHANGED <<seams, built, client, host, presented, admitted, faults>>

MintEnds(g) ==
  /\ phase' = [phase EXCEPT ![g] = "idle"]
  /\ presented' = [presented EXCEPT ![g] = None]

Honoured(t) == t.state = "whole" /\ t.number >= live

\* External: the host decides by the token presented.
Decide(g) ==
  /\ phase[g] = "posted"
  /\ admitted' = IF Honoured(presented[g]) /\ presented[g].number > admitted
                   THEN presented[g].number ELSE admitted
  /\ MintEnds(g)
  /\ UNCHANGED <<seams, built, client, host, sent, faults>>

\* A redirect, an outage, a lost answer: the mint fails.
PostFails(g) ==
  /\ phase[g] = "posted" /\ faults < MaxFaults
  /\ faults' = faults + 1
  /\ MintEnds(g)
  /\ \E redirect \in BOOLEAN : Send(client.broker, "projected", redirect)
  /\ UNCHANGED <<seams, built, client, host, admitted>>

\* callAsModule, once there is a capability (ModuleAuthority has the cache).
Call(g) ==
  /\ built = "built" /\ phase[g] = "idle" /\ admitted > 0
  /\ client.authority # None
  /\ phase' = [phase EXCEPT ![g] = "calling"]
  /\ Send(client.authority, "capability", FALSE)
  /\ UNCHANGED <<seams, built, client, host, presented, admitted, faults>>

Return(g) ==
  /\ phase[g] = "calling"
  /\ phase' = [phase EXCEPT ![g] = "idle"]
  /\ \E redirect \in BOOLEAN : Send(client.authority, "capability", redirect)
  /\ UNCHANGED <<seams, built, client, host, presented, admitted, faults>>

-----------------------------------------------------------------------------
(* External: the kubelet and the host's clock. *)

\* Written in place: empty, then partial; or replaced at once.
Rotate ==
  /\ file.state = "whole" /\ file.number <= MaxRotations
  /\ \E state \in {"whole", "empty"} :
       file' = [number |-> file.number + 1, state |-> state]
  /\ UNCHANGED <<seams, built, client, live, work, sent, faults>>

WriteOn ==
  /\ file.state # "whole"
  /\ file' = [file EXCEPT !.state = IF @ = "empty" THEN "partial" ELSE "whole"]
  /\ UNCHANGED <<seams, built, client, live, work, sent, faults>>

\* A rotated token expires.
Expire ==
  /\ live < file.number
  /\ live' = live + 1
  /\ UNCHANGED <<seams, built, client, file, work, sent, faults>>

Next ==
  \/ Build \/ Rotate \/ WriteOn \/ Expire
  \/ \E g \in Goroutines :
       \/ Begin(g) \/ ReadToken(g) \/ TokenUnread(g) \/ Post(g) \/ Decide(g)
       \/ PostFails(g) \/ Call(g) \/ Return(g)

Spec == Init /\ [][Next]_vars

\* The code takes its steps, a request ends, a rotation is completed; the consumer
\* mints again, whatever else its goroutines do.
Fairness ==
  /\ WF_vars(WriteOn)
  /\ \A g \in Goroutines :
       /\ SF_vars(Begin(g))
       /\ WF_vars(ReadToken(g) \/ TokenUnread(g))
       /\ WF_vars(Post(g))
       /\ WF_vars(Decide(g) \/ PostFails(g))
       /\ WF_vars(Return(g))

FairSpec == Spec /\ Fairness

-----------------------------------------------------------------------------
(* Properties. *)

\* "Travel only over TLS, or in plaintext to a loopback address, or in plaintext to
\* any address the consumer explicitly asserted protected" (transport.go:10), "there
\* is no fallback to direct accounts access" (gateway.go:14), "instead of dialling
\* an address nobody vouched for" (client.go:103): over both seams, both
\* constructors and any redirect, no credential travels in plaintext where it may
\* not, the projected token goes to the gateway alone, a capability to the endpoint
\* that was chosen, and nothing to accounts with the bridge or without that seam.
TransportRule ==
  \A m \in sent :
    /\ m[1].to # "elsewhere"
    /\ m[1].tls \/ m[1].loopback \/ seams.allow
    /\ m[2] = "projected" => m[1].to = "gateway"
    /\ m[2] = "capability" => m[1].to = IF seams.bridge THEN "gateway" ELSE "accounts"
    /\ m[1].to = "accounts" => seams.authority # None /\ ~seams.bridge

\* A mint that met a rotation half done, or presented a token that expired on the
\* way, spoils nothing: a client that keeps minting is admitted under the newest
\* token in the end.
RotationSurvived ==
  \A n \in 1..(MaxRotations + 1) :
    (built = "built" /\ file.number >= n) ~> (admitted >= n)

=============================================================================
