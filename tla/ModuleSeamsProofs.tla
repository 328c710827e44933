-------------------------- MODULE ModuleSeamsProofs --------------------------
(***************************************************************************)
(* Type correctness and the transport rule, for every configuration of the *)
(* seams, any number of goroutines, rotations and faulty answers. The rule *)
(* rests on what is fixed when a client is built: it sends where its       *)
(* accepted configuration says, and a call is made only where there is an  *)
(* endpoint for it; the types rest on what a mint has read of the file.    *)
(***************************************************************************)
EXTENDS ModuleSeams, TLAPS

\* A client that was built is the one its configuration asks for, accepted.
AsConfigured ==
  /\ seams \in AllSeams
  /\ built = "built" =>
       /\ BridgeAccepted(seams) /\ NewAccepted(seams)
       /\ client = [broker |-> Broker(seams), authority |-> Endpoint(seams)]

\* Requests are under way only from a client, calls only to an endpoint.
UnderWay ==
  \A g \in Goroutines :
    /\ phase[g] # "idle" => built = "built"
    /\ phase[g] = "calling" => client.authority # None

Phased == phase \in [Goroutines -> {"idle", "minting", "read", "posted", "calling"}]

IInv == AsConfigured /\ UnderWay /\ Phased /\ TransportRule

\* The hop of a mint obeys the rule.
LEMMA BrokerObeys ==
  ASSUME AsConfigured, built = "built"
  PROVE  /\ client.broker.to = "gateway"
         /\ client.broker.tls \/ client.broker.loopback \/ seams.allow
<1>1. seams.gateway # None /\ GatewayAccepted(seams.gateway, seams.allow)
  BY DEF AsConfigured, NewAccepted
<1>2. client.broker = Hop("gateway", seams.gateway.scheme = "https", seams.gateway.loopback)
  BY DEF AsConfigured, Broker
<1>3. /\ client.broker.to = "gateway"
      /\ client.broker.tls = (seams.gateway.scheme = "https")
      /\ client.broker.loopback = seams.gateway.loopback
  BY <1>2 DEF Hop
<1>4. seams.gateway.scheme = "https" \/ seams.gateway.loopback \/ seams.allow
  BY <1>1 DEF GatewayAccepted
<1> QED BY <1>3, <1>4

\* So does the hop of a call, which goes to the endpoint that was chosen.
LEMMA EndpointObeys ==
  ASSUME AsConfigured, built = "built", client.authority # None
  PROVE  /\ client.authority.to = IF seams.bridge THEN "gateway" ELSE "accounts"
         /\ client.authority.to = "accounts" => seams.authority # None /\ ~seams.bridge
         /\ client.authority.tls \/ client.authority.loopback \/ seams.allow
<1>1. client.authority = Endpoint(seams) /\ BridgeAccepted(seams) /\ NewAccepted(seams)
  BY DEF AsConfigured
<1>2. CASE seams.authority # None
  <2>1. client.authority = Hop("accounts", seams.authority.tls, seams.authority.loopback)
    BY <1>1, <1>2 DEF Endpoint
  <2>2. ~seams.bridge BY <1>1, <1>2 DEF BridgeAccepted
  <2>3. AuthorityAccepted(seams.authority, seams.allow) BY <1>1, <1>2 DEF NewAccepted
  <2> QED BY <1>2, <2>1, <2>2, <2>3 DEF Hop, AuthorityAccepted
<1>3. CASE seams.authority = None
  <2>1. seams.bridge /\ client.authority = Broker(seams)
    BY <1>1, <1>3 DEF Endpoint
  <2>2. client.authority = client.broker BY <2>1 DEF AsConfigured
  <2> QED BY <2>1, <2>2, BrokerObeys
<1> QED BY <1>2, <1>3

\* A request to a hop that obeys the rule keeps it, since no redirect is followed.
LEMMA SendKeeps ==
  ASSUME TransportRule, UNCHANGED seams,
         NEW hop, NEW credential \in {"projected", "capability"}, NEW redirect \in BOOLEAN,
         Send(hop, credential, redirect),
         hop.to \in {"gateway", "accounts"},
         hop.tls \/ hop.loopback \/ seams.allow,
         credential = "projected" => hop.to = "gateway",
         credential = "capability" => hop.to = IF seams.bridge THEN "gateway" ELSE "accounts",
         hop.to = "accounts" => seams.authority # None /\ ~seams.bridge
  PROVE  TransportRule'
<1>1. sent' = sent \cup ({hop} \X {"internal", credential})
  BY DEF Send, Redirected
<1> SUFFICES ASSUME NEW m \in sent'
             PROVE  /\ m[1].to # "elsewhere"
                    /\ m[1].tls \/ m[1].loopback \/ seams.allow
                    /\ m[2] = "projected" => m[1].to = "gateway"
                    /\ m[2] = "capability" =>
                         m[1].to = IF seams.bridge THEN "gateway" ELSE "accounts"
                    /\ m[1].to = "accounts" => seams.authority # None /\ ~seams.bridge
  BY DEF TransportRule
<1>2. CASE m \in sent BY <1>2 DEF TransportRule
<1>3. CASE m \in {hop} \X {"internal", credential}
  <2>1. m[1] = hop /\ m[2] \in {"internal", credential} BY <1>3
  <2> QED BY <2>1
<1> QED BY <1>1, <1>2, <1>3

LEMMA InitInv == Init => IInv
BY DEF Init, IInv, AsConfigured, UnderWay, Phased, TransportRule

LEMMA NextInv == IInv /\ [Next]_vars => IInv'
<1> SUFFICES ASSUME IInv, [Next]_vars PROVE IInv'
  OBVIOUS
<1> USE DEF IInv
<1>1. CASE Build
  <2>1. AsConfigured'
    BY <1>1 DEF Build, AsConfigured
  <2>2. UnderWay' /\ Phased' /\ TransportRule'
    BY <1>1 DEF Build, UnderWay, Phased, TransportRule, host, work
  <2> QED BY <2>1, <2>2
<1>2. CASE Rotate \/ WriteOn \/ Expire \/ UNCHANGED vars
  BY <1>2 DEF Rotate, WriteOn, Expire, vars, host, work, AsConfigured, UnderWay, Phased,
              TransportRule
<1>3. ASSUME NEW g \in Goroutines, Begin(g) \/ ReadToken(g) \/ TokenUnread(g) \/ Decide(g)
      PROVE  IInv'
  BY <1>3 DEF Begin, ReadToken, TokenUnread, Decide, MintEnds, host, AsConfigured,
              UnderWay, Phased, TransportRule
<1>4. ASSUME NEW g \in Goroutines, Post(g) \/ PostFails(g) PROVE IInv'
  <2>1. built = "built" BY <1>4 DEF Post, PostFails, UnderWay
  <2>2. PICK redirect \in BOOLEAN : Send(client.broker, "projected", redirect)
    BY <1>4 DEF Post, PostFails
  <2>3. TransportRule'
    <3>1. UNCHANGED seams BY <1>4 DEF Post, PostFails
    <3> QED BY <2>1, <2>2, <3>1, BrokerObeys, SendKeeps
  <2>4. AsConfigured' /\ UnderWay' /\ Phased'
    BY <1>4, <2>1 DEF Post, PostFails, MintEnds, host, AsConfigured, UnderWay, Phased
  <2> QED BY <2>3, <2>4
<1>5. ASSUME NEW g \in Goroutines, Call(g) \/ Return(g) PROVE IInv'
  <2>1. built = "built" /\ client.authority # None
    BY <1>5 DEF Call, Return, UnderWay
  <2>2. PICK redirect \in BOOLEAN : Send(client.authority, "capability", redirect)
    BY <1>5 DEF Call, Return
  <2>3. TransportRule'
    <3>1. UNCHANGED seams BY <1>5 DEF Call, Return
    <3> QED BY <2>1, <2>2, <3>1, EndpointObeys, SendKeeps
  <2>4. AsConfigured' /\ UnderWay' /\ Phased'
    BY <1>5, <2>1 DEF Call, Return, host, AsConfigured, UnderWay, Phased
  <2> QED BY <2>3, <2>4
<1> QED BY <1>1, <1>2, <1>3, <1>4, <1>5 DEF Next

\* TransportRule: whatever the configuration, New and NewGatewayAuthority build no
\* client that sends a credential in plaintext where it may not, to a seam that is
\* not its own, or after a redirect.
THEOREM TransportRuleHolds == Spec => []TransportRule
<1>1. IInv => TransportRule BY DEF IInv
<1> QED BY <1>1, InitInv, NextInv, PTL DEF Spec

-----------------------------------------------------------------------------
(* Type correctness. *)

\* A mint that has read the file presents a token, not newer than the file's.
Presents ==
  \A g \in Goroutines :
    phase[g] \in {"read", "posted"} =>
      presented[g] \in Tokens /\ presented[g].number <= file.number

\* A client that is built sends to hops.
LEMMA BuildsClient ==
  ASSUME NEW s \in AllSeams, NewAccepted(s)
  PROVE  [broker |-> Broker(s), authority |-> Endpoint(s)] \in Clients
<1>1. s.gateway \in Gateways BY DEF AllSeams, NewAccepted
<1>2. Broker(s) \in Hops BY <1>1 DEF Broker, Hop, Hops, Gateways
<1>3. Endpoint(s) \in Hops \cup {None}
  <2>1. CASE s.authority # None
    <3>1. s.authority \in Authorities BY <2>1 DEF AllSeams
    <3> QED BY <2>1, <3>1 DEF Endpoint, Hop, Hops, Authorities
  <2>2. CASE s.authority = None BY <2>2, <1>2 DEF Endpoint
  <2> QED BY <2>1, <2>2
<1> QED BY <1>2, <1>3 DEF Clients

\* What is sent keeps its type, a redirect or not.
LEMMA SendTyped ==
  ASSUME sent \subseteq (Hops \X {"internal", "projected", "capability"}),
         NEW hop \in Hops, NEW credential \in {"projected", "capability"},
         NEW redirect \in BOOLEAN, Send(hop, credential, redirect)
  PROVE  sent' \subseteq (Hops \X {"internal", "projected", "capability"})
<1>1. sent' = sent \cup ({hop} \X {"internal", credential})
  BY DEF Send, Redirected
<1> QED BY <1>1

LEMMA InitTyped == Init => TypeOK /\ Presents
<1> SUFFICES ASSUME Init PROVE TypeOK /\ Presents
  OBVIOUS
<1>1. /\ file \in [number : 1..(MaxRotations + 1), state : {"whole", "partial", "empty"}]
      /\ live \in 1..file.number /\ admitted \in 0..file.number /\ faults \in 0..MaxFaults
  BY BoundsAssumption DEF Init
<1>2. /\ phase \in [Goroutines -> {"idle", "minting", "read", "posted", "calling"}]
      /\ presented \in [Goroutines -> Tokens \cup {None}]
  BY DEF Init
<1>3. Presents BY DEF Init, Presents
<1>4. sent \subseteq (Hops \X {"internal", "projected", "capability"}) BY DEF Init
<1> QED BY <1>1, <1>2, <1>3, <1>4 DEF Init, TypeOK

LEMMA NextTyped == TypeOK /\ Presents /\ IInv /\ [Next]_vars => TypeOK' /\ Presents'
<1> SUFFICES ASSUME TypeOK, Presents, IInv, [Next]_vars PROVE TypeOK' /\ Presents'
  OBVIOUS
<1> USE BoundsAssumption
<1>1. CASE Build
  <2>1. client' \in Clients \cup {None} /\ (client' # None <=> built' = "built")
    <3>1. CASE BridgeAccepted(seams) /\ NewAccepted(seams)
      BY <1>1, <3>1, BuildsClient, NoneAssumption DEF Build, TypeOK
    <3>2. CASE ~(BridgeAccepted(seams) /\ NewAccepted(seams))
      BY <1>1, <3>2 DEF Build, TypeOK
    <3> QED BY <3>1, <3>2
  <2>2. built' \in {"unbuilt", "refused", "built"} BY <1>1 DEF Build
  <2> QED BY <1>1, <2>1, <2>2 DEF Build, TypeOK, Presents, host, work
<1>2. CASE Rotate \/ WriteOn \/ Expire \/ UNCHANGED vars
  <2>1. /\ file' \in [number : 1..(MaxRotations + 1), state : {"whole", "partial", "empty"}]
        /\ file.number <= file'.number
        /\ live' \in 1..file'.number
    BY <1>2 DEF TypeOK, Rotate, WriteOn, Expire, vars, host
  <2>2. UNCHANGED <<seams, built, client, phase, presented, admitted, sent, faults>>
    BY <1>2 DEF Rotate, WriteOn, Expire, vars, work
  <2>3. admitted' \in 0..file'.number BY <2>1, <2>2 DEF TypeOK
  <2>4. Presents'
    <3> SUFFICES ASSUME NEW g \in Goroutines, phase[g] \in {"read", "posted"}
                 PROVE  presented[g] \in Tokens /\ presented[g].number <= file'.number
      BY <2>2 DEF Presents
    <3>1. presented[g] \in Tokens /\ presented[g].number <= file.number BY DEF Presents
    <3>2. presented[g].number \in Nat /\ file.number \in Nat /\ file'.number \in Nat
      BY <2>1, <3>1 DEF Tokens, TypeOK
    <3> QED BY <2>1, <3>1, <3>2
  <2> QED BY <2>1, <2>2, <2>3, <2>4 DEF TypeOK
<1>3. ASSUME NEW g \in Goroutines, Begin(g) \/ TokenUnread(g) PROVE TypeOK' /\ Presents'
  BY <1>3 DEF Begin, TokenUnread, TypeOK, Presents, host
<1>4. ASSUME NEW g \in Goroutines, ReadToken(g) PROVE TypeOK' /\ Presents'
  BY <1>4 DEF ReadToken, TypeOK, Presents, host, Tokens
<1>5. ASSUME NEW g \in Goroutines, Decide(g) PROVE TypeOK' /\ Presents'
  <2>1. presented[g] \in Tokens /\ presented[g].number <= file.number
    BY <1>5 DEF Decide, Presents
  <2>2. admitted' \in 0..file.number
    BY <1>5, <2>1 DEF Decide, TypeOK, Tokens
  <2> QED BY <1>5, <2>2 DEF Decide, MintEnds, TypeOK, Presents, host
<1>6. ASSUME NEW g \in Goroutines, Post(g) \/ PostFails(g) \/ Call(g) \/ Return(g)
      PROVE  TypeOK' /\ Presents'
  <2>1. built = "built" /\ client \in Clients
    BY <1>6 DEF Post, PostFails, Call, Return, IInv, UnderWay, TypeOK
  <2>2. Post(g) \/ PostFails(g) => client.broker \in Hops
    BY <2>1 DEF Clients
  <2>3. Call(g) \/ Return(g) => client.authority \in Hops
    BY <2>1 DEF Clients, Call, Return, IInv, UnderWay
  <2>4. sent' \subseteq (Hops \X {"internal", "projected", "capability"})
    <3>1. CASE Post(g) \/ PostFails(g)
      <4>1. PICK redirect \in BOOLEAN : Send(client.broker, "projected", redirect)
        BY <3>1 DEF Post, PostFails
      <4> QED BY <3>1, <4>1, <2>2, SendTyped DEF TypeOK
    <3>2. CASE Call(g) \/ Return(g)
      <4>1. PICK redirect \in BOOLEAN : Send(client.authority, "capability", redirect)
        BY <3>2 DEF Call, Return
      <4> QED BY <3>2, <4>1, <2>3, SendTyped DEF TypeOK
    <3> QED BY <1>6, <3>1, <3>2
  <2>5. /\ phase' \in [Goroutines -> {"idle", "minting", "read", "posted", "calling"}]
        /\ presented' \in [Goroutines -> Tokens \cup {None}]
        /\ faults' \in 0..MaxFaults
    <3>1. CASE Post(g) \/ Call(g) \/ Return(g)
      BY <3>1 DEF Post, Call, Return, TypeOK
    <3>2. CASE PostFails(g)
      BY <3>2 DEF PostFails, MintEnds, TypeOK
    <3> QED BY <1>6, <3>1, <3>2
  <2>6. Presents'
    <3> SUFFICES ASSUME NEW h \in Goroutines, phase'[h] \in {"read", "posted"}
                 PROVE  presented'[h] \in Tokens /\ presented'[h].number <= file'.number
      BY DEF Presents
    <3>1. file' = file BY <1>6 DEF Post, PostFails, Call, Return, host
    <3>2. presented'[h] = presented[h] /\ phase[h] \in {"read", "posted"}
      BY <1>6 DEF Post, PostFails, Call, Return, MintEnds, TypeOK
    <3> QED BY <3>1, <3>2 DEF Presents
  <2> QED BY <1>6, <2>4, <2>5, <2>6 DEF Post, PostFails, Call, Return, TypeOK, host
<1> QED BY <1>1, <1>2, <1>3, <1>4, <1>5, <1>6 DEF Next

\* TypeOK: the state keeps its type. A client exists exactly when New has built
\* one, and no token is honoured, presented or admitted that the projected file
\* has not held.
THEOREM TypeCorrect == Spec => []TypeOK
BY InitInv, NextInv, InitTyped, NextTyped, PTL DEF Spec

=============================================================================
