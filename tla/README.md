# saas-sdk-go in TLA+

A verification project for `codefly-dev/saas-sdk-go`, the Go SDK with which a
composed module talks to its SaaS host: TLA+ models translated from the source,
TLC runs over small instances, and proofs checked by TLAPS.

Paths below are relative to the repository (`moduleauthority/client.go` is
`src/moduleauthority/client.go`). `PROJECT.json` maps each definition to the
lines it stands for.

## 1. The system

| Component | State it keeps | Operations | What is hard |
|---|---|---|---|
| **Module capability** (`moduleauthority/client.go`, `authority.go`) | one cached Work Context with its expiry, under a mutex | `ModuleWorkContext`, `MintModuleWorkContext`, `callAsModule` (every call on the authority endpoint) | goroutines share the cache and the mutex is held across a network round trip; capabilities expire and are revoked while in use; a rejected call is retried once; procedures are not idempotent |
| **Authority answers** (`moduleauthority/verifier_sources.go`) | a map of answers with the instant each may be served until, under a mutex | `WorkContextSources`, `ask` behind `Seal`, `PrincipalEpoch`, `OperationBinding`, `AuthorizationRevision`, `Grant` | the host changes its mind while an answer is cached or in flight; answers arrive out of order; the limit on entries |
| **Source operations** (`datasource/operations.go`, `errors.go`) | none in the SDK; the effect ID is the state, kept by the caller and the host | `Invoke`, `Lookup`, `DeclareOperations`, `ListOperations` | replies are lost, requests delayed, the process and the host crash; an effect must happen at most once and never be believed not to have happened when it has |
| **Typed settings** (`settings/field.go`, `json.go`) | a protobuf message in memory, its JSON in the consumer's database | `Set`, `Clear`, `ApplyDefault`, `Lookup`, `Get`; `Marshal`, `Unmarshal` | parents are created, rolled back and pruned; processes with different schemas share a document |
| **Broker exchanges** (`broker.go`, `broker_errors.go`, `source_context.go`) | none | the three mints, the classification of HTTP statuses and transport failures | a refusal read as an outage or the reverse |
| **Facades** (`artifact.go`, `installation.go`, `notify.go`, `audit.go`, `audit_declarations.go`) | none | validate, `callAsModule`, check the receipt | a receipt that is about something else |
| **Seams** (`transport.go`, `gateway.go`, and `New` in `client.go`) | where a client sends, fixed at construction; the projected token's file, the kubelet's | `New`, `NewGatewayAuthority`; every mint and call sends credentials to one of the seams | credentials over plaintext, after a redirect, or to a fallback; a token rotated while it is read |
| **Response normalization** (`internal/connectresponse`) | one lazily decoded body | `Do`, `Read`, `Close` | an HTTP status taken for an RPC outcome |
| Settings catalog (`settings/catalog`) | none | `Validate`, three renderers | little |
| Accounts facade (`accounts`), datasource registration (`datasource/client.go`) | none | pass-through | little |
| Generated bindings, repository gates, conformance test | none | none | none |

How they interact: every facade and the authority answers reach the host through
`callAsModule`, which obtains the module capability from the shared cache, which
mints at the broker. The datasource and accounts clients go to the gateway
directly, through the response normalization. Settings stand apart.

What makes each component correct is stated with its module below. The hazards
that led to the properties are listed in `PROJECT.json`, each at its line.

## 2. The models

### ModuleAuthority: the capability cache and the calls made with it

One process per goroutine sharing a `Client`. The variables `cached` and `mu`
are the client's `module`/`expiresAt` and `mu`; `module`, `rejected`, `answer`,
`result` are locals of the call in progress; `executed` counts the executions of
the procedure by the host; `issued`, `revoked` and `now` are the host and the
clock. A capability is its issue number and its expiry.

| Action | Code |
|---|---|
| `Start` | entry of an operation; `callAsModule` fails at once without an authority seam |
| `Lock`, `Forget` | taking `c.mu`; on the retry path dropping the rejected capability if it is still the cached one (`client.go:491`) |
| `ServeCached`, `Refresh` | the test of `moduleWorkContextLocked` (`client.go:441`) |
| `ReadProjection`, `BrokerIssues`, `MintReturns`, `MintFails` | the mint: read the projected token, the broker's answer, its arrival (refused if expired by then), any failure |
| `HostExecutes`, `HostRefuses`, `HostRejects` | the three ways a call ends: executed (the reply may still be lost), refused, Unauthenticated |
| `Tick`, `Revoke` | time and the host's revocations |

A mint is three steps, so that time passes, capabilities are revoked and other
goroutines run between the broker's answer and its arrival. The mutex is held
throughout when the code holds it.

| Property | What it says |
|---|---|
| `TypeOK` | types; `cached` is a token with its expiry or neither |
| `OneRefresh` | the goroutine minting for the cache holds the mutex, and the cached capability is unusable while it does |
| `RetryIsNewer` | a retry carries a capability issued after the rejected one |
| `CallOutcome` | a procedure runs at most once per call, success means it ran, an authentication error means it did not |
| `DroppedIsDead` | only an expired or revoked capability is dropped: a late rejection costs nobody a mint |
| `HandedOutLive` | what is handed out was not expired and, from the cache, outlives the refresh margin |
| `OperationsReturn` | every operation returns |
| `CellImplemented` | refinement of `CapabilityCell`, below |

Run `module_capability`: two goroutines, refresh margin of 1 tick, lifetimes of 1
and 3, three capabilities, one tick. Two goroutines are enough for a late
rejection: one holds the old capability while the other is rejected, refreshes and
goes on with its next operation; that more goroutines change nothing is proved
(section 3). The shorter lifetime is within the margin at once and over after the
tick, the longer one is served from the cache before and after it; three issues
allow a rejected refresh after a refresh.

Fairness (`OperationsReturn` only). Strong fairness on `Lock`: `sync.Mutex` has a
starvation mode that hands the mutex to a waiter of more than 1 ms. Weak fairness
on the steps of the code and on the end of a mint or a call: the code takes its
steps, and an exchange ends in an answer or in an error, since the caller's
context or the transport ends it. No fairness is assumed of revocations, of the
clock or of new operations. An operation whose context has no deadline and whose
peer never answers does not return; nothing in the code promises that it does.

Client and host read one clock. `expiresAt` comes from the host and is compared
with the client's clock, so a difference between them shortens or lengthens the
refresh margin; `defaultRefreshSkew` is the code's allowance for it.

`CapabilityCell` says what the goroutines may take the client for, in seven
variables and no program counter: one cell with at most one capability. A
goroutine is served from it, refills it when it must with something newer than it
ever held, takes a capability of its own beside it, empties it only of what was
rejected and is dead, runs its call at most once, and after a rejection has
nothing in hand until the cell serves it something newer. The mapping reads the
cell off `cached`, the goroutine's rejected capability off `rejected`, its
executions off `executed`, and its hand off `Hands`: `module` while it may call
with it, nothing from the rejection until the refresh has put another in its
place. Taking the mutex, reading the token and waiting are stutters; a retry with
the rejected capability is not, for to be handed it again is a step the cell does
not have (the mutant `ForgetNothing`), nor has it one by which a second attempt
gets a capability of its own. It is more than the sum of the properties above: an
explicit mint that also stores its capability keeps each of them for long and is
no step of the cell (`MintReturnsShared`).

### ModuleSeams: which credential reaches whom

`Init` is every configuration: a gateway and an authority address, or none, each
with TLS, loopback, neither; `AllowInsecureHTTP`; either constructor. `Build`
accepts or refuses it as `New` and `NewGatewayAuthority` do. Then goroutines mint
(`Begin`, `ReadToken` or `TokenUnread`, `Post`, and an end) and call (`Call`,
`Return`); `sent` records every hop and credential, those of a followed redirect
included. The kubelet replaces the token's file at once or writes it in place, in
which case a read may find it empty or half written; old tokens expire at the
host. What happens to a capability once minted is `ModuleAuthority`'s.

| Property | What it says |
|---|---|
| `TypeOK` | types; a client exists exactly when it was built; no mint presents a blank token |
| `TransportRule` | no credential travels in plaintext beyond loopback without the assertion, nor to where a redirect points; the projected token goes to the gateway only, a capability only to the endpoint chosen, with the bridge never to accounts |
| `RotationSurvived` | a client that keeps minting is admitted under the newest token in the end |

Run `seams`: two goroutines, one rotation, one faulty answer. The rotation lets a
token be replaced, half written or expired before, during and after each step of a
mint; goroutines share nothing but the file, which each mint reads anew: a client that
kept a token would not be admitted under a later one. Fairness: the code takes its
steps, requests end, a rotation that was begun is completed; strong fairness of `Begin` is the assumption that the
consumer keeps minting, whatever calls it makes in between. Faults are bounded: a
gateway that never answers admits nobody.

### ModuleMints: the three mints and their errors

A goroutine validates what it asks for, reads the projected token, posts, and
classifies the answer (`Post`, `TransportError`, `BrokerRefusal`,
`DelegationRefusal`) or checks the capability (`Unacceptable`). An error is the
set of what `errors.Is` and `errors.As` find in it. The host's standing towards
the mint (`ok`, `unproven`, `denied`, `nothing`, `unestablished`, `failing`)
changes at any moment; answers are lost, cut off while the body is read,
malformed, late, or about something else. The consumer mints again as
`README.md:736` of the repository suggests, and while it waits to be installed
(`README.md:730`).

| Property | What it says |
|---|---|
| `TypeOK` | types; nothing is sent without a binding or source |
| `RefusalIsTrue` | a sentinel that blames the host names what it was at some moment of the request |
| `RetriesAreRight` | a refusal is never retried, even when its body cannot be read, and an outage always is |
| `MintedAsAsked` | a capability that is returned was granted, for what was asked, and not expired on arrival |
| `Settles` | once the host gives no reason to wait, the mint ends; the source mint's 412 is no reason |

Run `mints`: one minter, since minters share nothing; two changes of standing and
two bad answers, so that a mint is repeated after each. Fairness: the code and
the consumer take their steps and a request ends (the context or the transport
ends it). The host's changes are finite, no fairness is assumed of them.

### ModuleCalls: the facades

A call is refused unsent (invalid request, no authority seam), or goes through
`callAsModule`: no capability, rejected once or twice, refused, or executed, after
which the answer may be lost. `Receipt` is what each facade compares the answer
with. The host may act on something else than was named, as a fault. A relay
keeps audit events in an outbox until they are acknowledged and sends them again
after lost answers and crashes; the host deduplicates by the key on the wire.

| Property | What it says |
|---|---|
| `TypeOK` | types; nothing is sent without the authority seam |
| `OutcomeIsTrue` | success means the host acted, on what was asked as far as a receipt tells, and a consent believed revoked is revoked; errors that are documented to precede the call, and a rejected capability, mean that the host did nothing |
| `EventsWrittenOnce` | a relayed event is written at most once, and has been when the relay forgets it |
| `EventsWritten` | every relayed event is written and acknowledged in the end |

`approve` and `authorize` receipts carry a name that the host chose, so only the
revision can be compared: the property says no more than that. `ErrInvalidArtifact`
and `ErrInvalidInstallation` stand for a bad request and for a bad receipt alike
(`artifact.go:13`), so `OutcomeIsTrue` leaves them out.

Run `module_calls`: two goroutines, two calls besides the relay's, one event, two
faults, one crash. Two calls let an approval, an authorization and a revocation
follow or overlap one another about the same artifact or about two; two faults let
a call be rejected twice, or a wrong act be followed by a lost answer. Fairness: a call ends, the relay acknowledges, and
strong fairness of its sending an event, which competes for a goroutine with
other calls. Faults and crashes are bounded, as an outage that never ends delivers
nothing.

### WorkContextSources: the bounded answer cache

Verifiers (`Askers`) ask questions of one source set. `cached` is the map from
question to answer and end; the host's record `held` changes at any moment;
`lastSaid` remembers when the host would last have given each answer. The host may
answer another question than it was asked, and `strayed` records that it has. An
answer repeats one identifier of its question, and the code compares that one:
`echo` gives each question the identifier that its answers repeat, and two
questions may share it, as the seals of two principals share their installation.
Such answers are not told apart when they are read; in the cache, whose key is the
whole question, they are. The configured bound and number of entries are chosen
initially among the values the code distinguishes (negative, zero, positive; the
bound above the ceiling is refused).

| Property | What it says |
|---|---|
| `TypeOK` | types |
| `CacheBounded` | never more than `CacheEntries` answers; none when it is negative |
| `AnswerDelay` | an answer, cached or not, is one the host would have given at the start of the question or less than the ceiling and one flight earlier |
| `Attributed` | a question is answered with what the host said to it; to another that repeats the same identifier only if the host itself answered what it was not asked |
| `OnlyPositiveCached` | fails, see section 4 |
| `DelayWithinBound` | fails, see section 4 |

Both properties read an answer against `Mistakable`: the question alone as long as
the host answers what it is asked, so that neither the cache nor the order of the
answers may mix questions up, and every question with the same identifier after it
has not.

Run `authority_answers`: two verifiers, two questions, two identifiers, a ceiling
of 1 tick, flights of up to 1, two ticks, one change of mind. Two questions fill a
one-entry cache and share an identifier or do not, two verifiers reorder answers,
and the second tick is past the ceiling. The violation runs take a ceiling of 2,
flights of up to 2 and four ticks.

### DatasourceEffects: at most one effect

Workers run the same job, by the recovery protocol that the package documents:
Invoke, and whenever the outcome is unknown Lookup, and Invoke again under the
same ID when no attempt exists. The job's ID is persisted before the call, or
each call mints its own. Requests and replies are messages that may be delayed,
overtaken or lost; the process may crash and lose what it did not persist; the
host may lose track of an attempt. `MapHostError` (in `HostErrors`, shared with
the two modules below), `ReceiptOutcome`, `InvokeOutcome` and `LookupOutcome`
translate the classification of the host's answers in `errors.go` and
`operations.go`.

| Property | What it says |
|---|---|
| `TypeOK` | types, including which effect IDs exist |
| `JobActsOnce` | a job under a persisted ID acts at the provider at most once over all workers, requests, retries and crashes; without one, so does each worker that does not crash |
| `Concluded` | "committed" means there is an effect, "refused" means there is none and none can still come |
| `EvidenceKept` | a worker that has not crashed can name every effect its requests had |
| `EffectPromised` | refinement of `EffectPromise`: an ID acts at most once, a worker keeps its ID until it knows or crashes, and once told stays told rightly |

`EffectPromise` has no requests, replies or host: workers adopt IDs, act, and are
told. Its `Act` is forbidden to a worker that was told of a refusal, and `Committed`
needs an act, so the refinement covers what the invariants do at one instant for
the whole future: what a worker was told is not overtaken by a delayed request.

Run `effects`: two workers, two inputs, three calls in all, one crash. One worker may
take all three, the shortest way through a lost Invoke, a Lookup that overtakes it
and a repeated Invoke; or the job is redelivered to the other, with the same input
or another, while requests of the first are under way. Of the codes that
`HostErrors` treats alike the host answers with one; `error_bodies` has them all.
Workers stop when the calls are used up, so the run does not look for deadlock.

The provider, the host's table of attempts and the consumer's recovery are
external: they are modelled from what the package's documentation requires of
them, and the properties say what the SDK's answers lead to when they behave so.

### SourceDeclarations: a set that is replaced whole

Administrators list the operations of a source, edit one, and declare the set
again, which replaces what the host had. Listing and declaring convert each
operation between the host's form and the SDK's, all or nothing. The host may have
operations that this SDK cannot read (an effect it does not know) and may leave out
an empty schema; answers are lost, requests delayed, proxies answer in the host's
place. `history` is every set the host has admitted.

| Property | What it says |
|---|---|
| `DeclarationsTypeOK` | types |
| `EditKeepsTheRest` | a set declared over the one that was listed differs from it in the edited operation only |
| `OutcomeIsTrue` | a success means that the host admitted, during the call, exactly the caller's operations; an error that names a refusal, that this call did not replace the set and will not |

The API has no version to compare: of two administrators who edit at once, the
later wins, and no property says otherwise. Run `declarations`: two administrators,
two names, two declarations each, three sets in all; one initial set that can be
listed and two that cannot; edits to a valid operation, one with a bad effect and
one with a bad schema. It ends when the declarations are used up.

### ConnectResponse: from a response to the caller's error

One response on its way through `connectresponse.Client.Do`, the body that
Connect reads, and `mapHostError`. A body is a sequence of bytes: with a whole,
partial, repeated or no byte order mark, then no text, part of it or all; it ends
or fails, may be compressed, and its gzip header may be bad. Each read takes any
number of bytes, and the source reports its end with them or after them, as
`io.Reader` allows. `Open` is the first `Read` with its `Peek` and `Discard`.
Connect and `bufio` are external; of Connect the model says that a body which
does not decode gives an error inferred from the status, and that one without a
recognized code takes the code from the status and counts as decoded
(`datasource/operations_test.go:778`).

| Property | What it says |
|---|---|
| `TypeOK` | types; no read without a reader |
| `BodyAsSent` | Connect gets exactly the bytes after one mark, everything before a failure, and the end the source had |
| `ClosedOnce` | every response is closed exactly once, by whichever path |
| `ErrorIsTheHosts` | the host's error keeps its meaning in every encoding and spelling of JSON; no effect is concluded not to have happened except from an error that was read whole and decoded |

Run `error_bodies`: every combination, bodies of up to eight bytes; a mark is
three, so every cut inside, before and after two of them occurs. A response is
read once, so the run ends and does not look for deadlock.

### SettingsDocument and SettingsFields: typed settings

`SettingsFields` is the promise: a flat collection of fields, in which an
operation touches its own field only. `SettingsDocument` is the code: a message
is the tree of its present nodes, `Set` materializes the parents and on a refused
value takes back those it created, `Clear` prunes what it emptied, `Marshal` and
`Unmarshal` keep the nodes the process's own schema knows, within the size bound.
`FieldsImplemented` is `SettingsFields!Spec` under the mapping that forgets the
parents. Processes differ in the schema they were built with. A message received
over the wire keeps what its reader does not know, as protobuf's unknown fields.

The loops that climb a chain of parents while they are empty are written as what
they compute: they remove the parents of the chain that hold nothing outside the
chain (`Hollowed`).

| Property | What it says |
|---|---|
| `TypeOK` | nothing is present without what encloses it |
| `FieldsImplemented` | refinement of `SettingsFields` |
| `NeverHollows` | no edit adds an empty submessage |
| `RefusedSetUndone` | a refused value changes nothing, although parents were created on the way |
| `OldKeysKept` | fails, see section 4 |

Run `settings_fields`: a root field, one in a submessage, one two deep; a process
that knows all and one that does not know the inner submessage; two values; a
bound of 4 nodes out of 5. Every shape of the tree is an initial document.

## 3. Proofs

`ModuleAuthorityProofs` proves, for every number of goroutines, margin, set of
lifetimes and bound: type correctness, `OneRefresh`, `RetryIsNewer`,
`CallOutcome`, `DroppedIsDead` and `HandedOutLive` as theorems of `Spec`. The
assumptions are those that `ModuleAuthority` names: `Nobody` is no goroutine and
the numbers are naturals.

The invariants are not inductive. `IInv` adds what they rest on:

- `LockOwner`: who is inside the critical section is who holds the mutex;
- `Phases`, `Needed`: what is set in each phase, and that a refresh runs only
  while the cached capability is unusable, which stays so because only the
  holder of the mutex writes the cache;
- `Numbered`, `Newest`, `AnswerNewest`: issue numbers only grow, nothing in
  circulation is newer than the last one issued, and a capability being minted
  under the mutex is newer than the cached one;
- `Retrying`, `RejectedDead`: a rejected capability is one the host no longer
  honours, and after `Forget` it is not the cached one.

From the last two, the capability a retry is served is newer than the rejected
one, whether it comes from the cache (refreshed by another goroutine) or from a
new mint. `DroppedIsDead` and `HandedOutLive` are action properties and follow
from `IInv` and the step. `IInv` was also checked by TLC on the run's instance.

The same module proves that `ModuleAuthority` implements `CapabilityCell`
(`CellHolds`), from `IInv` and `InHand` (a caller about to call has a capability).
`InitCell` maps the initial states, `NextCell` each step: `Newest` and
`AnswerNewest` give that a refill is newer than the cell, `Retrying` that a second
attempt is served something newer, `RejectedDead` that what is emptied is dead,
`Needed` that the cell is refilled only when it has to be, `CallOutcome` that
giving up means not having run. The hand is the one mapped variable that is not the
code's: `HandsHandedOut`, `HandsEmptied`, `HandsDropped`, `HandsStay`, `HandsSame` and
`HandsMoved` say what each kind of step does to it.

`ModuleSeamsProofs` proves type correctness and `TransportRule` for every
configuration of the two seams and any number of goroutines, rotations and faulty
answers, assuming that `None` is no client. The rule rests on what is fixed when a
client is built: `AsConfigured`, a client sends where its accepted configuration
says, and `UnderWay`, requests come only from a client that was built and calls only
from one with an authority endpoint. The types rest on the same and on `Presents`: a
mint that has read the file presents a token no newer than the file's, so none is
admitted that the file has not held.

`ModuleCallsProofs` proves type correctness, `OutcomeIsTrue` and
`EventsWrittenOnce` for any number of goroutines, artifacts, events and faults,
assuming that `Unexecuted` names nothing at the host and that events and
artifacts do not share names. The strengthening is `AllSound`: between the moment
the host executes a call and the moment its answer is read, what was done is on
record at the host, and the host takes back neither a revocation nor an audit row
(`RecordKept`). So what another goroutine does in between cannot make the answer
untrue.

`WorkContextSourcesProofs` proves type correctness, `CacheBounded`, `AnswerDelay`
and `Attributed` for any number of verifiers and questions, every ceiling, flight,
setting and history of the host. `History` says that the record of when the host
last said each answer reaches now, `Asking` that an answer under way was given
after its question was begun and at most `MaxFlight` ago, `Remembered` that a line
of the cache ends at most the ceiling and a flight after its answer was last
given, and `Straight` that, as long as the host answers what it is asked, every
answer under way or remembered is to its question. `AnswerDelay` is the sum of
`Asking` and `Remembered`, read against the question that `Straight` names;
`Attributed` follows from the same.

`DatasourceEffectsProofs` proves type correctness, `JobActsOnce`, `Concluded` and
`EvidenceKept` for any number of workers, inputs, calls and crashes, and that
`DatasourceEffects` implements `EffectPromise` (`PromiseHolds`). The assumptions are
that `NoEffect` is no effect ID, `NoInput` no input, and the bounds are naturals.
The strengthening has these parts:

- `Counted`: there are never more IDs than calls, so one is always left to mint;
- `Requested`, `ActsRecorded`: at most one request per ID is past the host's record
  of the attempt, and that record tells whether the ID has acted. This is what
  makes a second act impossible, however late a repeated request arrives;
- `Named`, `Owned`: which ID a worker goes by, and that a worker that has not
  crashed still goes by the ID of every request it has outstanding;
- `Replied`: a reply is to the call its worker waits for, and a committed one is
  given only for an ID that has acted;
- `Settled`: a worker that is not unresolved has nothing outstanding but the call
  it waits for, and not even that once a definite refusal arrived. This is what
  makes "refused" final: no delayed request of its own can still act.

For the refinement `NextPromise` maps each step: an act of the host is the act of
the promise, `Invoke` is a stutter or the adoption of a fresh ID, a return tells or
is a stutter, the rest of the network is a stutter.

`ModuleMintsProofs` proves type correctness, `RefusalIsTrue`, `RetriesAreRight` and
`MintedAsAsked` for any number of minters, bindings and sources, changes of the
host's standing and faults, assuming that the kinds are the three mints of the
code. `OutcomeIs` is the lemma they share: a mint that posted its request got no
whole answer, or was refused, or was issued something that passed the checks or
did not, and what it returns in each case. The strengthening is `Fine`: the host's
standing is among those seen while a request is under way, an answer that arrived
has the status of one that was seen, and what a mint ended with is the outcome of
that answer.

`SettingsProofs` proves type correctness, `RefusedSetUndone`, `NeverHollows` and the
refinement of `SettingsFields` (`FieldsHold`) for every schema that nests, any number
of processes and whatever part of the schema each knows. The assumptions are those
of `SettingsDocument`: the submessages around a node form a chain, and a process
that knows a node knows what encloses it. Type correctness is inductive here. The
lemmas say what the code's operations make of a message: `AssignedIs`, `ClearedIs`
(`Emptied` is what the loop of `Clear` removes) and `RolledBackIs`, from which
`RefusedSetUndone` and the stutter of a refused `Set` follow.

`HostAnswersProofs` has two parts. The first proves type correctness, `BodyAsSent`,
`ClosedOnce` and `ErrorIsTheHosts` of `ConnectResponse` for every set of bodies, of
any length, and every way of cutting them up. Its invariant `IInv` adds three parts:

- `Opened`: nothing is read before the first `Read`, and a body whose gzip header is
  bad stays failed;
- `Kept`: what was delivered followed by what is buffered is what was read without
  its mark, an end is pending or delivered only when all was read, and it is the end
  that the source had;
- `Concluded`: which decision of `Do`, or which end of the body, the outcome is from.

`ServeHolds` is the lemma behind `Kept`: one read, from the buffer or from the source,
of any number of bytes, keeps it. It rests on `StripGrows`: once three bytes were
read, or all there are, what is read further is added to what is left after the mark
and takes nothing back. The lemmas about sequences it cites are those of the
library; nothing here is proved by induction over a body, because the model delivers
parts of it and never walks it.

The second part proves type correctness (`DeclarationsTypeOK`), `EditKeepsTheRest` and
`OutcomeIsTrue` of `SourceDeclarations` for any number of administrators, operations,
calls and sets the host starts with. The module holds the proofs of both components of
the datasource client that read answers, so what the two modules both have (`Init`,
`Next`, the type invariant) has names of its own in `SourceDeclarations`. The invariant
`Inv` adds four parts:

- `FromListed`: every set in the history or on its way is an edit of a set that the
  host had when it was listed (the history only grows, so it stays one);
- `InHand`: what an administrator holds is the set it listed, read and written
  without loss by the conversions (`ListedTyped`, `DeclaredTyped`), then an edit of it;
- `SentOnce`: no two requests are the same call, and a request on its way is not in
  the history. This is what makes a refusal final;
- `Awaited`: the request an administrator waits for is the set it has in hand.

Both invariants were also checked by TLC on the instances of their runs.

Only model-checked: liveness (`OperationsReturn`, `RotationSurvived`, `Settles`,
`EventsWritten`), since fairness and ENABLED are out of the prover's reach. Every
safety property that a passing run checks is a theorem.

## 4. Where the documentation and the code disagree

- **Refusals are cached** (`refusals_cached`). `verifier_sources.go:82` and
  `README.md:659` say that only positive answers are. `ask` stores every answer
  that arrives, and an answer "unheld" is a refusal.
- **A revocation may be delayed by more than the bound** (`delay_beyond_bound`).
  `verifier_sources.go:77` and `README.md:657` say at most, or exactly, the bound.
  The bound is counted from the arrival of the answer; its flight comes on top.
  `AnswerDelay` is what does hold.
- **A seal about another principal is read** (no run of its own).
  `verifier_sources.go:53`, `README.md:647` and `CHANGELOG.md:123` say that an answer
  about another principal is one this client will not read. The question and the
  cache key are the principal and the installation (`:269`, `:272`); `Seal` compares
  the installation (`:281`), and the answer carries no principal to compare. If the
  host answers about another principal of the same installation, it is returned, and
  remembered, as the answer. In the model this is two questions with one identifier:
  `Miss`, `Resolve` about the other, `Receive`. `Attributed` is what does hold; with
  `{q}` for `Mistakable(q)` TLC finds those three steps as its counterexample.
- **A rolling schema removal deletes older keys** (`old_keys_deleted`).
  `settings/json.go:15` says that it does not. Reading leaves them; the first save
  of the document that was read removes them.

## 5. What is not modelled

- The generated bindings under `src/gen`. They are about nineteen of every twenty
  lines of the repository, so the definitions here stand for about half of the
  hand-written Go and a small part of the whole. They hold no decision of this
  SDK: messages, descriptors and clients that `protoc` wrote, modelled only as what
  the code around them sends and receives.
- The repository's own gates and the conformance test against a real gateway.
- Registration (`AddGitHubSource`, `ListSources`, `Sync`) and the accounts facade:
  one validation and pass-through. Their hazard, a repeated call, is the host's:
  the requests carry no key.
- Cancellation of a caller's context while it waits for the client's mutex: the
  code does not observe it there, and the model's waiting goroutine waits.
- Sizes and formats in requests (`artifactRequest`, `sealed`, `validateEffectID`):
  a request is valid or not.
- The settings catalog: pure functions without state (patterns, bounds, the
  spelling of imports, text), whose cases their tests enumerate.
- In `DatasourceEffects`, a proxy's answer that Connect decodes. The network's proxies
  answer with what does not decode (`"nonwire"`). One whose body is JSON without a
  recognized code, `{}` with status 403 for example, counts as the host's answer
  (`ConnectResponse`), so it would be taken for a definite refusal; that no proxy
  before the host sends such a body is assumed here.
- Consumers that save one document from two processes at once, or declare one
  source's operations without listing them first: the SDK has no version to
  compare, and serializing them is the consumer's.
- JSON `null`, which the codec reads as absence; enum and string encodings; real
  oneofs, which no settings schema of the repository has.

## 6. Plan

Done: `ModuleAuthority` with its proofs and its refinement of `CapabilityCell`,
`ModuleSeams`, `ModuleMints`, `ModuleCalls`, `WorkContextSources`, `HostErrors`,
`DatasourceEffects` with its refinement of `EffectPromise`, `SourceDeclarations`,
`ConnectResponse`, `SettingsFields` and `SettingsDocument`.

All their safety properties and refinements are proved. What is left:

1. An abstract specification of a source's declarations (a register that is replaced
   whole, `SourceDeclarations` implementing it), which would say of two
   administrators who edit at once what they may rely on.
2. One for a response (`ConnectResponse` as a function from what was sent to what the
   caller gets), so that `DatasourceEffects` rests on it instead of on `MapHostError`.
