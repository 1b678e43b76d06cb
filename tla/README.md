# Device Manufacturing System: specification, model checking and proofs

This directory holds TLA+ specifications of the Device Manufacturing System
(`src/`), configurations that check them with TLC on small instances, and
theorems about them proved with TLAPS for all instances. `PROJECT.json` says for
every definition which lines of the source it stands for.

## 1. The system

Two Go services and their libraries.

| part | source | state it keeps | operations |
|---|---|---|---|
| Configuration service | `pkg/manufacturing/api/service.go` | none of its own; reads the key file at every request | `PostSetConfig` |
| SCEP extension client | `pkg/manufacturing/client/extension/extension.go` | `extClient`, an interface shared by all requests; one Consul instancer goroutine per created client | `StartClient`, `createClient` |
| Enrolment service | `pkg/manufacturing/api/service.go` | none across requests | `PostGetCRT` |
| Keys and CSRs | `extension.go`, `key.go`, `csr.go` | none | `GetCertificate`, `makeKey`, `makeCSR` |
| Request signing | `crypto/x509util` | none | `CreateCertificateRequest` |
| Transport | `pkg/manufacturing/api/transport.go` | none | decode, authenticate, encode, error to status |
| Authentication | `pkg/*/auth` | none: the Keycloak key is fetched at every request | `Kf` |
| Lifecycle | `cmd/*/main.go`, `pkg/*/discovery/consul` | the registration with Consul | start, register, listen, signal, deregister |
| Enroller proxy | `pkg/enroller/api/proxying.go`, `transport.go`, `models/csr` | three endpoint caches fed by Consul | `GetCSRs`, `GetCSRStatus`, `GetCRT` |
| Middlewares | `instrumenting.go`, `middlewares.go` of both services | request counters, timings | count and log every call |
| Configuration, CORS | `configs`, `cmd/*/main.go` | none after the start | read the environment, answer preflight requests |

How they interact:

- net/http runs every request in a goroutine of its own. The requests of the
  manufacturing service meet in one place only, the field `extClient` of the
  single `SCEPExt`, which has no lock (`deviceService.mtx` is never used).
- `PostSetConfig` -> `StartClient` -> the SCEP extension, found through Consul.
- `PostGetCRT` -> `GetCertificate` -> the EST authority (`estclient.Enroll`), then
  the device manager (`http.Post`).
- Every request of both services passes the CORS wrapper, the router, the decoder,
  the token parser with `Kf` (a request to Keycloak), the counters, the service and
  the encoder, in this order. `Health` has no token parser.
- The enroller service hands its three operations on to instances of the Lamassu
  enroller. One Consul instancer feeds three endpointers, one for each operation.
- The two paths share nothing: `GetCertificate` does not use the client that
  `PostSetConfig` set up.
- The end of the process cuts all requests off: `main` returns after the first
  signal or listening error and does not shut the HTTP server down.

What is hard, by part:

- *Configuration*: the unlocked two-word field; the test and the assignment are
  apart; a deadline that answers while the remote side may still act; a key file
  that changes under a client that does not; panics in handlers.
- *Enrolment*: a chain of two remote effects, neither with a deadline, each of
  which may happen without its answer arriving; a private key that exists only
  in the goroutine; checks in one package on which a switch in another relies.
- *Proxy*: caches that lag behind, each filled in two steps from a file that may
  change between them, one attempt per call, panics outside any handler.
- *Lifecycle*: registered before listening, unbuffered channels, registration
  identifiers that collide.
- *Authentication*: one more remote call in each request, without a timeout.

What makes each part correct:

- *Configuration*: a configuration only leaves over a client whose certificate
  was checked; no nil call except in the window of a concurrent store; one client
  settles; configurations are applied in the order of non-overlapping requests;
  no request stays beyond its deadline.
- *Enrolment*: at most one certificate per request; a refused request has none; no
  record without a certificate; what passes the checks can be turned into a key
  and a signature; requests do not wait for each other.
- *Proxy*: an answer delivered as success was one upstream; the three caches agree
  when all is quiet, and forget instances that are gone; an endpoint trusts what the
  CA file held when it was made; a call ends.
- *Request signing*: the request signed again names the algorithm that the library
  chose, verifies, and gives the password back.
- *Authentication and counters*: nobody gets in with a key withdrawn before; a
  request waits for nobody but the remote services; every call is counted once.
- *Lifecycle*: what Consul holds about an instance is gone once the instance has
  left in order; a serving instance is known to Consul, unless another one with
  the same identifier took its place; a request to stop is not lost in a channel.

## 2. Modules

| module | what it is |
|---|---|
| `ServiceErrors` | the error values of the manufacturing service and `codeFrom` |
| `ConfigLog` | abstract: what is promised about the configurations that the SCEP extension gets |
| `SetConfig` | `PostSetConfig` and `StartClient` with their concurrency; implements `ConfigLog` |
| `MCSetConfig` | constants of `SetConfig` for TLC |
| `SetConfigProofs` | theorems about `SetConfig`, with the refinement |
| `CertLedger` | abstract: what is promised about certificates |
| `Enrolment` | `PostGetCRT` and `GetCertificate`; implements `CertLedger` |
| `MCEnrolment` | constants of `Enrolment` for TLC |
| `EnrolmentProofs` | theorems about `Enrolment`, with the refinement |
| `Lifecycle` | `main` of both services and their registration with Consul |
| `LifecycleProofs` | theorems about `Lifecycle` |
| `Endpointers` | the Consul instancer and the endpoint caches, one for each operation |
| `EnrollerProxy` | the proxied operations, composed with `Endpointers`, which it implements |
| `MCEnrollerProxy` | constants of `EnrollerProxy` for TLC |
| `EnrollerProxyProofs` | theorems about both |
| `RequestPipeline` | what happens to a request before and after the service method, in both services |
| `RequestPipelineProofs` | theorems about `RequestPipeline` |
| `CSRSigning` | `crypto/x509util` |
| `MCCSRSigning` | constants of `CSRSigning` for TLC: all keys and algorithms |
| `CSRSigningProofs` | theorems about `CSRSigning` |

Each definition whose comment begins "Fault variant" is a plausible mistake in
the definition it is named after. It is not part of any specification; replacing
the definition by it makes one property fail, which shows that the property says
something about that code.

### SetConfig

One record per request is spread over `pc`, `crt` (its certificate), `authKey`
(the key it was checked against), `used` (the client its configuration was sent
through) and `reply`. Shared: `keyFile`; `tab` and `data`, the type word and the
data word of `extClient`; `instancers`. `extLog` is the order in which the SCEP
extension applied configurations. `okBefore` is a history variable.

| action | code |
|---|---|
| `Validate` (`Refuse`, `Admit`) | `PostSetConfig`, service.go 62-77: the file is read, the PEM block and the pair are checked, in this order |
| `CheckClient` | `if s.extClient == nil`, extension.go 113 |
| `CreateClient` (`...Fails`, `...Succeeds`) | `createClient`, 72-110; a failure of `NewSD` leaves its instancer running |
| `StoreTab`, `StoreData` | `s.extClient = extClient`, 118 |
| `Call` (`CallPanics`, `CallSends`) | 120-122; the field is read again |
| `CallReturns`, `CallFails`, `DeadlineExpires` | 122-128 |
| `RemoteApplies` | the SCEP extension, external |
| `RotateKeyFile`, `Restart` | the operator; the end of the process |

The assignment to an interface field without a lock is a data race, so its
outcomes are those of the build: the amd64 binary in `build/` tests the type word
only, stores the type word and then the data word, and loads both for the call.
The dynamic type is always the same pointer type, so a mixed value cannot arise,
but a type word without its data word can; the call then dereferences nil, which
net/http recovers in the handler. The stores of one amd64 processor become
visible in their order, so the interleaving of single loads and stores covers
what another goroutine can see.

The configuration is sent at most once: the extension client retries with
`lb.Retry(1, ...)`. That timeout (500 ms) and the ten seconds of `StartClient` end
the wait in the same way; `DeadlineExpires` stands for both. A cancelled context
of the HTTP request is one of the causes of `CallFails`.

`ConfigLog` has no client, no key and no stages: only what became of each request
and the log of the extension. A configuration takes effect in one step, which
lies between the arrival of its request and its acceptance; a refused one never
does, and one that failed or was lost may still do so. The mapping is
`Outcome`, with `extLog` for the log. `RemoteApplies` is the step at which a
configuration takes effect; `Restart`, and a panic in a handler, are the step
that loses requests; everything between `Validate` and the answer is a stutter.

### Enrolment

`req` is what each request carries: algorithm, size, and whether it has a CN; the
other subject fields are copied and decide nothing. `csr` is the key and the
signature algorithm that were made for it. `issued`, `posted`, `recorded` and
`rejected` are sets of requests: what the authority has issued, what was posted
to the device manager, what that recorded or turned down.

| action | code |
|---|---|
| `Validate` | `checkKeyAlg`, `checkKeySize`, CN, service.go 84-97 |
| `MakeRequest` | `GetCertificate` up to `Enroll`, extension.go 131-160 |
| `EnrollReturns`, `EnrollFails` | 166-179 and service.go 99-122 |
| `PostReturns`, `PostFails` | service.go 122-128; the status is ignored |
| `CAIssues`, `DeviceManagerRecords`, `DeviceManagerRejects` | external |
| `Restart` | the end of the process |

The remote services act at any time after they were asked, also when the request
has been answered with an error or the process is gone. Marshalling the key
(service.go 104-113) cannot fail for the keys that `makeKey` makes and is part of
`EnrollReturns`. A failing key generator is covered by `MakeFails`.

`CertLedger` keeps only what became of each request, for which a certificate was
issued, and which of them the device manager recorded. The mapping is the
operator `Outcome`; the two sets map to themselves.

### Lifecycle

`main` is where each instance (one run of the program) is or how it ended;
`signals` and `listener` are its two goroutines; `id` is the identifier it drew,
`reg` and `dereg` how far its two calls to Consul have come, `registry` whose
registration each identifier holds.

| action | code (line numbers of `cmd/manufacturing/main.go`) |
|---|---|
| `Register`, `RegisterReturns`, `RegisterFails` | 88-112 and `Register` of consul.go |
| `Notify`, `Receive`, `SignalArrives`, `SignalKills` | 101-105; a signal before `Notify` has its default effect, one that nobody receives is dropped |
| `Listens`, `ListenFails` | 107-110 |
| `StopOnSignal`, `StopOnError` (`MainReceives`) | 112-113: `errs` is unbuffered and read once |
| `DeregisterReturns`, `DeregisterFails` | 113-119 |
| `ConsulRegisters`, `ConsulDeregisters` | Consul, external; also after the caller has given up or is gone |
| `Kill` | SIGKILL or a panic outside the HTTP handlers |

`rand.Intn(100)` is not seeded, and `go.mod` asks for Go 1.15, where the sequence of
an unseeded generator is the same in every process: all instances of a service
draw the same identifier. The model lets them draw any, which includes that. One
rolling update then suffices for the old instance's `Deregister` to remove the
entry of the new one; `ServingIsRegistered` says that nothing else can. After a
stop has begun, further signals are dropped, and `Deregister` has no timeout: only
SIGKILL ends an instance whose Consul does not answer.

### Endpointers and EnrollerProxy

`event` is what the instancer broadcast last, a list of instances or `Failed`;
`pending` are the endpointers that have not taken it yet, `inbox` is what each one
is applying. `cache` gives for each instance the CA that its endpoint trusts, or
`Nothing`, and `made` the same for the endpoints made for the update under way.
`caFile` is what the CA file holds, and `seen` is a history variable: what it has held
since each endpointer took its event.

| action | code |
|---|---|
| `RegisterEndpointer` | each `sd.NewEndpointer` of `ProxyingMiddleware`, proxying.go 48-70 |
| `QueryReturns`, `Deliver` | go-kit's instancer, external: one goroutine, unbuffered channels, so a query waits until all have taken the last event |
| `IgnoreFailure`, `SwapCache` | go-kit's endpoint cache without `InvalidateOnError`, external: errors leave it as it is; a list replaces it when there is an endpoint for every instance |
| `MakeEndpoint`, `FactoryPanics` | the factories with `makeProxyClient`, 128-223: the CA file is read for each new instance; `url.Parse` (`Unparsable`) or the file fails and the factory panics |
| `ChangeCAFile` | the operator; also between the reading and the replacement |
| `Begin`, `NoEndpoint`, `Send` | `lb.Retry(1, 500 ms, ...)` over the balancer |
| `Decode` | the three decoders of transport.go; none looks at the status |
| `SendFails`, `Timeout` | the attempt fails, the 500 ms are over |
| `Return` | the service methods, proxying.go 85-126: `GetCSRs` turns an error into an empty list |
| `ProcessEnds`, `AbortCalls` | a factory's panic is in the endpointer's goroutine, outside any handler, so it ends the process |

The address of an endpoint is the one that Consul lists. The order in which the
round robin picks, and that of the new instances in an update, are left open. The
cache is locked from the first call of a factory to the replacement (`Locked`); a
call that needs an endpoint waits for it, at most until its 500 ms are over.

### RequestPipeline

One action per stage: `Preflight` (`accessControl` of main.go), `NoRoute` and `Route`
(`MakeHTTPHandler`; what is unrouted gets 404, 405 for a path by another method, or
301 for a path that is not clean or is `/v1`, from `ServeMux` or gorilla/mux), `DecodeFails` and `Decode`, `RefuseToken`, then `Kf` in two steps
with the fetch between them (`NoCA`, `Fetch`, `KeycloakAnswers`, `FetchFails`),
`KeyPanics` (`ParsePublicKey`), `Reject`, `Accept`, and `Serve`, which is the service
method with its middlewares and the encoding of its answer or error. What a
method may return is `Outcomes`; how it comes to that is the matter of the other
modules. Both services have the same stages, so one module with the routes of
both stands for either. `Publish` is Keycloak, or who answers in its place.

The token is abstracted to the key that it was signed with: that its method is
RS256, its time and its signature are all that the code looks at. It is decoded
and, for a wrong method, refused before the key is fetched; its time is checked
after that. A panic drops the connection; `pc` is then `aborted`. The deferred
function of the counters runs all the same, with `err` still nil.

### CSRSigning

A request is its attributes, the identifier of the algorithm it names, and how,
with which hash and over which attributes it was really signed. So
`CheckSignature` is a comparison. `signatureAlgorithmDetails`, `rsaPSSParameters` and
`signingParamsForPublicKey` are the functions of the same names; the standard
library, which is external, has definitions of its own, with `Std` in their names.
An ECDSA key is named by its curve, and attributes of a template are either
passwords of another type or "other".
That is the reference the code is compared with: `addChallenge` has to choose
what the library chose. A call that `addChallenge` refuses ends as `refused`
(`ChallengeFails`: no parameters for the key, or a password that is no UTF-8). The key is
any `crypto.Signer` and may fail: for the library (`StdFails`), or when it has to sign
again (`SignFails`, a call that ends as `unsigned`). The library's signature is thrown away when there is a
password; its scheme for RSA-PSS is left open because it changed between releases.

## 3. Runs

| run | configuration | shows |
|---|---|---|
| `setconfig_race` | `SetConfigRace.cfg` | `MatchedPairOnly`, `TornReadNeedsConcurrentStore`, `ClientSettles`, `RealTimeOrder` and `LogSpec` for three requests |
| `setconfig_live` | `SetConfigLive.cfg` | `EveryConfigAnswered` for two requests under `FairSpec` |
| `setconfig_own_key` | `SetConfigOwnKey.cfg` | a disagreement with the README, see section 6 |
| `enrolment` | `Enrolment.cfg` | all properties of `Enrolment`, with `LedgerSpec` and liveness |
| `enrolment_status` | `EnrolmentStatus.cfg` | a disagreement with a comment, section 6 |
| `enrolment_partial` | `EnrolmentPartial.cfg` | a disagreement with a test, section 6 |
| `lifecycle` | `Lifecycle.cfg` | `LeavesNoEntry`, `ServingIsRegistered` and `StopIsHeeded` for two instances under `FairSpec` |
| `enroller_proxy` | `EnrollerProxy.cfg` | `SuccessIsUpstreams` and `EveryCallAnswered` for a call over the three endpointers |
| `endpointers` | `Endpointers.cfg` | `QuietCachesAgree`, `EndpointsTrustTheFile` and `DroppedInstancesLeave` for two endpointers under `FairDiscoverySpec` |
| `request_pipeline` | `RequestPipeline.cfg` | `ServedWasAuthorised`, `CountersAreExact`, `WaitsOnlyForRemote`, `HealthIsAnswered` for two requests |
| `csr_signing` | `CSRSigning.cfg` | `NamesTheSameAlgorithm`, `VerifiesUnlessPSS`, `PasswordReadBack`, `ChallengeRefusals` for all keys and algorithms |
| `csr_signing_pss` | `CSRSigningPSS.cfg` | a disagreement with a test, section 6 |

*Bounds.* Requests are one-shot, so every state space is finite without a cap on
counters; the bounds are the sets. Three configuration requests are what the
race needs: one that stores, one that has created a client and lost, and one that
arrives afterwards. Two keys with a certificate each and an unreadable file give
every result of the check and a rotation; the file may change, and the process
restart, any number of times. For enrolments, which share no state, two requests
show their independence; their contents are the 24 combinations of the two
algorithms that are admitted and one that is not, sizes on both sides of every
check (256 and 384 are curves, 2048 is an RSA size, 521 neither), and a CN or none.
`setconfig_race` uses the symmetry of the requests, which is sound as none of its
properties is a liveness property; the runs with liveness use none. Two instances
with two identifiers collide or not, and the second may replace the first; that a
third owner changes nothing is left to the proof. An instance's goroutines meet
only its own `main`.

`enroller_proxy` has one instance and one call. Calls read the caches and change
nothing that another call reads. All operations and all answers occur, with three
endpointers that lag behind each other; the CA file, Consul and the process fail any
number of times.

`endpointers` has two endpointers, so that one can be behind the other, an instance
that can be listed, dropped and listed again, and one whose address is no URL. Two
contents of the CA file and an unreadable one let it change, and change back, at
any point of an update, any number of times. Several new instances in one list, with
different CAs, and any number of endpointers are left to the proofs of
`CachesAgree` and `PoolsFromTheFile`.

`request_pipeline` has one route of each kind: preflight, the three that are not
routed, without token, without errors, and with all outcomes. Two requests suffice for one's fetch to be
of use or in the way to the other, two keys for one to be withdrawn.

`csr_signing` is exhaustive in keys (RSA, the four curves, Ed25519, and two that
the library does not know) and in algorithms; the three templates have no
attributes, one that is no password, and a password whose value is no string: a
template's attributes are sets of sequences, so it cannot hold one that is. That
no other list of attributes makes a difference is proved.

*Fairness.* Weak fairness on the steps that a goroutine takes by itself, and on
the timer of `context.WithDeadline`. None on `RemoteApplies`, `CallReturns`,
`CallFails`, `CAIssues`, `EnrollReturns` and the like: nothing bounds a remote
service. None on `CreateClient`: go-kit's `NewInstancer` asks Consul for the
instances before it returns, and the deadline is set only afterwards. So
`EveryConfigAnswered` says that `createClient` is the only place where an arrived
configuration request can stay, and `EveryRequestAnswered` that the two remote
calls are the only places for an enrolment, however many others are stuck there.

In `Lifecycle` the goroutines of an instance are fair, Consul and those who send
signals are not: `StopIsHeeded` ends with `main` on its way to `Deregister`.

In `Endpointers` and `EnrollerProxy` the endpointers' goroutines and the timer of `lb.Retry` are fair,
Consul's answers and those of the enroller are not. `DroppedInstancesLeave` therefore
speaks of lists that the instancer has received, and lets the instance be listed
again. In `RequestPipeline` a request's goroutine is fair but for the answer of
Keycloak and for the service's own method, except that of `Health`, which calls
nobody.

*Deadlock* is checked for `SetConfig`, `Enrolment`, `Endpointers` and `EnrollerProxy`, where the
process may always restart. It is not for the others: instances, requests and
calls of `CSRSigning` run once, so the system stops when all have ended.

## 4. Proofs

All theorems hold for any set of requests (finite or not, but for `CountsEveryCall`),
calls, instances, keys, certificates and inputs, under the named assumptions only:
`NothingAssumption` (the values for "none" are none of the others), `KeyOfAssumption`
(each certificate has one key), `InputsAssumption` (the type of the contents), and
the assumptions named below.

`SetConfigProofs`

- `TypeCorrect`: `TypeOK`, inductive as it stands.
- `ClientInvariant`: a request that calls, or is about to store the data word, has
  `tab`; `tab` without `data` has a request between its two stores. Inductive
  together with `TypeOK`. `TornReadOnly` follows for the one step that can end in
  the panic.
- `PairInvariant` strengthens `MatchedPairOnly`: not only the clients in use but
  the one in force and those being made belong to requests that were checked,
  and those requests' certificates no longer change. The last part is what makes
  it inductive: `Validate` and `Arrive` write `authKey` and `crt`, and must not touch
  a request that owns a client. From it, `OnlyMatchedPairs`.
- `LogInvariant`: a request is in the log only if it was sent, is accepted only if
  it is in the log, and `okBefore` holds accepted requests. `LogInRealTime` is
  inductive relative to it.
- `ClientStays`: the action property `ClientSettles`, from the types alone.
- `ImplementsLog`: `Spec => LogSpec`. `GotoKeepsOutcomes` and `AnswerSettles` compute
  the mapped outcome after a step; then each action is one of `ConfigLog` or a
  stutter. Besides `LogInv` it needs `SentInv` (`SentInvariant`): what a request has
  sent it waits for or has waited for, and a refused request has sent nothing.
  Without it the extension could apply a refused configuration later.
- `LogKeepsPromises`: `LogAgrees` is an invariant of `ConfigLog`, so of the service.
- `OwnKeyWithoutRotation`: `SentWithTheFilesKey`, which is violated in general
  (section 6), holds when `RotateKeyFile` is left out. `FileInv`: whoever was checked,
  was checked against the present content of the file; that includes the owner of
  the client, by `PairInv`. So neither the race nor a restart breaks the promise.

`EnrolmentProofs`

- `CheckedInputHasKey` is the lemma on the pure operators: whatever `InputError`
  admits, `makeKey` has a case for and the signature algorithm fits. `KeyInvariant`
  carries it over the state; `CheckedKeysFit` is the property.
- `StageInvariant` says what each stage has left behind. It gives
  `RefusalLeavesNothing` (with `BadRequestIsClientError` on `codeFrom`),
  `RecordsAreOfIssued` and `DeliveredAnnounced`. The part needed for induction is
  that a request without a CSR has no certificate and that a refused one has no
  CSR: the authority may act late, so it is not enough that it has not acted yet.
- `ImplementsLedger`: `Spec => LedgerSpec`. `AnswerSettles` and `GotoKeepsOutcomes`
  compute the mapped outcome after a step; each action is then one action of
  `CertLedger` or a stutter, under `StageInv`.
- `OnlyLostAnswersLose` delimits the disagreement `CertificateIsReturned` of section 6:
  a request that was answered, but without the certificate issued for it, has
  `errEnroll` or `errPost`, an answer of a remote service that did not come.

`LifecycleProofs` assumes `NobodyAssumption` (the value for "nobody" is no instance and
no identifier).

- `TypeCorrect`, then `RegistryInvariant`, the inductive invariant `LifeInv` in two
  parts. `CallsFollowMain`: where `main` is says which of its calls must have been
  applied. `RegistryFollowsCalls`: an entry belongs to an instance that drew the
  identifier, whose registration is applied and whose deregistration is not; and
  an instance with such calls has its entry unless `LostToTwin`. The second part is
  about all instances, ended ones too: their late calls still count.
- `OrderlyExitLeavesNothing` and `LostToTwinsOnly` follow without another induction.

`EnrollerProxyProofs` assumes `EventsAssumption` (a list is no failure and no empty
inbox), `CAsAssumption` (no content of the file is "unreadable") and `OpsAssumption` (the
three operations).

- `DiscoveryTypes`, then `CachesAgree` and `PoolsFromTheFile`, are about `Endpointers` alone.
  `CaughtUp` is the inductive invariant: an endpointer that has taken the last event
  is applying it or has its instances in its cache. `QuietCachesAgree` alone is not
  inductive: it says nothing while an event is under way. `SwappedIn` computes the
  instances of a cache that was replaced.
- `PoolsFromTheFile`: `EndpointsTrustTheFile`, a statement about the step that replaces the
  cache, needs what the earlier steps have left in `made`. `PoolsSeen` says that: the
  history holds the file's present content, with it every CA of an endpoint made so
  far, and an endpointer that is idle, or applies a failure, has made none.
- `ImplementsDiscovery`: `Spec => DiscoverySpec`, the mapping being the identity. A call
  changes nothing there, and the end of the process is the same step in both.
  `ProxyCachesAgree` carries the two results over.
- `ProxyInvariant`: a call has its operation from the start, an answer of an instance
  fits it, and a reply is its end. With that `SuccessIsUpstreams` is inductive:
  operation and answer no longer change once there is a reply. `TypeCorrect` and
  `OnlyUpstreamsSuccess` follow; `ReturnKeeps` is the lemma for all steps that end a call.

`RequestPipelineProofs` assumes `KeysAssumption` (a key is none of the values for bad
tokens and bad answers), and for the counters that requests are finitely many.

- `AuthInv` follows a key from Keycloak to the service: what is published now has been
  seen by every request on its way, so what Keycloak answers has been seen too, and
  a token that it accepts is a key. `ServedAuthorised` is its last part.
- `CountInv` adds that a request that has not ended has no status and no result.
  `NotCounted` says that a step which ends no call leaves the counted sets alone,
  `CountedOnce` that one which ends a call adds one request to one of them. From it,
  `CountsEveryCall`.

`CSRSigningProofs` assumes `KeysAssumption` (`"ECDSA"` is no key), `ChallengesAssumption` (the
names for no password and for one that cannot be encoded are no passwords) and
`TemplatesAssumption` (the type of a template's attributes). Keys, algorithms and
templates may be any others than those of the run, keys and algorithms that do
not exist included.

- `SameParams` is the lemma everything rests on: for whatever the library can sign,
  `signingParamsForPublicKey` gives the hash, the identifier and the parameters that
  the library chose (`StdParams`), and nothing for Ed25519. `RowsAreFirst` reads the
  table, where SHA-1 with RSA has two rows; `NamedRSA`, `NamedECDSA` and `Default` are the
  three ways to the result.
- `ReadBack` and `NothingToRead` say what `ParsedPassword` finds in a template's
  attributes, for lists of any length, with and without the password behind them.
- `CallInvariant`: `CallInv` says of each stage of a call what it has made, as a
  function of the arguments and of `StdParams`. It is needed because the properties
  compare `csr` with `std`, and the attributes of both with the template: none of
  them says how the other came about.
- From it `TypeCorrect`, `SameName`, `PasswordIsRead`, `RefusesOnlyEd25519` and `Verifies`.
  `RefusesOnlyEd25519` is about the refusals of `addChallenge` itself; that the key fails
  to sign a second time is another end of a call, `SignFails`.
  `PSSNeverVerifies` is the converse of the last: the exceptions in `VerifiesUnlessPSS`
  are exactly the requests that do not verify, so the violation of section 6 is
  about all requests for RSA-PSS and no others.

The inductive invariants were checked with TLC, on the instances of the runs,
before they were proved.

Every safety property that a passing run checks has a theorem. Only
model-checked are the liveness properties `EveryConfigAnswered`, `EveryRequestAnswered`,
`StopIsHeeded`, `EveryCallAnswered`, `DroppedInstancesLeave`, `WaitsOnlyForRemote` and
`HealthIsAnswered`, because the prover has no rules for `ENABLED`, on which fairness
rests. The properties of the runs that show disagreements are false and have no
theorem; some of the theorems above say how far they are from being true.

## 5. Not modelled, and the plan

Left to do:

- `Manufacturing`: `SetConfig`, `Enrolment` and `RequestPipeline` composed in one process
  whose end is that of `Lifecycle`. Each of them has the end of the process already,
  and they share no other state, so what it would add are statements about several
  of them.

Left out for good: `/metrics`, and what net/http answers to a request that it hands to
no handler (one that is malformed or too large, or for `*`); log lines and timings (no
state that another part reads), the
environment variables (read once, before everything that is modelled), headers,
the DER, PEM and JSON encodings (data), failures of the random source but for
`MakeFails`, the Docker and Kubernetes files. `pkg/manufacturing/auth` is a copy of
`pkg/enroller/auth`, which both services import; the two `discovery` packages differ
in the names they register.

Noted and not stated as properties, because no document says otherwise: `ca_name` of
a request is replaced by an empty string in the endpoint and in both middlewares;
the serial number posted to the device manager is constant; EC keys are returned
in a PEM block of type `RSA PRIVATE KEY`; the unit test of `PostGetCRT` calls it with
one argument less than it has. README.md line 17 of the repository says that
enrolments are authenticated by a mTLS connection with the SCEP proxy, but
`GetCertificate` does not use the client that `PostSetConfig` sets up. Line 49 calls
`ENROLLER_PROXYADDRESS` the address of the enroller, but the factories do not use
it: instances come from Consul alone. The help text of `request_count` is "Number of
requests received." (`cmd/enroller/main.go` 65), but requests that are refused
before the service method are not counted. Each request to Keycloak is made by a
transport of its own whose answer is never closed (auth.go 94), so its connection
stays. A password cannot be put into a request for an Ed25519 key. The proxy does not
look at the status of an upstream answer: an error of the Lamassu enroller is decoded
as a result and delivered with status 200. An endpoint keeps the CA it was made with
while its instance stays listed: a new content of `ENROLLER_PROXYCA` reaches only
instances that appear later.

## 6. Disagreements found

- `SentWithTheFilesKey`: the README (line 73) says that the key of
  `MANUFACTURING_AUTHKEYFILE` is used to establish mTLS with the SCEP proxy. The client
  is created once; after the file has been replaced, requests are checked against
  the new key and sent with the old one, and answered without error.
- `ClientErrorsAreBadRequests`: `errUnsupportedECSize` is declared under "Client errors"
  (service.go 45-52) and missing from `codeFrom` (transport.go 113): status 500.
- `CertificateIsReturned`: `TestPostGetCRT` (service_test.go 88) expects no error when
  the client returns a certificate. `PostGetCRT` also needs an answer of the device
  manager; without one, certificate and private key are lost.
- `EveryRequestVerifies`: the test of `x509util` checks the signature of a request with a
  password. With an algorithm for RSA-PSS the request names PSS, is signed with
  PKCS #1 v1.5 and does not verify.
