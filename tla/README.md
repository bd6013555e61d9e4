# GBO-demo in TLA+

A verification development kept beside [ICTU/GBO-demo](../src), the reference
demo of GBO (Gemeenschappelijke Bronontsluiting): TLA+ modules that model the
program logic of the services and of the policy, TLC configurations that check
them on small instances, and TLAPS proofs of what matters most for every
instance. File references are to the repository at the modelled commit; paths
without a directory are explained in the section of their module.

    tlc -workers 2 -config SourceOnboarding.cfg MCSourceOnboarding
    tlapm SourceOnboardingProofs.tla
    tlapm AsiAuthorizationProofs.tla
    tlapm CertificateFilesProofs.tla
    tlapm ReleaseRuntimeProofs.tla
    tlapm ConsentChainProofs.tla
    tlapm SubjectValuesProofs.tla
    tlapm QtspWebProofs.tla
    tlapm LdvOutboxProofs.tla

`PROJECT.json` lists every run with its module and configuration, maps each
definition to the lines it models, and names for each property a plausible
mistake in the code that makes it fail.

## 1. The system

Data of a citizen goes from a source to a party, over FSC, after a policy has
judged the request. It is asked for in three ways: with a consent (DvTP), for
issuance to a wallet (EUDI), and by a trust service provider that verifies an
attribute (ASI, ETSI TS 119 478). Every processing is recorded in a Logboek
Dataverwerkingen (LDV).

| Component | State it keeps | Operations | Hard behaviour |
|---|---|---|---|
| **Source onboarding**: reconciler (`eudi-adapter reconcile-sources`) and Source Registry (`services/source-registry`) | candidates, statuses, immutable releases with lifecycle columns, the active pointer (PostgreSQL) | reconcile cycle, promote, activate-release (rollback) | crash between statements, failed writes, an operator or a second reconciler in between, freshness and stale grace |
| **Release runtime** (`eudi-adapter/source_release_runtime.go`) | one in-memory snapshot, single-flight flag, last error, due time | request, refresh, lifecycle renewal | refreshes racing requests, the pointer moving between two reads, invalid releases |
| **Issuance** (`eudi-adapter/main.go` and the files it calls) | adapter: the snapshot; issuance server: its configuration | read a contract and a document, compile, offer, extract, ask, map, sign | adapter and issuance server on different releases, contracts that go, answers of every shape |
| **Development certificates** (`eudi-adapter/development_ca_provider.go`) | key and certificate files, public copies | provision, project, read for a release, read by a pod | no lock over several files, a command stopped anywhere |
| **LDV spool** (`services/ldv-client`) | append-only file, cursor file | append, deliver | torn lines, crash between post and cursor, power cut, refused records |
| **Logbook** (`services/ldv-logboek`) | SQLite table keyed by (trace, span) | write, read extension | replays against conflicts, read limit |
| **Consent register** (`services/consent-register`) | consents, polymorphic pairs, outbox (PostgreSQL, one database) | create, get, list, revoke, status, keep pair, deliver outbox | atomic record and row, commit order against id order, crash, lost answers |
| **Consent portal** (`services/consent-portal-backend`) | cached BSN authorisation list | give, list and revoke consent | sequences of calls that each can fail; two first consents at once; a copy that is out of age |
| **BSNk** (`services/bsnk-mock`) and the sources' keys (`services/bron-sidecar`) | authorisation list; key files, keys loaded at start | activate, transform, issue keys, decrypt | key set versions that overlap, lists that change while a consent is given |
| **Consent PIP and rules** (`policies/gbo`, `policies/fsc`) | cached JWKS, the pulled register | resolve a consent, judge a field list, admit a contract | revocation during an evaluation; clock skew; which rule a field falls under |
| **FTV GraphQL mapper and PDP image** (`services/ftv-graphql-mapper`, `services/openftv-pdp/mapper`) | none | map a request to its field list | fragments, aliases, directives, defaults, limits, schema drift |
| **bron-sidecar** and **mock sources** (`services/*-graphql-server`) | none; test data; a spool | fill the placeholder, forward, resolve, record | what was judged is what runs; no answer without its records |
| **DvTP onboarding register** (`services/dvtp-onboarding-register`) | participants (SQLite), configured system parties and integrations | admit, change, toggle, feed; restart | a withdrawn mandate that the PDP still has |
| **ASI authorization server** (`services/asi-authorization-server`) | transactions, one-use codes, replay caches, registered clients (memory, a mutex each) | authorize, log in with DigiD or the wallet, deny, token, register, recheck | handlers that wait on the verifier between looking at a transaction and taking it, lifetimes, replays, an entitlement withdrawn at any moment |
| **ASI provider** (`services/asi-provider`) and **ASI mapping** (`services/asi-mapping`) | cached keys, replay cache, source descriptions | verify, retrieve | key rotation, descriptions following the active release, a question that is merged and an answer that is taken apart |
| **Reference QTSP** (`services/qtsp-reference`) | logins, sessions, requests, registration, results with timers | log in, start, return, offer, issue | one-shot returns, timers racing claims, two logins in one browser |
| **Consumer backend** (`services/dienstverlener-backend`) | a spool | put a question to a source under a consent, record it, hand out the answer | an answer that is lost or cannot be recorded; a question the policy would refuse though the citizen consented |
| **discovery stub, developer portal, frontends, infrastructure** | traces for display | - | outside the core |

How they interact:

- the reconciler writes the Source Registry; the release runtime, the ASI
  provider and the issuance server only read it, each at its own moments;
- a request of any of the three ways passes the Inway of the source, which asks
  the PDP: mapper, then rules, then (with a consent) the status of the consent
  at the register; only what was allowed reaches the sidecar and the source;
- the PDP pulls the onboarding register; operators change it at any time;
- portal, register and BSNk talk HTTP over FSC; the portal keeps no consents;
- whoever processes data writes an LDV record, first to something durable of
  its own (a spool file, or the outbox table in the register's database), from
  where a delivery loop posts it to a logbook.

What makes each part correct, in one line: releases are whole, made by one
cycle, never lower a version, and a rollback stays; the runtime serves one
consistent release, never goes back, and arrives at the active one; a
credential fits the metadata it pins; certificates fit keys; a record called
safe reaches the logbook; a consent and its record exist together and a
revocation bites on the next request; the source runs what the policy judged
and nothing else, about nobody but the consent's citizen; an authorization
request is answered once, with a login made for it, and yields one token for
the client that asked; an answer is what the description says of the record;
an attestation goes to the citizen who asked.

## 2. Modules

| Module | Models | Kind |
|---|---|---|
| `SourceOnboarding` | reconcile cycle, registry, operator | state machine |
| `ReleaseRuntime` | requests and refresh of the adapter | state machine, liveness |
| `SimpleProfile` | mapping profile, generated type metadata, checks on claims | pure |
| `SourceDocument` | source configuration, contract choice, what a document must have; extends `SimpleProfile` | pure |
| `EudiIssuance` | publish, compile, promote, serve, ask, issue; extends `SourceDocument` | composition |
| `CertificateFiles` | provisioning command, reconciler and pod on the same files | state machine, liveness |
| `LoggingPromise` | what LDV asks of any producer | abstract specification |
| `LdvOutbox` | the file spool and the logbook's write side; implements `LoggingPromise` | state machine, refinement |
| `ConsentChain` | portal, register with outbox, PDP; implements `LoggingPromise` | composition, refinement |
| `SubjectValues` | BSNk, the portal's copy of its list, the sources' keys | state machine |
| `GraphqlMapper` | a request to its field list | pure |
| `RuleCascade` | rules, reasons, decision, admission of contracts; extends `GraphqlMapper` | pure |
| `Sources` | schemas, resolvers and records of the three sources; extends `GraphqlMapper` | pure |
| `Consumer` | the questions of the consumer backend and what it hands out; extends `RuleCascade`, `Sources` | pure |
| `AdmissionRegister` | the onboarding register and the PDP's copy | state machine |
| `RequestPath` | one request through all of the five above, and the sidecar | composition |
| `AuthorizationPromise` | what an authorization server owes the user | abstract specification |
| `AsiAuthorization` | the ASI authorization server; implements `AuthorizationPromise` | state machine, refinement |
| `AsiMapping` | plan of a question, values from an answer, comparison | pure |
| `AsiProvider` | the ASIP between registry, authorization server and source; extends `AsiMapping` | state machine |
| `QtspClient`, `QtspIssuance` | registration; the store of results and its timers | state machine parts |
| `QtspWeb` | the web side of the QTSP over both | composition |
| `MC...` | values of the constants for TLC | instances |
| `SourceOnboardingProofs`, `AsiAuthorizationProofs`, `CertificateFilesProofs`, `ReleaseRuntimeProofs`, `ConsentChainProofs`, `SubjectValuesProofs`, `QtspWebProofs`, `LdvOutboxProofs` | theorems | TLAPS |

Every state machine has a `TypeOK` (in a module that shares its proof module
with another one under a name of its own, such as `ProviderTypeOK`). All but
`RequestPath`'s are proved, and none belongs to a run; the runs are spent on
the other properties.

### SourceOnboarding

Code: `services/source-registry/onboarding/{service,registry}.go`,
`services/source-registry/postgresregistry/store.go` and, in
`services/eudi-adapter`, `source_registry_backend.go`,
`source_metadata_cache.go`, `reconcile_command.go`,
`source_registry_command.go`.

Each table is a variable (`candidate`, `status`, `stored`, `active`); `cycle`
holds the local variables and the program counter of each reconciler; `pin`
remembers whether the active release was chosen by an operator, and the history
field `lost` of a cycle which sources' last status write it lost. One database
statement or transaction is one action: `Prepare` (certificates and pending
status), `Contracts`, `FetchDocument`/`FetchNotModified`/`FetchFails`,
`ActivateCheck`/`RefreshCheck` (read and compare), `PutCandidate`, `Settle`,
`Report`, then `Conclude`, `Require`, `Gather` (one candidate at a time),
`Promote` and `Mark` (one status at a time). `Crash` ends a cycle at any point.
A candidate is a document, the time of the check and whether this adapter can
decode it (a candidate left by an older schema cannot be decoded); all times
and the digest are functions of these, exactly because the digest of the code
covers the observation times. `Faults` names which failures a run lets happen.

### ReleaseRuntime

Code: `services/eudi-adapter/source_release_runtime.go`. A section under the
mutex is one step, each registry call another. `Enter` is `current`, with its
four outcomes; the refresh goroutine is `ReadState`, `Compare`, `Load`,
`Finish`, where the registry may change in between. Times are counted down, so
no clock is needed. `epoch` and `of` are history variables.

### SimpleProfile, SourceDocument, EudiIssuance

Code, in `services/eudi-adapter`: `internal/gbosimplev1/profile.go`,
`type_metadata.go`, `source_claims.go`; `source_configuration.go`,
`source_registration.go`, `source_metadata.go`, `fsc_contract_discovery.go`,
`source_reconciler_adapters.go`; `main.go`, `issuance_release.go`,
`issuance_config.go`.

The first two are functions: when a claim mapping is valid and what it makes of
an answer, which grant of which contract is used or why none is, and what a
document must contain. A JSON value is its kind, the form the profile tells
apart, and the citizen it is about. `EudiIssuance` runs them:
`Publish`, `Sign`, `Revoke` (the source), `Survey`, `Compile`/`Reregister`/
`GiveUp`, `Promote`, `Rollback` (the reconciler and operator, a whole cycle in
three steps here, in detail in `SourceOnboarding`), `AdapterRefresh`,
`PodStart`, and one request. `Extract` takes a usecase of a pod, or raw
parameters of any caller, and the BSN of a disclosed PID, and makes the
extraction record; `Refuse` answers 400 for parameters that are not offered;
`Ask` puts the plan to the source, or finds that it may not be called (main.go's
`callSource`, which no validated release makes refuse); `Answer` is the answer or
a failed call; `Record` makes the record of the assembly, whatever came of it, and
only then does `Reply` answer; then `Issue` and `EndRequest`. A log write that is
not confirmed (`Unconfirmed`) ends the request with 500. When the adapter stops
after the source was asked, the extraction record is all the logbook has. The
logbook is taken to be on. The adapter captures its snapshot at the start of a
request; the pod keeps the release it was started from until it is started again.

### CertificateFiles

Code, in `services/eudi-adapter`: `development_ca_provider.go`,
`onboarding.go`, `source_registry_backend.go`, `issuance_release.go`,
`issuance_config.go`. Each file is written and read in a step of its own. The
command is `Start`, then per role `RefusePartial`, `KeepLeaf`, `Reissue` or
`WriteKey` and `WriteCertificate`, then `Project` per role; `Crash` stops it
anywhere. The reconciler is `Survey`, two passes of `ReadPublic` (it validates,
then reads once more), `Promote`; the pod `PodStart`, `Compare`, `ReadMaterial`,
`Serve`. `disturbed` is a history variable: the command wrote meanwhile.

### LoggingPromise, LdvOutbox

Code: `services/ldv-client/{outbox,client}.go`, and
`services/ldv-logboek/internal` for the logbook that answers. A line is three
cells (two halves of JSON and the newline), which tells torn lines and
misplaced cursors from whole ones. A batch is the set of lines `undelivered`
returned, each with the offset it ends at; the first of them is the one that
ends first. Delivery is `ReadSpool`, `Post`/`Refuse`/
`PostFails`, `Advance`/`AdvanceFails`; the producer is `BeginAppend`,
`WriteCells`, `Confirm`, `AppendFails`. `Crash` keeps the page cache,
`PowerCut` keeps what was synced and any prefix of the rest. Reading the spool
is one step: what can be seen half way is in the lines, which a run can make
tearable.

`LoggingPromise` says in three actions what the spool is for. `LdvOutbox`
implements it with *promised* the records `Append` returned nil for, except
two sorts: those whose line another process could see half-written, or that
were written behind such a line (`Exposed`), and those behind a record the
logbook refuses for good. Section 6 says why each is excepted.

### ConsentChain

Code: `services/consent-register`,
`services/consent-portal-backend/consent/portal.go`,
`policies/gbo/consent.rego` and `policies/gbo/rules/dvtp`. A grant, a
revocation and an evaluation are sequences of calls (`at` says where each is).
A transaction that writes a row and its record is two actions, the insert that
takes the outbox id and the commit that makes both visible. Status is read,
recorded and answered in separate steps. `Crash` rolls open transactions back.
A pass of the delivery selects the oldest `BatchSize` entries (`Pending`) and
posts and deletes them one at a time, the `Oldest` first; the batch is the set
of those it still holds. A record the logbook does not take, for whatever reason,
is an error of `Write`: it ends the pass and stays in the outbox
(`ldv_consent.go:141-143`), which is what `DeliveryFails` does. The branch for
an entry that cannot be decoded (131-139) is not in the model: the only writer of
the table marshals an `ldv.Record` in the transaction that is modelled, so there
is no such entry.
The register implements `LoggingPromise` with offered and promised both what
committed: the record is durable in the transaction itself.

### SubjectValues

Code: `services/bsnk-mock`, `services/consent-portal-backend/consent/portal.go`
and its BSNk client, `services/bron-sidecar` (`decryption.go` and the keys it
loads). `ConsentChain`'s step "encrypt", and what comes before and after it,
seen from the values: `Begin`, `Activate`, the authorisation list from the copy
or fetched under the portal's lock (`UseCopy`, `Fetch`, `Fetched`,
`FetchFallsBack`, `FetchFails`), `Transform` in batches of `MaxRelyingParties`
and twice (identity, pseudonym), `Create`. Around it `Relist` (BSNk),
`RestartPortal` (another key set version), `RequestKeys`, `DropKeys` and
`RestartSidecar` (which keys are loaded). A value is for whom it was made, in
which form, for which version, and what its recipient reads from it.

### GraphqlMapper, RuleCascade, Sources, Consumer, AdmissionRegister, RequestPath

Code: `services/ftv-graphql-mapper`, `services/openftv-pdp/mapper`; `policies/gbo`,
`policies/fsc` and `policies/authz.rego`; `services/graphql-server`, `brp-graphql-server` and
`lvg-graphql-server` with their `ldv_query.go`; `services/dvtp-onboarding-register`;
`services/bron-sidecar`; `services/dienstverlener-backend`.

`GraphqlMapper` is the mapping function with its reasons to refuse, on trees of
selections with fragments, directives, variables and defaults, and the check for
drift, which lets a source have more types, and more fields on a type, than the
bundle, and wants everything else that the bundle names to be the same: root
types, arguments, the fields of input objects, members and enum values
(`NoDrift`). `RuleCascade`
are the five rules (`Deny`, `DenyField`), mandates, which rules a field falls
under (`PolicyIds`), the reasons in their order and the decision, and the
admission of contracts. `Sources` runs a document with the schema of the source
(which need not be the one the mapper had), and notes the subject, years,
activities and relatives that the records are about. `Consumer` builds the
query of a question from what it reads in the token (`BuildIncomeQuery` cuts the
years to the consented ones, `BuildOwnershipQuery`), and decides what of the
answer its caller gets (`ResultOf`, `DenialCode`). `AdmissionRegister` has
its own state: `Save`, `UpdateDetails`, `ToggleActive` (operators), `Deploy`
(configuration and restart, with the seed), `Pull` (feed and merge over what
the PDP has).

`RequestPath` takes them together: `Deployments` choose the schemas and
the bundle, `Sign` signs a contract if the policy admits it, and a request is
`Ask`, `Decide` (map and judge, in one evaluation), `Forward` (sidecar),
`Execute`, `LogQuery` (the source's spool), `LogForward` (the sidecar's), `Done`.
`PutQuestion` asks for the consumer backend instead, and `HandOver` makes its
own record and hands out the result, also when the call failed or its answer
was lost on the way back. Every spool may fail, and an unreachable source ends
the request (`Unreachable`). A record carries the kind of record it hangs under
as the trace context had it (`Caller`, and `under` of `Record`). The
consent is what the PIP resolved at `Decide`; how that goes with a revocation
at the same time is `ConsentChain`.

### AuthorizationPromise, AsiAuthorization

Code: `services/asi-authorization-server/internal/authorization`
(`service.go`, `identification.go`, `registration.go`, `replay.go`,
`clientauth.go`, `dpop.go`), with `internal/httpapi/handler.go` for the order
in which a page calls it, `internal/walletverifier/client.go` for the verifier
as the server uses it, and `main.go` for the recheck.

Each store is a variable: `trans` (transactionStore, with the session kept),
`codes` (codeStore), `seen` (the two replay caches), `client`
(registeredClients). What is done under one mutex is one step, and so is each
answer of the verifier or the register. `handler` is where each request of a
browser is, with the transaction and the session it holds in its local
variables: `StartSession` ... `Attach`, `OpenWalletPage` ... `LogIn` ...
`Identify` ... `Complete`, `WalletReturn` ... `Identify` ... `Complete`,
`DigidLogin` ... `Complete`; `Deny` takes the transaction at once. `request`
is the same for token requests: `Arrive` reads the time and the client, two
times `FirstUse`, then `Redeem` or `Waste`. A request that is dropped where it
changes nothing just stays where it is, or takes `TurnBack`. `Register` is
`Approve` (the register) and `Add` (the store); `RecheckEntitlements` is
`StartRecheck` (the copy), `LookUp` or `Unavailable`, and `Deactivate`.
`answers` and `tokens` are what was sent; they only grow.

`AuthorizationPromise` knows of no handlers, stores, codes or times: a wallet
discloses in a session of a request, a request is answered once and only with
a login made for it, an answer yields one token at most.

### AsiMapping, AsiProvider

Code: `services/asi-mapping` (`capability.go`, `plan.go`, `build.go`) and, in
`services/asi-provider/internal`, `accesstoken`, `asmetadata`,
`sourcedescription`, `graphqlsource`, `verification`. A request is `Receive`,
`ReadClock`, `UseKnown` or `FetchKeys`, `PresentProof` (the replay cache),
`Described` or `NotDescribed`, `Answered` or `SourceFails`, `Send`. The
description refresh is `ReadState`, `TakeLifecycle` or `LoadRelease`,
`RefreshFails`. Around them the registry (`Activate`, `Observe`), the
authorization server (`NewKey`) and `TimePasses`.

### QtspClient, QtspIssuance, QtspWeb

Code: `services/qtsp-reference/internal/{qtsp,issuance,issuancecallback,web}`.
`QtspWeb` extends the other two and adds logins, sessions, requests and the
handlers that wait for another server: `MockLogin`, `Logout`, the wallet login
(`WalletStart` ... `WalletLook` ... `WalletIdentify`), `Start` or
`CreateRequest` ... `StartRequest`, `ReturnWithCode` ... `Answered`,
`Attestation` (the issuance server's callback takes a result), `Timer`.
A timer that fired waits for the mutex and can no longer be stopped: `Fire` and
`Remove` of `QtspIssuance`.

## 3. Runs

| Run | Instance | Shows |
|---|---|---|
| `onboarding` | 2 sources (one FSC), 1 reconciler, 3 documents (two with the same version), all failures, a legacy candidate, 3 cycles | `OneCycleReleases`, `StatusActiveHonest`, `ReconcilerNeverDowngrades`, `SettledByCycle` |
| `onboarding_overlap` | 1 source, 2 reconcilers, 2 documents, every failure but lost status writes and crashes | `RollbackSurvivesReplay`, `CycleEnds` |
| `release_runtime` | 3 releases, one of them invalid, 2 concurrent requests, 3 moves of the pointer, 1 registry failure | `SnapshotWhole`, `SnapshotsAdvance`, `WaitersReturn`, `EventuallyServesActive` |
| `ldv_outbox` | 3 records, the first can tear and the second is refused, 2 crashes or power cuts, 2 failures | `ConfirmedKept`, `OrderKept`, `KeepsPromise` (refinement and liveness) |
| `consent_chain` | 2 consents of one citizen, a revocation by either of 2 citizens, an evaluation, 1 fault or crash | `RevocationBites`, `LogMatchesStore`, `GrantLoggedFirst`, `RegisterKeepsPromise` (refinement and liveness) |
| `asi_authorization` | 1 authorization request, 2 browser requests and 2 wallet sessions at a time, 2 token requests with 1 assertion, 2 clients (one configured, one that registers), 1 change in the register | `SecondUseOnlyLate`, `KeepsPromise` (refinement), `WithdrawnLosesAccess` (liveness) |
| `qtsp_session` | 2 citizens at 1 browser, 1 handler, 2 wallet sessions, 2 logins, 2 sessions, 1 API request, 2 results, 1 restart of the authorization server | `IssuedToRequester`, `WaitsItsTime`, `OwnDisclosure` |
| `asi_answer` | 2 handlers, 1 proof, 3 releases (one unreadable), an attribute of constants only, 2 keys, persons of two types | `AnswersTruthfully`, `AsksOnlyGranted`, `StaleInTime` |
| `request_path` | 3 sources, 4 kinds of caller, queries in every form, 29 questions to the consumer backend, 7 deployments of schemas, 2 register configurations, 1 contract | `RunsOnlyWhatWasJudged`, `DriftFreeReadsAlike`, `ExactlyTheConsented`, `NothingUnrecorded`, `WithdrawnOncePulled` |
| `subject_values` | 2 citizens, 2 consents, 2 sources, 2 key set versions, 2 changes by operators | `FollowsTheList`, `ValuesNameTheCitizen`, `StaysReadable` |
| `eudi_issuance` | 1 source, 4 documents, contracts of which some change, 2 releases and a rollback, 1 request at a time with every answer, log writes that fail | `IssuedAsPublished`, `AskedAsOffered`, `NothingLeavesUnrecorded` |
| `certificate_files` | 3 registrations, 2 runs of the command | `KeysFit`, `OneOrganisation`, `ReleaseCatchesUp` (liveness) |

### Why these bounds

- *onboarding*: three cycles are a first release, a second one and a replay or
  rollback; `v1` and `v1b` share a version, so going back, going forward and
  changing bytes all occur. Two sources are needed for a catalog that grows
  and for one that fails while the other succeeds. Crashes and lost status
  writes fall between any two steps of an earlier cycle, which is what
  `SettledByCycle` has the next cycle make good.
- *onboarding_overlap*: two reconcilers and one source suffice for every order
  of read, compare and put. This run leaves out crashes and lost status writes,
  only to stay small: neither of its properties is about statuses, and
  `onboarding` has both.
- *release_runtime*: a third release that cannot be built, and enough moves of
  the pointer to go there and back; one failure hits any call.
- *ldv_outbox*: three records give a first, a middle and a last line; two
  crashes allow one during recovery from another. The first line tears and the
  second is refused, so the third is behind both. `ReadLimit` is 3, so every
  record of the trace is within it.
- *consent_chain*: two consents of one citizen race on his pair; one revocation
  and one evaluation are what `RevocationBites` needs. `BatchSize` 2 makes a
  delivery pass end with entries left, and hold an entry that is older than one
  that appears later.
- *asi_authorization*: two handlers are what races on one transaction, two
  sessions are the one kept and the one it replaced, two token requests are what
  uses a code or an assertion twice. Lifetimes are 0 and the clock goes to 1: a
  step falls at or after each last moment. One change in the register is a
  withdrawal before, during or after a registration, or in a recheck. What
  takes two authorization requests or the code of another client is not in this
  instance: `PromiseKept` proves it for any number of both.
- *qtsp_session*: one browser is where two citizens can get mixed up: its
  cookies, two logins of it and a session begun under the first. One handler,
  as what races with it here is the browser's other requests, the wallets and
  the timers, which are steps of their own. Two results are a result and the
  one that replaces it.
- *asi_answer*: two handlers race on one proof and on the keys; two keys are a
  rotation; the third release cannot be read, so a description outlives it. One
  attribute is made of a constant only, and is asked alone and next to others.
- *request_path*: one request at a time, since requests share only what does not
  change while one is judged (the PDP's copy is read once per decision; register
  steps during a request commute with it). The bounds of the mapper are small
  enough for each to be hit. The source serves the bundle's schema, or one
  that drifted (a default of an argument or of an input field, a field it dropped,
  its query root under another name), or one that only grew, which is no drift:
  with the latter `DriftFreeReadsAlike` compares two different schemas. A
  question to the consumer backend names covered years, uncovered ones or both,
  under tokens in every state, with a field the rule does not cover.
- *subject_values*: with `MaxRelyingParties` 1 every transformation takes two
  batches; a copy is out of age after one tick of a clock that goes to 2.
- *eudi_issuance*: two releases let adapter and pod be on different ones, in
  either order, and a rollback go back; the documents differ in claims, type
  version and offers, and the fourth redefines the type of the first without a
  new version and has a parameter of the subject variable's name.
- *certificate_files*: a second run with a new name, or with a logo, meets files
  of the first run in every state a crash leaves.

Deadlock is not checked where the system may rest: when the bounded clock, the
records or the requests are used up.

### Fairness

- `SourceOnboarding`: a started cycle goes on; every call has a timeout and
  returns a result or an error. Starting cycles, crashes and operators are not
  fair.
- `ReleaseRuntime`: goroutines proceed, time passes, registry calls end within
  the 10-second context, and requests keep coming (nothing else makes the
  runtime look, see 6.2). No fairness on promotion or on failures.
- `LdvOutbox`: an `Append` under way goes on, the ticker of `Run` fires, and a
  container that stopped is started again (`restart:` in the compose file).
- `ConsentChain`: the ticker of `runOutbox` fires and a stopped register is
  started again. Citizens and PDPs are not fair: they may stop at any point.
- `AsiAuthorization`: a ticker starts the recheck, and one goroutine goes
  through it to the end; an approved registration is stored; and the register,
  asked at every recheck, answers for a client at some time (strong fairness of
  `LookUp`: the code leaves a client active for as long as it does not). No
  fairness on users, tokens or the register's changes.
- `CertificateFiles`: the reconciler runs again every interval. Nobody has to
  run the command or to start a pod.

Failures and crashes are bounded, so liveness says: when failures stop, the
good thing happens. The other modules state no liveness: a request there ends
with its handler, and what starts the next one is a person.

### Assumptions of the models

- `ConsentChain` models the PostgreSQL store (`DATABASE_URL` set), not the
  in-memory store of a development run.
- After a power cut the cursor file does not point past lines that are gone:
  it may be older, not newer, than the synced spool.
- All records of `LdvOutbox` share one trace, the worst case for the logbook's
  search for a replay.
- PostgreSQL's default isolation with the row locks that the statements take:
  an upsert or an update of one row is atomic and revocations of one consent
  queue.
- `AsiAuthorization`: an assertion and the DPoP proof of its request are one
  message with one last moment; each client has one entry in the register; the
  browser holds the binding of its transaction (without it nothing happens);
  the verifier gives an identity from a session closed on the same device only
  for the nonce that came with the return. The server keeps nothing on disk:
  after a restart every transaction and code is unknown, which is the initial
  state.
- `EudiIssuance`: a source answers about the citizen that the subject variable
  names (`SourceAssumption`), and a request has finitely many parameters
  (`SuppliesAssumption`). Nothing is assumed of what operators publish. A document
  may give its own subject variable as a parameter, change what a type means
  without a new version, or change the type of a parameter, as no code checks
  these; the properties say what holds then (`OwnSubject`, `Redefined`, the last
  conjunct of `AskedAsOffered`; 6.7, 6.9, 6.16).
  `SourceDocument` takes the canonical text of a parameter to stand for itself
  (`ParseAssumption`).
- `AsiProvider`: descriptions are as
  `schemas/gbo-source-metadata-v1.schema.json` has them: a `const` member reads
  no field and every other at least one (`WellDescribed`). A retrieval asks for
  whole attributes.
- `AdmissionRegister`: whether an entry is active is a Boolean
  (`RegisterAssumption`). A configuration need not be valid: `Fits` checks it.
- `SubjectValues`: the mock's hashes do not collide.
- `GraphqlMapper`: a query that gets there has been parsed. Input objects of the
  OneOf kind, variables inside literals of custom scalars, the types of the
  positions variables stand in and the merging of fields are left to the GraphQL
  library.

## 4. Proofs

### SourceOnboardingProofs

For every non-empty set of sources, every
catalog, document, policy, set of failures and set of reconcilers, from the
named assumptions on the constants in `SourceOnboarding`.

| Theorem | States |
|---|---|
| `TypeCorrect` | `Spec => []TypeOK` |
| `ReleasesAreWhole` | `Spec => []ReleaseWhole` |
| `ReplayKeepsRollback` | `Spec => RollbackSurvivesReplay` |
| `VersionsImmutable` | with one reconciler, `Spec => []VersionBytesImmutable` |
| `NeverDowngrades` | with one reconciler, `Spec => ReconcilerNeverDowngrades` |
| `ReleasesOfOneCycle` | with one reconciler, `Spec => []OneCycleReleases` |
| `ActiveStatusHonest` | with one reconciler, `Spec => []StatusActiveHonest` |
| `StatusesSettled` | with one reconciler, `Spec => []SettledByCycle` |
| `LifecyclesAgree`, `LifecycleOrdered` | the lifecycle formulas of activation and refresh agree and are ordered |

*Types and wholeness.* `TypeOK` is not inductive: that `Promote` stores a
release follows only from what `Gather` collected, and that `PutCandidate`
stores a candidate only from the program point. `TypeInv` adds `CycleOK`, which
says for each program point what the local variables hold. One lemma per action
shows the cycle record stays within it, and one the tables.

*Replay.* With `TypeInv`, the only step that moves the pointer of a reconciler
is `Promote`, and its guard `Activates` compares with what is active now: the
conditional upsert in the code. This needs nothing about how many reconcilers
there are.

*Version history.* `VersionBytesImmutable` needs to know how the candidate, the
releases and the local variables of a cycle relate: `HistoryInv` says that each
release is behind or equal to the candidate of its sources
(`StoredBehindCandidate`), that releases are ordered among themselves
(`StoredInOrder`), that what a cycle is about to write does not go back
(`WriteInOrder`), and that what it gathered is still what the table holds
(`GatheredIsCurrent`). The last two are the read-compare-put of `Activate` and
the read-then-promote of `PromoteCompleteSourceSet`, which are not atomic: they
hold because one reconciler runs, and fail with two that overlap (the older
document can be put last). The theorems assume `Reconciler = {r}` for that
reason. Nothing in the code enforces it; the deployment runs one.

*One cycle, honest statuses.* Both properties look at what is stored, and both
depend on what a cycle has done so far, so `CleanInv` carries it along: as long
as a cycle has not failed, every source it is done with has a candidate written
in this cycle and a status that reports it (`DoneOK`); the source it is busy
with is on its list, and what it is about to report is what it wrote
(`FocusOK`); and between the promotion and the last mark, what it will mark is
what it promoted (`MarksOK`). `Require` and `Gather` go on only from a clean
cycle, which is why a source that failed cannot travel into the release. It uses
`HistoryInv` (nobody else wrote the candidates meanwhile) and so one reconciler.

*Settled statuses.* `SettledByCycle` says what a cycle leaves behind, whatever
earlier cycles lost or left when they crashed: no source of its catalog is
pending after the checks unless this cycle lost that source's status write; a
cycle that goes on to compose a release finds every status active or asking for a
rollout, with the digest of the candidate; and after a promotion the statuses have
the digests of what was promoted, active once marked. `SettledInv` follows it through the cycle. Sources done with are not
pending (`NonePending`, with `lost` as the exception); while the cycle is clean
their statuses agree with their candidates (`Agrees`), also that of a source
which took part in a release of an earlier cycle that crashed before its marks.
Agreement stays, since the only candidate written is that of the source in focus,
whose report comes next, and the pointer moves by an operator, which `pin` shows,
or by `Promote`. After that the marks restore it: what is marked is what was
promoted. The theorem uses `CleanInv` and so one reconciler.

### AsiAuthorizationProofs

For every set of requests, clients, handlers, sessions, token requests and
assertions, every lifetime and without the bounds of the run, from
`AuthorizationAssumption`.

| Theorem | States |
|---|---|
| `TypeCorrect` | `Spec => []TypeOK` |
| `PromiseKept` | `Spec => KeepsPromise`: every step of the server is a step of `AuthorizationPromise` or leaves it unchanged |
| `TransactionStays` | `Spec => StaysUntilAnswered` |
| `TokensInTime` | `Spec => []InTime` |
| `AssertionsUsedOnce` | `Spec => []SecondUseOnlyLate` |

`TypeOK` is not inductive: what a handler ends with is an answer only because
of what it had in hand before. `TypeInv` adds `InHand` (the session a handler
works with was opened for its transaction, also when the transaction has
another one by now), `SessionsKept` (so was the one that is kept) and `Arrived`
(what a token request goes on with). `InHand` is also what the refinement needs
for "a login made for it": it holds because `WalletReturn` compares with the
session kept and `Attach` opens sessions under the transaction's own handler.
`Steps` sorts all steps by what they do to answers, codes and tokens, which
leaves six kinds to consider. `SafetyInv` then adds

- `AnswersOnce`: an answered transaction has left the store, so it is not
  answered again;
- `CodesInTime` and `TokensOnce`: a code was made in its transaction's time,
  and the code of a token has left the store, so there is no second token;
- `AssertionsSeen`: what passed the check of assertions is in the cache, or its
  last moment is behind us. A request reads its time before it reaches the
  cache, and the purge goes by the time of whichever request comes along; the
  step needs that no request's time is ahead of the clock.

The same module proves `AsiProvider`, for every set of calls, sources, proofs,
persons, requests and releases with their descriptions, any number of keys and
every window and lifetime, from the assumptions of section 3.

| Theorem | States |
|---|---|
| `ProviderTypeCorrect` | `ProviderSpec => []ProviderTypeOK` |
| `AskedIsGranted` | `ProviderSpec => []AsksOnlyGranted` |
| `AnswersAreTrue` | `ProviderSpec => []AnswersTruthfully` |
| `StaleNoLater` | `ProviderSpec => []StaleInTime` |
| `ProofsSpentOnce` | `ProviderSpec => SecondProofOnlyLate`: a proof that was used lets no second request through in its time |

`ProviderInv` adds to the type what a call holds at each point (`CallFits`: a
proof of the past, a time in its window, a request the token allows, the plan
made of a published description, the truth about the person), what `Refresh` has
read against what the registry says by now (`ReadInTime`), and that a used proof
is in the replay cache until its last moment (`UsedIsKept`). The step that matters
is `Answered`: the answer to a question about parts of attributes has to give what
the whole record gives. It does because each item that can be asked has its fields
in the selection (`AskedIsAnswered`), and the type as well when it depends on
that (`TypeIsAnswered`); then the values built from both are the same
(`SameBuild`), and so are comparison and retrieval, item by item
(`AskedIsEnough`) and as a whole (`AskedTellsTheTruth`, `SaidOfEach`). All of this
is about items that read the source (`ReadsSource`). An attribute made of
constants only does not, and for it nothing is claimed (6.17); the other items
of a verification that has one are still answered truthfully. `AskedIsGranted` needs that a part of an attribute selects no
more than the whole (`PartOfTheWhole`). None of these lemmas uses the
recursion of the code: the model has an answer as a function on fields.

### CertificateFilesProofs

For every set of registrations and any number of runs of the command, from
`RunsAssumption` (`MaxRuns` is a natural number).

| Theorem | States |
|---|---|
| `TypeCorrect` | `Spec => []TypeOK` |
| `EveryPodsKeysFit` | `Spec => []KeysFit` |
| `ReleaseNamesOne` | `Spec => []OneOrganisation` |

`Shape` is the type invariant with what the stages imply about the fields, and
is inductive by itself. *Keys.* `KeysFit` relates files that a pod read at
different moments, so it needs that nothing moved in between: `KeysStay` (a key
file, once there, is never written again) and `FilesFit` (a certificate in the
secret directory is for the key that is there, also while the command is
between the two). `PodFits` then says of each file the pod has read that it
still fits what is on disk. *Names.* The reconciler reads the three public
certificates twice, validates the first reading and stores the second.
`QuietCycle` says that as long as nothing was written since the cycle began,
what it has read so far is what is there (`ReadSoFar`), so the second reading
is the validated one.

### ReleaseRuntimeProofs

For every set of releases (valid or not), sources and concurrent requests,
every interval and any number of switches and failures, from the named
assumptions of `ReleaseRuntime`. `NoneAssumption` says that the value for "no
release, no snapshot" is neither.

| Theorem | States |
|---|---|
| `TypeCorrect` | `Spec => []TypeOK` |
| `ServesOneRelease` | `Spec => []SnapshotWhole` |
| `SnapshotsOnlyAdvance` | `Spec => SnapshotsAdvance` |
| `OffersEndTogether` | the offers of a snapshot are gated by exactly the time of the binding that ends first |
| `RefreshesOneAtATime` | at most one refresh is under way, and the flag says whether there is one |

`TypeOK` is not inductive: a request that wakes answers with the snapshot, so
it needs `WokenCanAnswer` (there is one, or an error). That the snapshot never
goes back rests on `SingleFlight`: what a refresh holds was no older than the
snapshot when it was read (`RefreshHolds`, `UpToDate`), and stays so because
only its own `Finish` replaces the snapshot. With two refreshes at a time the
later `Finish` could carry the older reading. `Gates` needs that the least
element of a set of times exists, from the well-foundedness of the naturals.

The same module proves `EudiIssuance`, for any documents, contracts, citizens and
answers and any number of releases, from its assumptions (section 3) and those of
`SourceDocument`.

| Theorem | States |
|---|---|
| `IssuanceTypeCorrect` | `IssuanceSpec => []IssuanceTypeOK` |
| `RecordedFirst` | `IssuanceSpec => []NothingLeavesUnrecorded` |
| `OffersAreKept` | `IssuanceSpec => []AskedAsOffered` |
| `CredentialsFit` | `IssuanceSpec => []IssuedAsPublished` |

A credential relates three documents: the one whose release the adapter
served when the request came, the one whose release the pod was started from,
and the one that is active now. The invariant follows the request through them.
`AllSound`: what became a candidate or a release was validated whole. `SessionInv`:
the request keeps the release and type it was bound to (`Bound`), came from an
offer of the pod (`FromPod`), was planned by the definition of its own release
(`AskedPlan`), its claims were projected from an answer to that plan
(`AnsweredClaims`), and the metadata it refers to is what some release generates
for the same `vct` (`SignedMetadata`): that of its own definition, unless the two
differ, which is what `Redefined` says. `CredentialsFit` then rests on lemmas
about the profile: what a claim copies is an instance of the
schema property made of its datatype (`CopiesAreInstances`), and what is left
out is optional (`ProjectedRow`). So a credential always fits the metadata of the
release that mapped it; that it fits the metadata it pins is claimed for types
that are not redefined. `OffersAreKept` rests on what the parsing of parameters
keeps of an offer, for a pod of another release in each parameter that has one
type in both. `RecordedFirst` follows the records from step to step (`Recorded`):
the extraction record is there from before the question on, the one of the
assembly from before any answer but the 400 and the 500.

### ConsentChainProofs

For any number of citizens, grants, revocations and evaluations, every batch
size and any number of failed calls and crashes, from the assumptions of
`ConsentChain`.

| Theorem | States |
|---|---|
| `TypeCorrect` | `Spec => []TypeOK` |
| `RevokedIsDenied` | `Spec => []RevocationBites` |
| `StoreIsRecorded` | `Spec => []LogMatchesStore` |
| `GrantsAreLoggedFirst` | `Spec => []GrantLoggedFirst` |
| `RegisterImplementsPromise` | `Spec => Promise!Init /\ [][Promise!Next]_(Promise!vars)`, the safety part of `RegisterKeepsPromise` |

The invariant has two halves. `Stages` ties where each call is to what the
register holds: a grant that has not committed has no row (`GrantStages`), an
open revocation is by the owner of an existing consent and not yet on record
(`RevocationStages`), and an evaluation that began too late has not read ACTIVE
(`AskStages`); from the last follows `RevocationBites`. `Shelf` is about the
outbox: numbers are taken when a row is inserted and become visible when it
commits, so entries appear out of order. `GrantsAhead` says that an entry about
a consent nevertheless finds the entry of its grant already logged, or visible
with a lower number (the grant committed before anyone could revoke or ask), in
the table and in the batch a pass holds; since a pass takes the oldest entries
and posts the oldest first, `GrantLoggedFirst` follows for every batch size. The
selection needs that a bounded set of numbers has a largest and a smallest
element (`LargestIsMax`, `LeastElement`). The refinement maps each step to one
of the three actions of `LoggingPromise` or to a stutter.

The same module proves `AdmissionRegister`, the register whose copy that PDP
judges with, for any configurations and whatever operators enter, from
`RegisterAssumption`. `RegisterSpec` is what `RequestPath` lets the register
do.

| Theorem | States |
|---|---|
| `RegisterTypeCorrect` | `RegisterSpec => []RegisterTypeOK` |
| `WithdrawnIsGone` | `RegisterSpec => []WithdrawnOncePulled` |
| `CopyIsTheFeed` | as long as configurations do not differ in their technical parties, `RegisterSpec => PullsReplace`: a pull leaves the PDP with exactly what the register lists |

A pull only adds and replaces, so the last one is not in the pull:
`HeldIsKnown` says that whoever is in the copy has a row still, or was a technical
party of a configuration that was served. Rows are never removed (`RowsStep`),
which is what "retaining an explicit inactive record" is for. The condition is
needed: a technical party that is taken out of the configuration is in no later
feed and stays in the copy as it was.

### SubjectValuesProofs

For any citizens, consents, sources and key set versions, every `MaxAge` and
any number of changes and restarts, from the assumptions of `SubjectValues`.

| Theorem | States |
|---|---|
| `TypeCorrect` | `Spec => []TypeOK` |
| `ListIsFollowed` | `Spec => []FollowsTheList` |
| `ValuesNameOne` | `Spec => []ValuesNameTheCitizen` |
| `ReadableStays` | `Spec => StaysReadable` |

`CellsFit` says what a consent under way holds: a pair of its own citizen
(kept by the register or just activated, `KeptFits`), values that all name that
citizen (`Names`), and the BSN made for the sources on the list it looked at
and before the tokens (`ForTheListed`). `CopyFits` is what `FollowsTheList`
needs of the portal's copy: it is BSNk's list, or it was fetched no later than
the list last changed; a copy is used only within `MaxAge` of `fetched`, so a
consent that started later than that after a change has used a new one
(`Follows`).

### QtspWebProofs

For any number of citizens, browsers, handlers, wallets, logins, sessions and
requests, every lifetime and every set of attributes, from `ClientAssumption`,
`IssuanceAssumption` and `WebAssumption`.

| Theorem | States |
|---|---|
| `TypeCorrect` | `Spec => []TypeOK` |
| `AttestedToRequester` | `Spec => []IssuedToRequester` |
| `ResultsWait` | `Spec => WaitsItsTime` |
| `LoginOfOwnDisclosure` | `Spec => OwnDisclosure` |
| `RequestsStartOnce` | `Spec => []OneSessionEach`: a start URL begins one session at most, and the outcome polled is that of a session begun for the request |

None of the properties is inductive, because handlers work without the mutex
between two looks at the store. The invariant says what they may rely on when
they come back. `LoginSide`: a handler that is about to identify holds a session
that is done, and a session that is done stays so. `Places`: the session a
handler took out, the result it adds and the attestation issued from it carry
the identity that the session was begun with (`OfSession`), and a session is in
one of these places at a time (`UsedOnce`), which gives one attestation per
request. `Timers`: identifiers are not used again, and a timer that fired and
waits for the mutex belongs to a result whose time is over, or to none that is
still there, so `Remove` takes no successor with it. `Requested`: `startRequest`
marks a request before it gives up the mutex.

### LdvOutboxProofs

For any number of records, whichever of them tear or are refused, every read
limit and any number of crashes, power cuts and failed writes, posts and cursor
writes, from `OutboxAssumption`.

| Theorem | States |
|---|---|
| `TypeCorrect` | `Spec => []TypeOK` |
| `ConfirmedIsKept` | `Spec => []ConfirmedKept` |
| `OrderIsKept` | `Spec => []OrderKept` |
| `SpoolImplementsPromise` | `Spec => Promise!Init /\ [][Promise!Next]_(Promise!vars)`, the safety part of `KeepsPromise` |

The two invariants speak of what a pass would read from a cursor, which is too
weak to be inductive: nothing in it keeps a cursor out of the middle of a line.
`FileOK` says what the spool is made of, lines and beginnings of lines, with a
record in it once. A line is `Clean` when its record cannot tear and a line can
start where it starts. `CursorOK`: the cursor is in front of a clean line, or
behind it and its record is in the logbook; it is never inside, although an
unterminated line is counted with a newline it does not have, because the line
appended after that is not clean. `LogOK`: the logbook holds the records of
clean lines in the order of the lines. `BatchOK` says what a pass that was read
some time ago still tells about the spool: the head is in front of the next
clean line or is that line, so a cursor moves past a clean line only after its
record was posted (`HeadOrBefore`). The refinement rests on `SafeStays`: whether
a record that was called safe is exposed or blocked is settled in what was
synced, which no power cut takes away.

The inductive invariants of all these modules, `CleanInv` and `SettledInv`
among them, hold in every state TLC reaches on the runs' instances.

## 5. Only model-checked

Liveness (`CycleEnds`, `WaitersReturn`, `EventuallyServesActive`,
`WithdrawnLosesAccess`, `ReleaseCatchesUp`, the liveness of the spool's
`KeepsPromise` and of `RegisterKeepsPromise`) is beyond the proof system.
The properties of `RequestPath` itself (`RunsOnlyWhatWasJudged`,
`DriftFreeReadsAlike`, `ExactlyTheConsented`, `NothingUnrecorded`) are checked
and not proved. The first three compare what two recursive walks make of the
same tree (`GraphqlMapper` and `Sources`), by induction over the query; the last
is about records of what such a walk noted. Induction over data is out of the
prover's reach, and no theorem may stand in a module that reaches recursive
operators.

## 6. Where the code and its documentation disagree

Met while modelling. The models do what the code does, so the properties
of section 3 are stated with the exceptions that follow from it; no run is spent
on the disagreements themselves.

1. **A rollback does not survive a check that changes nothing.** The digest that
   identifies a release covers the snapshot, and the snapshot holds the times of
   the check (`source_registry_backend.go:350-351`, 309-318), so the next cycle
   makes a "new" release of the same document and activates it.
   `registry.go:170-172` and 383-385 and `docs/source-metadata-cache.md:22-24`
   say otherwise. `RollbackSurvivesReplay` is about composing a *stored* release
   again.
2. **The refresh interval is not an interval.** Only a request starts a refresh
   (`source_release_runtime.go:110`) and it is answered from the old snapshot;
   see `docs/source-metadata-cache.md:16` and 91-92. `EventuallyServesActive`
   has requests that keep coming.
3. **A confirmed record can be lost.** Delivery reads the file without the mutex
   and counts a newline for an unterminated last line (`outbox.go:114`), and
   `Append` writes behind a torn line; `outbox.go:63-65` promises that a record
   `Append` returned nil for cannot be lost. The window is a large record, a full
   disk or a crash in the middle of a write. `ConfirmedKept` and `KeepsPromise`
   except `Exposed` records.
4. **A refused record stops the spool.** A 422 is retried for ever at the head
   (`outbox.go:150`), though the logbook's handler says it is no transient
   failure to retry (`ldv-logboek` `handler.go:84-86`). `KeepsPromise` excepts
   what is behind it.
5. **A registration that is no longer known stays in use**
   (`internal/qtsp/qtsp.go:237`): the QTSP keeps its registration until it is
   restarted itself, also when the authorization server, which keeps clients in
   memory, was.
6. **The type metadata of an earlier release is gone** once the next one is
   active (`source_release_runtime.go:82`);
   `docs/source-metadata-cache.md:54-56` speaks of credentials that were issued
   under it.
7. **The same type version, other bytes.** Only versions of a document are
   compared (`source_registry_backend.go:161`), so two documents may give one
   `vct` different metadata.
8. **One subject per query.** The collector of a source keeps one subject
   (`graphql-server/ldv_query.go:51`), and a query may name several citizens;
   under a consent there is only one (`OnlyTheConsented`), on a BSN the
   records of the others are not made.
9. **A parameter named like the subject variable overrides it**
   (`source_metadata.go:273-284`).
10. **Blocked within stale grace.** Without a metadata contract a source is
    blocked at once (`onboarding/service.go:346-349`);
    `docs/source-onboarding.md:289-291` calls that case stale.
11. **One of two authentication legs is not reported.**
    `registryStatusWriter.Write` (`source_registry_backend.go:57`) does not copy
    `DataTransportAuthenticated`; `docs/source-onboarding.md:217-219` says both
    legs are reported.
12. **An earlier set of sources is taken for a rollback.** A catalog that goes
    back to a set of candidates that was a release before composes that release
    again, and the conditional upsert, which is there for an operator's choice,
    leaves the pointer where it is (`store.go:371`).
13. **Saving details or toggling twice re-admits a party** that another operator
    withdrew in the meantime (`dvtp-onboarding-register` `repository.go:95`, 178:
    the upsert and the toggle go by the row, not by what the page showed).
14. **A parent that no logbook has.** A query that names the citizen as a literal
    has no subject variable, so the sidecar makes no record of the forward
    (`bron-sidecar/main.go:381-401`) but hands its span to the source all the
    same; a consumer without a logbook passes on an OTel span
    (`outway/outway.go:46`). `ldv-client/tracecontext.go` (line 215) has the
    callee's records hang under one a reader can resolve. `NothingUnrecorded`
    claims the tree for a consumer that keeps a log, whose questions always use
    the variable.
15. **Allowed without data.** `consumer/consumer.go:53` says that an allowed
    question was answered with data. The Outway adapter takes every 200 for it
    (`outway/outway.go:60`), and a source that finds a query invalid answers 200
    with errors; `AllOfTheConsented` is therefore about sources that run the
    schema of the bundle.
16. **A parameter that changes its type.** A pod shows the offers of the release it
    was started from, and the adapter reads the parameters of a request by the
    release it has (`source_metadata.go:334`). When a later document makes an
    integer of what was a string parameter, an old offer of the text `02023` is
    accepted for a new one of 2023, and the citizen is asked about something else
    than what was shown. `AskedAsOffered` therefore relates the question to the
    pod's offer in the parameters of one type in both releases.
17. **An attribute of constants only.** Neither the metadata schema nor
    `Attribute.validate` (`asi-mapping/capability.go:137`) asks for a member that
    reads the source. Such an attribute is Unknown when it is asked alone (there
    is no question, `plan.go:46`) and is compared with its constants when it is
    asked next to another one; if it has an `on`, its empty fragment adds no
    `__typename` to the question (`plan.go:53`), and the whole answer fails.
    `AnswersTruthfully` therefore speaks of items that read the source.

One comment goes further than the code can: `replay.go:8-9` says that an
assertion is accepted only once. A request reads its time at the start, so a
slow one can reach the cache after another has purged the assertion it carries;
`SecondUseOnlyLate` (proved) says that this takes until after the assertion's
last moment. The ASIP has the same cache in the same place (`accesstoken`), and
`ProofsSpentOnce` says the same of it.

## 7. Not modelled

- Texts: of documents, queries, certificates, tokens, pages and log attributes.
  A query is a tree, a certificate a name and a key, a value its kind and whom
  it is about.
- Cryptography: signatures, seals and the polymorphic encryption of BSNk (the
  mock hashes as well).
- The read extension of the logbook, the register document, and retention.
- The parser of GraphQL and the rules of its validation that the mapper leaves
  to the library.
- The discovery stub (a stateless query), the developer portal (a display; its
  trace hub has channels that `cleanup` closes while `ingest` may send on its
  copy of the list, `tracehub.go:209` and 282), the wallet verifier and the issuance server beyond what the services
  see of them, frontends, infrastructure and deployment.

`PROJECT.json` names for each component what is left out of it.

## 8. Plan

Done: all components of section 1 that have program logic of their own, and the
proofs of every state machine but `RequestPath`. Next, in this order:

1. `RequestPath` over an abstract mapper: a module that states what the mapper
   and a source promise each other, in which its control can be proved.
2. The read extension of the logbook and the developer portal's trace hub, if
   they get to carry more than a display.
