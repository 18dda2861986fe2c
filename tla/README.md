# Verification of the digital twin integration server

The Digital Twin Integration Server (DTIS) sits between industrial data sources
(MQTT, OPC UA, REST), the ObjectID Move package on the IOTA chain, an off-chain
blob store and several kinds of users. Most of it is glue, but the glue decides
whether a mutation on the chain happens once or twice, whether a revoked device
is shut out and whether an acknowledged document survives a crash. This
directory holds TLA+ models of those decisions, TLC runs over small instances,
and TLAPS proofs, for all instances, of thirty-six of the forty properties that its
eleven passing runs check; the other four are liveness properties. One more run shows where
the code contradicts its documentation. The map covers about 31 % of the implementation.

Paths below are relative to the repository; `S/` stands for `src/src/`.
`PROJECT.json` lists components, runs, the line-by-line map from definitions to
code, hazards and theorems.

## 1. Inventory

One Node.js process runs an Express application, connectors and timers on one
event loop. A step of a model is what the loop runs between two points where it
waits for I/O (an `await` that resumes without I/O does not let anything else
in). Several processes may share Redis, the storage directory or the chain.

| Component | State | Operations | Talks to | Hard behaviour | What makes it correct |
| --- | --- | --- | --- | --- | --- |
| Plant catalog `S/plants/service.ts` | `catalog.json`, lock file, encrypted blobs | `put`, `list` | storage provider, file system | several processes, any step failing, process death, host crash, stale lock | no lost update, acknowledged revisions are durable, every pointer can be read |
| Ingestion `S/queue` | queue, delays, failed jobs | `enqueue`, `processNext`, `handleFailure`, `drain`, `stop` | publisher, status check | ambiguous submissions, retries, shutdown | one commit per job, nothing silently lost, every job settles |
| Sponsored execution `S/objectid/sponsoredTransactionExecutor.ts` | the station being tried | `execute` | gas stations, chain | failover after a lost or odd answer | one commit, honest outcome |
| Idempotency `S/security/idempotency*.ts` | entries with expiry, in memory or Redis | `acquire`, `get`, `put`, `delete` | every mutating route | concurrent retries, 5xx, expiry during a request, death of an instance | one mutation per key, faithful replay, true conflicts |
| Commands `S/commands` and the simulator | records, write chain, store file; the device's queue and remembered results | `create`, `get`, `acceptResult`; `handleCommand` | MQTT QoS 1 broker, disk | duplicate, lost and late messages, expiry, crash, restart | persist before dispatch, execute once, final is final |
| Tenant registry `S/security/tenants.ts`, `tenant-access.ts` | tenant file, Mosquitto password and ACL files | save, rotate, revoke for tenants and devices | broker | read-modify-write of whole files, failing steps | what was answered is what is in force |
| Device onboarding `S/devices/service.ts` | a record per device (in the catalog), last sample, busy set | `register`, `ingest`, `revoke`, `classify`, `deviceCredentials` | catalog, tenant file, broker, chain | partial failure, replicas, crash, other calls on the shared tenant file | one Twin per device, fail closed, revoked means refused |
| Digital thread `S/thread`, `S/indexer` | cached event lists, a verifier per request | `findTwinEvents`, `appendPage`, `finish` | chain, cache | pages of different age, growth during verification | "valid" implies a continuous thread, no false alarms |
| Twin sharing `S/sharing/service.ts`, `policy.ts`, `routes.ts` | policy file per Twin, policy on the chain, challenges, sessions, open streams | policy update in two phases around a chain transaction, challenge, verify, every shared read | chain, file system | owner edits while a read makes its checks, failure between the phases, restart | nothing leaves that no policy in force granted; revocation reaches streams and exports |
| Shared datasets `S/sharing/datasets.ts` | export jobs | create, prepare, download, cancel, expire | storage, signing | policy change during a preparation | an archive of an old revision is unreadable |
| Authority `S/policy/engine.ts`, `S/devices/did-auth.ts`, `S/api/app.ts` | cached role grants, subscription checks and public flags; login challenges and sessions | authorise a mutation, a connector message, an anonymous read; log in | chain | reads that overtake each other, shared checks, expiry | a decision is never older than its period; a challenge opens one session |
| Live telemetry `S/realtime`, `S/connectors`, `S/security/modules.ts` | last event per Twin, a manager's stream, AI configuration, samples and requests, module switches | publish, stream, configure, analyse, pause | AI provider, file system | late answers, reload and pause during a request, revocation during a check, crash | no analysis of what is off limits, pause survives, stream in order |
| Twin lifecycle `S/objectid/iotaStatePublisher.ts`, `twinCleanup.ts` | none (chain) | create, add children, delete events, delete, prune | chain | interruption between batches, two servers, writes and a change of version meanwhile | a prepared deletion can be finished, only what was asked for is erased |
| Retention `S/storage/retention.ts` | none (blobs, chain) | sweep of stored objects, pruning of states | storage, chain | stale listings against concurrent stores, lagging index | nothing fresh and no current state is deleted |
| Dataset windows `S/twin/datasetAggregator.ts` | open windows, timers | ingest, flush, shutdown | storage | timer against shutdown, failing store | every sample in exactly one window |
| Evidence `S/evidence/service.ts` | none (blobs, chain) | snapshot, bundle, validate | chain, storage | windows deleted while they are read | conformant means complete |
| Circuit breaker, S3 provider, resolver, schemas, profiles, maturity, files, plant routes, console, deployment | counters, immutable files | thin adapters and stateless lookups | libraries | little of their own | - |

Interactions: routes call the services; the services share the chain through
`ObjectIdAdapter` and the sponsored executor; device onboarding stores its
records through `PlantService.put`, whose contract is `RevisionedStore`; device
and tenant code write the same Mosquitto files; the thread verifier reads through
the indexer's cache; the ingestion worker calls the publisher with the external
reference that its status check looks up again. Connector messages pass the
subscription check, are published by the realtime hub, collected into windows
and queued for ingestion; the windows are what evidence snapshots read and what
retention deletes; states on the chain are pruned by the same sweep.

## 2. Modules

| Module | Models | Used by |
| --- | --- | --- |
| `RevisionedStore` | what the catalog promises: a compare-and-swap on a revision, and a durable copy that follows | refined by `PlantCatalog` |
| `PlantCatalog`, `PlantCatalogProofs` | `PlantService.put` and `list` | run `plant_catalog` |
| `IngestionWorker`, `MCIngestion`, `DataProofs` | queue, worker, error classes, status check | run `ingestion` |
| `SponsoredExecutor`, `MCIngestion`, `ServerProofs` | failover over gas stations | run `ingestion` |
| `Idempotency`, `MCRequests`, `ServerProofs` | middleware and both stores | run `requests` |
| `CommandChannel`, `CommandChannelProofs` | server, broker, device | run `commands` |
| `TenantCredentials`, `MCRequests`, `ServerProofs` | tenant file, password file, ACL | run `requests` |
| `DeviceOnboarding`, `MCDeviceOnboarding`, `DeviceOnboardingProofs` | one device, several processes | run `devices` |
| `ThreadVerifier`, `MCThreadVerifier`, `DataProofs` | paged verification of one thread | run `thread` |
| `TwinSharing`, `SharingProofs` | policy file, policy on the chain, shared reads, streams and exports of one Twin | run `sharing` |
| `RetainedData`, `MCRetainedData`, `DataProofs` | dataset windows, the filesystem provider, registration of documents, the storage sweep, evidence | run `retained` |
| `TwinLifecycle`, `MCTwinLifecycle`, `TwinLifecycleProofs` | the direct writer on one Twin, cleanup and deletion, pruning | runs `lifecycle`, `deletion`, `administered` |
| `TwinAuthority` | role policy, subscription check, public flags, DID login | run `live` |
| `LiveTelemetry`, `MCLive` | realtime hub, a manager's stream, AI analysis and its switch; `MCLive` puts both modules into one run | run `live` |
| `LiveProofs` | proofs about `TwinAuthority` and `LiveTelemetry`, each by itself | - |

`ServerProofs` is about what stands between a request and its effect, `DataProofs` about what
becomes of data that is taken in; each extends three modules that share no state, so that their
names differ (`ExecutorSpec`, `TenantSpec`, `DataSpec`, `ThreadSpec` beside `Spec`).

Most MC modules only add symmetry sets and sets of inputs. `MCLive` and `MCRequests` put two modules
that share no state into one run and choose at the start of a behaviour which part it exercises.
`MCIngestion` does so one after the other, because both parts have liveness properties: the calls of
`execute` run first, and the worker acts in one of the states they end in; each part has the fairness
of its own specification. `MCRetainedData` keeps to behaviours with several samples and one registration
or with one sample and several registrations. The modules by themselves (`Spec`, `ExecutorSpec`,
`TenantSpec`, `DataSpec`) are what the proofs are about. Definitions whose name
ends in `Fault` are faulty variants of the definition that follows them (a
dropped guard, a swapped order); no specification uses them. They show that each
property fails when the code is wrong in that way.

Where the code keeps a promise only under a condition, the model is not
restricted to it. A history variable records that the condition was broken and the
property names the exception, so that the interesting case stays in the run:
`timedOut` and `overtaken` (ingestion), `garbled` (executor), `overrun`
(idempotency), `overtaken` (commands), `overlapped` (tenants), `spared` and `disturbed` (devices),
`kept` (retained documents). Section 3 lists what
happens in the excepted cases.

### 2.1 PlantCatalog

A writer is one call of `put` in some process. `TakeLock` is the exclusive
creation of the lock file; `ReadCatalog` the revision check against the catalog
just read; `StoreBlob` the encrypted document under a fresh URI;
`WriteTemporary`, `Rename`, `SyncDirectory` and `ReleaseLock` the commit. Every
step but the release may fail (`StepFails`, the code's `catch`), the process may die
(`ProcessDies`, the lock file stays), the host may crash (`HostCrash`: the
visible catalog falls back to some durable version; without durable blobs any
of them may vanish),
and the operator removes a lock nobody holds (`OperatorUnlocks`, as
`src/docs/PLANTS.md` asks). `DurableBlobs` tells a store whose objects survive
(S3) from the file system provider, which never syncs. An encrypted document
authenticates its tenant, plant and revision, so `CatalogReadable` says that the
blob a pointer names is the very one sealed for that pointer.

### 2.2 IngestionWorker

`Enqueue` (with duplicate keys), `Dequeue`, the SDK call's success or failure by
class (`mapObjectIdError`), `handleFailure` with the status check for ambiguous
submissions, delays, the bound on attempts and the drain at shutdown. `landed`
counts commits on the chain, `flying` submissions that may still land.
Whether the SDK can look a mutation up (`canVerify`) is chosen at the start. A
lost submission may be committed at any later time, also after the status check
denied it (`overtaken`).

### 2.3 SponsoredExecutor

For each operation the current station, its `progress` (`reserving`, `executing`,
`confirming`, `done`), and the fate of the transaction built for each station.
A 200 answer to `execute_tx` that carries no digest makes the code fail over after
the submission; such stations are in `garbled`.

### 2.4 Idempotency

Requests with a key and a fingerprint run through `acquire`, the handler, and
`put` or `delete`. `remote` selects Redis: `SET NX` and the following `GET` are
two steps, a command may take effect although its answer is lost, and the
completing write is not awaited. An *era* of a key ends when its entry expires
or its store is lost, which is as long as the code promises anything; `overrun`
has the keys whose entry expired under a running handler.

### 2.5 CommandChannel

`create` puts the record, waits for the write chain, publishes, waits for the
PUBACK and puts again. The write chain is a sequence of links that serialise the
map when they start; one rejected link rejects all later ones, as promises do.
The device has one queue and a bounded memory of results; the publication of its
reports, of the state transition and of the result may each fail inside or
outside of the `try` block, which decides what is remembered. `overtaken` has the
commands that reached the device or expired while `create` still waited for the
PUBACK.

### 2.6 TenantCredentials

Each call is read, write of the shared temporary file, rename, password changes,
ACL. `told` remembers what the last answer said of each credential, `overlapped`
that two calls ran at once: one administrator makes one call after the other, and
the busy set of `tenant-access.ts` enforces that for one DID on one route only.

### 2.7 DeviceOnboarding

Calls on one device in one of several processes. The record has a revision and
is stored through the catalog, abstracted to the compare-and-swap of
`RevisionedStore`: a save may fail before or after it took effect. Where the code calls the
tenant registry, a call goes through `ReadFile`, `WriteFile`, `Password` and `WriteAcl`, with the
part of the three files that is about the device: its `entry` in the tenant file (none, active or
revoked), the credentials in the password file (`broker`), and whether the ACL admits it
(`admitted`). The tenant file is rewritten as a whole, so calls that are not about the device
take part: `"other"` (for another device, or for the tenant's own keys) writes back the entry it
has read, `"tenant"` is the revocation of the whole tenant with `revokeDevices`, its default. Each step
may throw; the ACL is written in place and may be left torn by an error or a crash (`Torn`). `Accepts` is who
gets in at the broker. One run of `mosquitto_passwd` and one write of the tenant file are single
steps: that two calls of a process share the temporary file only means that one may write the
other's content, which is an order of the two writes the model has.

A record can be released under the credentials that were issued for it, while the tenant file changes hands. The
history variable `disturbed` is set by a revocation of the tenant, by a rewrite for others
that overlaps the issuing of credentials (whichever began first), and by an ACL such a call leaves torn; issuing
credentials with no other call under way clears it. It is also set at the start
if the device's entry is missing. `spared` has the credentials of a device revoked while the
tenant file had no entry for it, which keeps the password in the broker.

### 2.8 ThreadVerifier

`FetchPage(n, ..)` cuts a page from the first `n` events, for any `n`: the cached
list may be of any age for every page. `Filtered` is the list after the filter: its `k`-th event is
the match up to which there are `k`, which needs no recursion and can be proved about. A list is
filtered by revision, event type and time; the last two are one mark of an event, `wanted`. `Check` is one turn of the loop of
`appendPage`; the checks that concern one event alone are its field `sound`.
`Grow` publishes events meanwhile.

### 2.9 TwinSharing

One Twin, whose data are governed by a policy file of the server (version 1,
with the visibility in the Twin's metadata as its second half) or by a policy on
the chain (version 2). An update waits its turn, checks owner and revision,
replaces the file by a closed policy, submits the metadata transaction and opens the new policy;
each half of `commit` (rename, notification of the listeners) is a step of its own.
The transaction may fail without an effect, with one, or with one that lands later
(`Land`). `Checks` lists how often each route authorises and for which scope; each
check reads the Twin, then the policy, then decides, and the owner, other transactions
and a restart interleave with all of it. `seen` collects the policies in force since a
request's last check began, `settled` the policy the owner has been given.

### 2.10 RetainedData

Samples enter a window; `Flush` takes the window out of the table, `CreateFile` and
`FinishFile` write it, each of which may fail; a file whose write failed or died after its creation
stays, torn. Documents are stored under their content address: an
existing file is only touched, whole or not. Whether a registration is `kept` is decided when its file is
touched or created, not when it is answered: what a sweep deletes in between counts against the
property, unless that sweep had listed the file with its older age before the touch. The sweep lists the objects with their age and later
decides on each by the listed age, at most `MaxDeletes` times. A snapshot lists the windows of
an interval, reads them, stores the export and anchors it; `Valid` is the verdict of
`validateBundle`, which the property asks for every manifest and file one could
present. `Shutdown` flushes, `ProcessEnds` is the deadline or a crash.

### 2.11 TwinLifecycle

The chain holds the Twin, its registered children (typed, with parents), the credits of
its subscription. `PlanCleanup` is the order of the cleanup calls that `planCleanup` computes, `Begin`,
`FirstSnapshot`, `Snapshot`, `PrepareDelete`, `NextBatch` and the batch actions are
`cleanupTwin`. The Twin has a version: none (the first contract), 1, or 2 once its owner activates
the policy on the chain (`Activate`); `cleanupSnapshot` refuses the last, at the first
snapshot and at any later one. The pruning sweep reads an index that may lag and decides by
observation time. Assumed of the chain, which is external: a transaction runs as a whole and only on
objects that exist, and a Twin is deleted only when its child table is empty.

### 2.12 TwinAuthority

Four guards that share no state; `guard` chooses one. Each asks the chain in one or more
steps, may use what it remembers, and ends in `decision`: who was let through, on what
grant, read when. The role policy dates a cache entry from before the read, the others from
after it; the property allows exactly that. Data of a Twin with a policy on the chain are
filtered by a second read and leave only if a third finds the same revision.

### 2.13 LiveTelemetry

Messages are numbered as the hub publishes them. A manager's stream checks the
manager's rights for one item at a time and keeps at most one waiting; the analysis keeps samples,
starts a request when enough is new and accepts an answer only for the state object that
asked. `floor` and `offLimits` record which messages may no longer be analysed after a
reload, an encrypted message or a pause. The switch is a file, a map and the set of
paused tenants, which a crash leaves at different values.

## 3. Runs

Every passing run finishes in less than three minutes on two cores.

| Run | Bounds | Shows |
| --- | --- | --- |
| `plant_catalog` | 2 writers, 2 plants, 3 URIs, revision 2 | `put` implements `RevisionedStore`; pointers stay readable, acknowledged revisions durable, a revision is won once |
| `ingestion` | 2 jobs, 2 keys, 3 attempts, every class of failure; 2 operations, 3 stations | one commit per job unless it timed out or was overtaken, nothing silently lost, every job settles; one commit per call of `execute`, true answers, termination |
| `requests` | both stores, 3 requests, 2 keys, 2 bodies, 1 expiry; or 3 credential calls, 2 tenants, 1 device each, failing steps | one mutation per key and era, faithful replays, true conflicts; keys and broker principals as last answered while calls do not overlap, a call by itself repairs the ACL after any overlap |
| `commands` | 2 calls, 1 command, 1 crash or restart, 2 copies, 1 result under way | persisted before dispatched, executed once, statuses advance, a polled command settles for good |
| `devices` | 3 calls on the device, for others or on its tenant, 2 processes, 1 crash | one Twin submission; void credentials are refused; within one process, credentials one can download are those the broker accepts, or none if another call has disturbed them |
| `thread` | threads of 0 to 3 damaged or 0 to 5 healthy events, some filtered out by type or time, growing to 5, pages of 2, six queries | valid means continuous; alarms name exactly the missing revisions of the range one asked for |
| `sharing` | 2 updates, 1 reader, 9 routes, 2 owners, 1 foreign transaction, 1 export, 1 restart per update | what is delivered was granted by one policy in force; streams and exports end with their revision; edits build on each other |
| `retained` | 2 samples in any order with 1 registration of a document, or 1 sample with 3 registrations over 3 days; 1 deletion per sweep, 1 stop or crash, failing writes | no sample is lost in silence or counted twice; a conformant bundle is complete; a registered document is there and whole for its period, whenever the registration is answered, unless a sweep had listed it or its file was torn when it was touched |
| `lifecycle` | 2 clients, 2 servers, 7 registries, 1 call per transaction, 2 transactions per request, 1 failure, 1 prune per sweep | a prepared Twin can always be finished, events are erased only by what asked for it, pruned states are superseded |
| `deletion` | the same with the registries without states of Twins that are not of version 2 | a repeated deletion completes, unless the owner activates the policy on the chain |
| `administered` (violation) | 1 client, 1 Twin of version 2 | its deletion never completes, against `src/docs/TWIN_ADMINISTRATION.md:13-15` |
| `live` | 2 requests per guard, 5 ticks, 2 changes of the chain; 5 messages, 2 configurations, 1 crash | authority is recent, logins single-use; analyses are current, pauses hold, revoked managers see no more, streams are in order |

Why these bounds: every property relates at most two actors and one crash or
expiry. Two writers and two revisions make a lost update and a stale view; three
stations give failover after failover; two jobs share a reference or not, and three
attempts let a job fail, be checked and fail again; three requests let a retry
meet an owner and a successor; three administrative calls let a failed one be
repeated after another; three calls on a device let the tenant's revocation or a rewrite for another
device fall between or into two of its own; three registrations let one leave a torn file, one
touch it before a sweep and one after; pages of two with five events give a boundary in the
middle and at the end. Two updates let one edit build on the other or fail half way while
the other follows; a reader's checks are strictly one after the other, so one request
meets every change, and its exports outlive it; two samples make a window that is
continued and one that is not; one call per transaction and two transactions per request cut every plan of three
objects short once; five ticks exceed twice the period of two. One result under way is enough because the broker keeps
them in order and the server handles one at a time; copies are delivered next to each
other. `CHECK_DEADLOCK FALSE` is set where the system may stop: all
requests answered, all jobs settled, the server down.

### Known limits of the code

Cases the properties except or the models show, found with TLC or while the code was
translated. The excepted ones can be reproduced by dropping the exception from the
property.

* Plant catalog: with the filesystem provider the catalog is synced but the blob
  it points to is not; after a host crash the pointer may not be readable
  (`S/storage/filesystem.ts:25`; run `plant_catalog` with `DurableBlobs = FALSE`).
* Ingestion: a timeout is "retryable" but not "unknown" (`S/common/errors.ts:54`), so a job is
  submitted again without a status check although it may have been committed.
  `src/README.md:177` says "Ambiguous transaction outcomes are retried only when the adapter can prove
  the external idempotency reference was not committed". TLC refutes `AtMostOnce` without `timedOut`.
  A check that answers before the lost submission is committed lets it through as well (`overtaken`).
* Executor: a 200 without a digest fails over and submits a second transaction
  (`sponsoredTransactionExecutor.ts:81`).
* Idempotency: a 5xx after a mutation that took effect frees the key
  (`idempotency.ts:110`); with Redis the entry may go between `SET NX` and `GET`, so
  that an identical retry is told of a different request (line 96).
* Commands: a result processed before the PUBACK is overwritten by "dispatched"
  (`S/commands/service.ts:75`).
* Tenants: overlapping calls read and rewrite the whole tenant file without a lock; the one that
  writes last restores a key the other has rotated or revoked (`S/security/tenants.ts:126`), against
  `src/docs/HOSTED_DTIS_OPERATIONS.md:75`, "Rotation invalidates the previous credential at the
  selected scope". TLC refutes `KeysAsAnswered` without the exception.
* Tenants: a tenant revocation that failed half way and is repeated leaves device
  passwords in the password file, where only the ACL shuts them out
  (`S/security/tenants.ts:220`).
* Devices: a revocation and a rotation on two processes may release credentials
  the broker refuses (`S/devices/service.ts:192`); a revocation during the registration is
  followed by the revoked device's password in the broker (line 67), where the
  record keeps its ingestion out.
* Devices: the device record and the device's entry in the tenant file are two stores. A revocation of
  the tenant (`S/security/tenants.ts:201-224`, reached by `S/api/app.ts:447-451`, which leaves
  `revokeDevices` at its default) shuts every device out of the broker, but their records are neither
  revoked nor pending, so that `download` and `status` go on offering the credentials
  (`S/devices/service.ts:179-182`). A rewrite of the tenant file for another device, or of the tenant's
  own keys, that overlaps a registration or rotation (`S/security/tenants.ts:156-178`) does the same, also on one
  process, since the busy set is per device; so does an ACL left torn by a failed or interrupted write (line 292).
  `FailsClosedLocally` allows the broker to accept nobody then (`disturbed`), never other credentials.
  TLC refutes it without that exception, and without any one of these three causes. A later rotation that runs without others puts
  the device's access in order.
* Devices: revoking a device that has no entry in the tenant file leaves its password in the password file
  (`S/security/tenants.ts:196`): `VoidedIsRejected` excepts ingestions by MQTT with such credentials (`spared`);
  by HTTP they are refused.
* Thread: the revision range of a request is not validated (`S/api/app.ts:1018`). A range from revision 0
  reports revision 0 as missing in every thread (`S/thread/verifier.ts:62`), one whose end lies before its
  beginning reports the revisions up to its end (line 91). `AlarmIsTrue` excepts both (`Askable`).
* Thread: when a range begins behind revision 1 and none of its events is delivered, the revisions from
  1 on are reported as missing, below the range, although they may exist (`S/thread/verifier.ts:90-92`): for revisions 2 to 4 it
  reports 1 to 4. `AlarmIsTrue` excepts it from "no other revision is reported"; TLC refutes the property without the exception.
* Thread: a filter on event type or time (`S/indexer/objectid.ts:95-101`) leaves gaps that are reported as missing
  revisions of a healthy thread. `missingRevisions` then lists what was not delivered, as `AlarmIsTrue` says; that a healthy
  thread is not called invalid is said of requests that want all its events (`Healthy`).
* Stored documents: the sweep deletes by the age it listed, so a document that is registered again while a sweep
  that has listed it runs may go, before or after the registration is answered (`S/storage/retention.ts:85`); a file
  left torn by a crash or by a write that failed after creating it, or not finished yet by a slower store of the same content,
  is taken for complete by the next one (`S/storage/filesystem.ts:25`). `RegisteredIsRetained` excepts both, as of the moment the file is
  touched.
* Windows: flushes that a timer started are not awaited at shutdown (`S/twin/datasetAggregator.ts:41`); a window's
  `toTimestamp` is that of its last sample, so that an evidence interval may miss a window whose samples came out of
  order (`S/twin/datasetAggregator.ts:36`, `S/evidence/service.ts:272`).
* Deletion: `cleanupSnapshot` refuses every Twin whose version is not 1 (`S/objectid/iotaStatePublisher.ts:168`), so that
  a Twin whose owner activated the policy on the chain, the only kind that has Admins, cannot be deleted or cleaned through this
  server; one that is migrated between two batches keeps the rest of its children. `src/docs/TWIN_ADMINISTRATION.md:13-15`
  promises its Admins the deletion: run `administered`, a finding. `DeletionCompletes` is stated of version 1.
* Deletion: the plan checks for a network named twice only when its interface has no members left.
* Streams and caches: a heartbeat may replace a telemetry item that waits for its check; events of a public stream may
  overtake each other; the shared subscription check is keyed by Twin alone; a role grant revoked before its
  `validFrom` may count from the cache; the age of a role grant counts from before it was read. The check of a manager's
  waiting item is made for Twins of version 2 only (`S/api/app.ts:808`).
* AI: pausing aborts only the Twin's newest request; the answer of an older one is dropped. An encrypted message restarts
  the rate limit. The switch file is renamed but not synced (`S/security/modules.ts:29-30`), so that `PauseHolds` is
  about a crash of the process, not of the host. A connector's failed start stays in its health after it reconnects.

### Fairness

* `IngestionWorker`: weak fairness of the dequeue, of elapsing delays, of the
  end of an SDK call and of the status check. The event loop runs the worker's
  interval again and again, delays are clock times, and SDK calls end (the
  client has timeouts). Nothing is assumed about new messages or shutdown.
* `SponsoredExecutor`: weak fairness of the steps of a call; every HTTP request
  has an abort timeout.
* `CommandChannel`: time passes (`Tick`) and the client keeps reading the
  command (`Get`), which is what marks it expired; no delivery is assumed.
* `TwinLifecycle`: weak fairness of the steps of a request, since every chain call ends, and
  strong fairness of asking again: the owner repeats a deletion that was cut short, which is what
  the code's answer asks for. Failures are bounded, writers and sweeps are not fair.

## 4. Proofs

TLAPS checks the following for every value of the constants allowed by the named
assumptions. The proofs rest on no other facts.

**PlantCatalogProofs** (assumption `PlantCatalogAssumption`: the "none" values are not
values, there is a plant and a document, `MaxRevision` is positive): `TypeCorrect`,
`Exclusion`, `Durability`, `NoLostUpdate`, and with durable blobs `Readability` and
`Refinement`. None of the properties is inductive: that the rename installs the
next revision needs that the view read under the lock is still the catalog
(`ViewIsCurrent`), which needs that only one writer is between lock and release and that
its lock file exists (`LockIsHeld`); that an acknowledged revision is durable needs that
the catalog still carries the pointer between rename and answer (`CatalogIsMine`) and that
the disk only lags behind (`DiskLagsBehind`); readability needs that the blob is
the one this writer sealed (`BlobIsSealed`) and that fresh URIs never replace a blob in use
(`BlobsAreSafe`). `IndInv` is the conjunction, `StepInv` has one lemma per action or
family of actions. For the refinement the visible store maps to the abstract
one and the durable catalog to its copy: `Rename` is the compare-and-swap,
`SyncDirectory` the catch-up, `HostCrash` the abstract fallback, every other step
stutters.

**ServerProofs** proves three modules, each under its own specification.

*Idempotency* (the eras are counted by a number): `SingleMutation`, `FaithfulReplay`,
`TrueConflict`. An entry belongs to a request of its key and body that has left `acquire`
(`EntryIsOwned`), and a request that still works, or has mutated and was not answered 5xx,
holds the entry of its key for the whole era (`HolderCounts`). Two such requests of an era
hold the same entry, so they are one.

*SponsoredExecutor* (`ExecutorAssumption`: at least one station):
`SingleCommit` and `HonestAnswer`, which except the stations in `garbled`. The
strengthening says that before the current station nothing else can be committed and
after it nothing was sent (`OnlyCurrentSubmitted`), and what the phase and the
outcome imply for the current one (`PhaseKnowsFate`).

*TenantCredentials* (`TenantAssumption`: calls, devices and the words for scopes and
answers are told apart): `SerialCredentials` and `AclIsHealed`. A call that shares nothing with
another is the only one under way, and what it holds is what the temporary file and then the
tenant file contain (`Alone`); what it holds has its own change in it, and the passwords it
still has to delete are of its own scopes (`Made`). `Agree` relates the answers to the three
files. As long as nothing has overlapped it holds of the file in force and of the one a call has
prepared, because a call first takes back what was said of its scopes (`Serial`): a step that
fails leaves nothing promised that it might have changed. For the ACL no history is
needed: the last step of a call writes what the file says that the call has itself put
in force, whatever happened before.

**DataProofs** proves three modules as well.

*IngestionWorker* (`IngestionAssumption`: "no key" is not a key, at least one attempt):
`CommittedOnce` and `NothingLost`. A job is in one place at a time, a position of the queue or
the worker's hands (`OnePlace`), and as long as it may be submitted again nothing of it has
been committed or is under way, unless it timed out or was overtaken (`Unsubmitted`).
`Accounted` follows the job through retries, failure and shutdown.

*RetainedData* (`RetentionAssumption`: samples are timestamps, periods and bounds numbers):
`SamplesAccounted`, `DocumentRetained` and `EvidenceComplete`. The open window, the windows being
stored and the stored ones share no sample, and a sample that is in none of them was swept or its
loss recorded (`Places`). From the touch of a sound registration on, before its answer, and while its
period runs, the document is there, whole or still being written by that registration, no older than the
touch, and the sweep under way lists it with an age that is no greater (`Documented`, `Held`), so the
listed age, although stale, does not condemn it. A snapshot has every
window it has looked at that overlaps its interval (`Gathered`); that a window overlaps when one of
its samples lies in the interval needs that its samples came in order, the exception of
the property.

*ThreadVerifier* (`VerifierAssumption`: threads are sorted by revision, as `compareEvents` sorts
them, pages hold one event or more): `ValidThread` and `TrueAlarm`. The pages may be cut from lists of
different ages, but an event's rank among the matches does not depend on the age: the checked
events and those of the page have consecutive ranks (`Consecutive`), so that no page boundary
drops or repeats one. What was recorded lies between two events that were checked and covers what they
leave out (`Between`), nothing is recorded of a healthy thread (`Traceless`), and
without a gap or an error the events are continuous (`Unbroken`). That every rank up to their number is
taken (`RankReached`) is the one induction: on the least prefix with that many matches
(`LeastNatural`, from the library's well-foundedness of the natural numbers).

**CommandChannelProofs** (`CommandAssumption`: the placeholder in the write chain is not a
request, the bounds are positive): the server's part `StoreInv` needs nothing more. A command
the device may know of is in the file, and what is in the file is in memory and in every later
file (`FileKnows`), so a failed or overtaken write cannot drop it: `FileBeforeDevice`. The device's part
`DeviceInv` holds while the device remembers the results of all commands there are
(`MemorySuffices`, the hypothesis of `RememberedNotRepeated` and `StatusNeverFallsBack`): the code keeps
the last 1000 results, and a command delivered again after its result was pushed out is
executed again. A busy command is not remembered yet and an executed one is remembered
(`Executions`); reports are under way in the order of their ranks, none further than the device
has got and none behind what the server has taken, in memory, in the file being written and on disk
(`Ordered`). The run satisfies the hypothesis too.

**DeviceOnboardingProofs** (`DeviceAssumption`: there is a process, "none" and the first
credentials are not calls): `SingleSubmission` rests on the marker that compare-and-set writes before
the only submission (`MarkerBeforeSubmission`, `SeenIsHistory`). `VoidedNeverIngests` needs
three things: an answered revocation or rotation leaves the record revoked or under other
credentials, also when a slower rotation tries to save (`VoidStaysRevoked`); the broker accepts void
credentials only of a device revoked during its registration or of a rotation nobody was answered
(`VoidAtBroker`); and until a registration is answered nobody else can make the device
known (`RegistrationFirst`, `UnissuedIsUnknown`). `DownloadableIsAccepted` holds for one process
(`Local`), by the busy flag (`OneAtATime`), in two layers. `BrokerFollows`, a part of `IndInv`, says that whatever
others do to the tenant file, the password file has the credentials of a released record or none. `Undisturbed` says
that without a disturbance the entry, the password and the ACL all admit them and that every call that still holds the
tenant file will write back the active entry (`InOrder`); and that credentials being issued bring
this about step by step, with no other rewrite under way, unless a revocation has overtaken a
registration (`Sunk`). That a second call issues or revokes nothing meanwhile follows from `IndInv`
(`IssuingIsClosed`).

**SharingProofs** (`SharingAssumption`: the names of policies, scopes and routes are those of the code, the
kinds of revisions differ): `NoLostEdit` needs only the updates: the oldest of the queue is the only one
at work (`InTurn`) and a revision once replaced never returns (`BuiltOn`). `NoStaleAccess` adds
that what an announcement must revoke belongs to the revision in the file, unless the announcement is
just due (`Revocable`). `SentAsGranted` combines reads taken at different times. A revision is
used only once its policy is in force (`Unused`) and stands for one policy: there is a map `pi` from
revisions to policies by which every answer, every prepared export and every piece of collected
data goes, unless the request's revision has gone for good and the last check will refuse it
(`PolicyPerRevision`, `Collected`, `Gone`). A check that finds a policy found one that was in
force since it began (`Witnessed`), so what is sent is covered by it (`Rightly`). The map is a
witness of the proof; TLC checked the same invariants with the map replaced by the equality of any two
answers of one revision. Every step of a request is summarised as one of `Moves` and every other step as
`Elsewhere`, and the invariants are carried through these.

**LiveProofs** (`AuthorityAssumption` and `LiveAssumption`: placeholders differ from values, periods and
capacities are positive). The two modules share no state, and each is proved under its own
specification, `AuthSpec` and `Spec`; every step of the run's `MCSpec` is a step of one of them that leaves
the other's variables alone. `AuthorityIsRecent`: what a request has read was on the chain after
it asked (`RequestsInv`), and an entry was backed by the chain when its period began
(`EntriesInv`), whichever of two reads ends first. `ChallengeOpensOnce`: a challenge is open, being
answered by one request, or spent (`LoginInv`). `StreamsInOrder`, `RevokedAtOnce`: an item waits only
behind an older one and is granted before it is written (`Streamed`, `GrantedInTime`).
`LateAnswersNeverShow`, `OffMeansOff`: the state object lives only while the analysis listens, holds
nothing from before the floor, and a request of that very object carries its samples
(`Analysing`, `Asked`); what the owner was told is in the file and in force (`SwitchKept`).

**TwinLifecycleProofs** (`LifecycleAssumption`: bounds are numbers; `RegistryAssumption`: what the Twin
may start with has distinct identifiers and parents that exist, a latest state in every stream, and is
well formed if it is prepared):
`Finishable`, `BulkOnly`, `PruningIsSuperseded`. A cleanup acts on a snapshot that may be old: an
identifier in it still names the same child, and the children whose parents it may remove were
all in it (`Named`, `SnapshotHolds`), so that from the first snapshot on, and for good once the Twin is
prepared, the registry stays well formed whatever two servers do to it (`Cleanable`). A deletion
began when no event was left, hence what it erases was added later (`Erasing`). Retention works
on what an index told it: a state it holds was published a period ago and a later one of its stream was
too (`Dated`, `Retained`), and among the later ones there is one that nothing supersedes (`Latest`).

Only model-checked: liveness (`Settles` of two runs, `Terminates`, `DeletionCompletes`), which needs
fairness and `ENABLED`, both out of TLAPS's reach. Every safety property that a run checks is proved.

## 5. Not modelled

See the component list of `PROJECT.json` for each part and its reason. In short:
message layout, cryptography (a signature or authentication tag is valid or
not), Move call construction, HTTP parsing and user interface are data; connector
libraries own their connections; stateless lookups (schemas, profiles, resolver)
have no behaviour.

## 6. Plan

1. Models: the plant routes on top of `RevisionedStore`, encrypted files, the time bounds of a
   grant in `TwinSharing`.
2. Proofs: the refinement of `RevisionedStore` by the plant routes, and by the records of
   `DeviceOnboarding`, which abstracts the catalog to that contract.
