# A TLA+ verification of nest-base

nest-base is a NestJS server template: a core of reusable server components
(`src/src/core`) that a project extends. This directory models the components of that
core in which several requests, timer ticks, server replicas or administrators work
on the same rows, and in which calls fail or processes die halfway. The models are
checked with TLC on small instances; the safety properties that matter most are proved
with TLAPS for every value of the constants.

Contents: 1. the system, 2. modules and code, 3. runs, 4. bounds, 5. fairness,
6. proofs, 7. where the code and its documentation disagree, 8. abstractions,
9. what is not modelled, 10. plan.

## 1. The system

All components run in one Node.js process per replica. JavaScript is single-threaded,
so the only points where something else can happen are awaits; several replicas share
the Postgres database (and Redis, if configured). Timers (`setInterval`) do not wait
for the promise of the previous tick, so one replica runs several ticks at once.

| Component | State | Operations | Talks to | What is hard | What makes it correct |
|---|---|---|---|---|---|
| Event outbox (`outbox/`) | `outbox_entries`: processed_at (NULL, sentinel, time), claimed_at, attempts, seq; `nextSeq` in memory | record, claimBatch, runOnce, markProcessed, start-up sweep and seeding | dispatchers: webhooks, realtime | overlapping ticks, replicas, crash between claim and mark, failing dispatcher | accepted events are delivered or used up their attempts; a claim is exclusive; sequence numbers never repeat |
| E-mail outbox (`email/email-outbox*`) | records with status, attemptCount, nextAttemptAt, claimedAt | enqueue, runOnce (list, claim, drive, write), admin retry and cancel | mail drivers, `EmailService` | stale candidate lists, slow drivers, administrators acting on mail in flight | one driver call at a time, sent means accepted, calls are capped, every mail ends |
| Idempotency keys (`idempotency/`) | stored responses with expiry; `inflight` set per process | runOrCache, cleanup job | every mutating HTTP handler | concurrent requests with one key, failing store, crash before the response is stored | no mixed-up response, retries replay, no key stays locked |
| Webhook delivery (`webhooks/`, `dx/admin-spa.controller.ts`) | endpoints with status and failure counter; delivery log | dispatch (fan-out), dispatch (one endpoint), auto-disable; the inspector's test event and redelivery | event outbox, HTTP client | counter written from an old copy, one endpoint failing, throws between writes, a second writer of the log | siblings are tried, what the log says of a first attempt is true, endpoints are disabled only when earned |
| Permissions (`permissions/`) | member and permission tables; an ability cache per replica with TTL and size bound | abilityFor, invalidate, role and rule administration | every guarded route, sockets | cache filled across two awaits while tables change and are invalidated | stale rights only where a change overlapped, and not for ever; the cache stays bounded |
| Realtime (`realtime/`) | live sockets, rooms, the inspector's registry, an ability per socket | connect, authenticate, subscribe, unsubscribe, disconnect | permissions, event outbox | hang-up during authentication, two registries | what the inspector shows is what is connected |
| Jobs (`jobs/`) | in-process queues, or BullMQ in Redis | register, enqueue, retry, start, stop, scheduleRepeat | scheduled jobs of all components | orders of register, start and enqueue; eviction with work pending | every job runs, one at a time per queue |
| GDPR erasure (`gdpr/`) | pending_erasures | DELETE /me/account, daily tick, erasing transaction | users, jobs | ticks on several servers, limited batches, cancellation, crashes | completed means erased, one active request, nobody early, everybody in the end |
| API keys (`auth/api-keys/`) | key hashes, expiry, last notice | verify, rotate, revoke, expiry notices | e-mail outbox, jobs | verification racing rotation; notices of several servers, whose timers count from their start, at the edge of a cooldown | a forged or revoked key is refused; owners are warned once and in time |
| Devices (`devices/`) | sessions with fingerprints, mail throttle | handling of a sign-in | better-auth, e-mail | concurrent sign-ins, failing queries | the cap on sessions, the spacing of mails |
| PowerSync (`auth/powersync*`) | synchronised rows with updatedAt | batch upload | durable store | read and write apart, batches sent twice or late, clock skew | a batch counts once and nothing acknowledged is undone |
| Chunked uploads (`files/`) | staged body and metadata, files, records | create, write, declareUploadLength, remove, finish hook | storage adapters, @tus/server | failures between two puts or in the middle of one, requests beside a finish hook, two replicas at once | stored bytes are a beginning of the file, a record is the whole file, uploads resume |
| Image variants (`files/`) | cached bytes and an index of them | delivery, invalidation, pruning | storage, transformer | deliveries overlapping invalidations, rows without bytes and bytes without rows | outdated variants go |
| GeoIP database (`geoip/`) | the file, lastRunMs, the reader | boot, daily refresh, lookup | download server | a write in place cut off by a failure or a crash | a torn file is replaced |
| Migration handler (`dx/migrations/`) | folders, applied rows, an advisory lock | deploy, apply, retry, dry run, create, discard | Prisma CLI, connection pool | a session lock over a pool, long children | one migration at a time, the lock is given back |
| Permission matrix (`dx/clients/`) | what a page has loaded, the active organization | click (make a policy, attach it, permit), revoke | permission administration, by hand too | clicks of one to three requests by a stale view | permissions reach the role; clicks leave no policy without a role |
| Throttling, multi-tenancy, GDPR export, files and folders | rows | | | see section 9 | |
| The rest | configuration, views, formats | | | none of its own | |

How they interact. Request handlers call `OutboxRecorder.record()` and
`EmailOutboxRecorder.enqueue()` and return. Timers drain the two outboxes. The event
outbox fans every entry out to its registered dispatchers, of which webhook delivery
is one and the realtime bridge another: an entry leaves the queue only when all of
them return, so *when a dispatcher returns normally* decides what at-least-once means
further down. The idempotency interceptor wraps handlers, so it sees each request
before any of the others. Requests and sockets get their ability from the permission
cache. Scheduled jobs (cleanup, erasure, expiry notices) run in every replica, each
through that replica's job queue.

`PROJECT.json` lists all components with their status, and under `hazards` the lines
at which the code is most exposed to an interleaving, a failure or a boundary that
tests hardly reach, together with the property that covers it.

## 2. Modules and code

`PROJECT.json` (`map`) gives the source lines of every definition. An action is the
code between two awaits. Definitions introduced as *Variant of X* are deliberate
mistakes: substituting one for X must make TLC find a violation, which shows that the
property depends on that piece of code.

**Outbox** (`src/src/core/outbox`). `row[e]` is the row's processed_at: NULL
(`null`), the in-flight sentinel (`inflight`) or a time (`processed`), or a stage
before the INSERT commits. `boot[r]` is `OutboxWorkerLifecycle`: `BootReset` is
`resetStaleSentinels()`, `BootSeed` is `maxSeq()` with `initSeq()`, each with an
action for its logged failure; `Shutdown` stops the timer only. A run `t` is one
`runOnce()` of one replica: `ClaimBatch`, then per entry `NextEntry` (count, retry
cap, start all dispatchers), `DispatchOk`/`DispatchFails` in any order, and
`MarkProcessed`, `DeadLetter` or `LeaveUnprocessed`; `RunFails` is a throwing UPDATE.
`Durable` selects the Prisma or the in-memory store. **OutboxPromise** is the
component's contract without rows, ticks or processes: accepted events are owed,
delivered any number of times, and written off once, rightly.

**EmailOutbox** (`email-outbox*.ts`). `Lookup`/`Append`/`AppendFails` are
`enqueue()` around its await; `List` is `listDispatchable()`, whose result `seen` is
a copy that later writes use; `ClaimMail` is the conditional UPDATE, followed by the
driver's answer and `MarkSent`, `MarkDeadLetter` or `RecordTransientFailure` with
`planEmailRetry()` as `Terminal`. `MarkSentFails` falls into the same catch block as
a driver error, as in the code. `AdminRetry` and `AdminCancel` are the controller's
actions.

**Idempotency** (`idempotency/`). `pc[q]` follows `runOrCache()`; `Get` is the only
read of the store, `Conflict`, `Replay`, `Busy` and `Start` are what happens
after it, `Release` is the finally clause. `inflight` is per process, `rec` is shared.

**Webhooks** (`webhooks/`). A call is one `WebhookOutboxDispatcher.dispatch()`; the
loop takes each endpoint through `WebhookDispatcher.dispatch()`. `snap` is the copy of
the failure counter that `findById()` returned before the POST. `WriteFails` and
`GiveUpOn` are the loop's catch clause. `SendTestEvent` and `Redeliver` are the two
handlers of the webhook inspector that write the log without a POST; a row has its attempt
count, since that is what tells a redelivered row from one the dispatcher wrote.

**PermissionCache** (`permission.service.ts`, `prisma-permission-storage.ts`, the
administration's handlers). A call is one `abilityFor()`: `Hit` or `Miss`, then
`ReadMember` and `ReadGrants`, the two awaited queries, and `Fill`, which goes through
`Map.set()` and `evictIfNeeded()`; `order` is the Map's insertion order. An entry has an
age, `Tick` is the clock. A handler writes the tables (`ChangeGrants`, `AssignRole`,
`TenantAdminChange`) and joins `pending` until it reaches its `Invalidate`, if it has one.

**Realtime** (`realtime.module.ts`, `inspector-state.ts`) extends it with sockets: `link`
is Socket.IO's view, `auth` the asynchronous authentication, `registry` and `listed` the
inspector's, `rooms` the joined rooms. **Access** composes the two: a socket's ability
and a request's ability are calls of the cache, the latter narrowed by key scopes.

**JobQueue** (`bullmq-job-queue.ts`, in-process). `chain[q]` counts the scheduled
`processOne()` calls: `ProcessNothing`, `ProcessNext` and `Finish` are its early return, its
start and its end with eviction. **Erasure** (`gdpr/`) has the rows with their age in
days, `CheckExisting` and `Insert` as the two queries of a request, and a tick's plan of
rows, erased one transaction after the other; a row that is done with is used again, so
new requests come for ever. **Background** composes them: every server's erasure tick is the
handler of its queue; `Crash` loses queue and plan, any number of times.

**Requests** joins seven modules that share no state.

- **ApiKeys**: verification in three steps (lookup, argon2, `updateLastUsed`), of genuine
  and forged secrets, against rotation, revocation and expiry.
- **Notices**: the daily expiry job of every server as plan, send and mark. `due[s]` is the
  timer of a server without Redis: `setInterval` of a day from the start of the process
  (`PassTime`, `ReadKeys`), which `Restart` begins anew.
- **Devices**: a sign-in's handling from fingerprint to mail.
- **PowerSync**: a batch from load over conflict resolution to the transaction, and the
  devices that send it again. `Merge` spreads the data over the row, an `id` among them
  too, and `Commit` writes each row under the id it then has.
- **Variants**: delivery, invalidation (index first, sweep if it lists nothing) and pruning
  over cache and index.
- **Migrations**: the handler's calls under `withAdvisoryLock()`, whose lock and unlock go out
  over any connection of a pool; the Prisma CLI is external.
- **Matrix**: a click of the permission matrix from `Load` to `Permit`, on several pages of
  one session, while roles are made, renamed and deleted and policies are made, attached,
  detached and deleted by hand.

**Uploads**: the tus data store over a storage adapter, where body and metadata are two
objects, and the finish hook (copy, put, insert, remove). `lock[q]` is the lock of a
process, which @tus/server holds from the start of a request to the end of `write()` or
`remove()`: the finish hook runs without it. `disk` says where the objects are: in a storage
that replicas share, with an atomic put (`PutBody`), or on one replica's disk, where
`LocalStorageAdapter.put()` writes over the old object (`OverwriteBody`, `FillBody`) and a
request that fails in between leaves fewer bytes than before. `Expire` is the 410 that
`getExpiration()` switches on. **Geoip**: boot, daily tick and download with the file written
in place.

`Requests` and `MCJobs` put several modules that share no state into one run: a
variable `part` is chosen at the start and a behaviour takes the steps of that part only,
which covers every behaviour of each.

The other `MC*` modules only define constant values and symmetry sets. The `*Proofs`
modules extend the component's module and hold theorems.

## 3. Runs

| Run | Instance | Checks | States | Shows |
|---|---|---|---|---|
| `outbox_replicas` | 2 replicas, 2 entries, 1 tick each, batch 2 | ClaimIsExclusiveLease | 1.6 M | with failing UPDATEs, a failing sweep, crashes and reboots, two ticks hold one entry only if one of them exceeded the five minutes |
| `outbox_single` | 1 replica, 2 overlapping ticks, 2 entries, 2 dispatchers, cap 1 | ProcessedMeansDelivered, SeqUnique, KeepsPromise | 54 k | nothing leaves the queue undelivered, numbers survive restarts, OutboxPromise is implemented |
| `outbox_memory_live` | in-memory store, 2 overlapping ticks | PoisonPillLeaves | 3 k | failed entries come back and, with a cap, leave |
| `email_replicas` | 2 enqueue calls with one key, 3 ticks, all faults, administrator | ClaimSerialisesSends, SentMeansAccepted, HardCeiling, QuietForGood | 397 k | the claim serialises sends, driver calls are capped but where a count was old or a claim lost, records do not lie, finished mail stays finished |
| `email_live` | 2 mails, 2 ticks, slow drivers | EveryMailEnds | 728 k | every pending mail ends even if the driver never succeeds |
| `idempotency` | 3 requests, one key, 2 bodies, 2 processes, all faults | InflightIsMutex, AnswerIsFaithful, RetryReplays, KeyIsReleased | 37 k | the in-flight set is an exact mutex and always released, answers match the request, retries replay |
| `webhooks` | 4 calls (1 undeclared event), 2 endpoints (1 bad URL), threshold 2, all faults | DisabledIsEarned, LogIsTruthful, SiblingsAreTried, CountIsExactWhenAlone | 3.4 M | an endpoint is disabled only after as many failures since the last success that had it to itself; what the dispatcher logs is true and complete although the inspector writes rows too; no sibling is skipped |
| `access` | 2 replicas, 2 users, 2 requests, 1 socket, 1 cache slot | BooksAreSound, StaleOnlyByOverlap, StaleEntriesEnd | 833 k | stale rights arise only where a change overlapped the reads or was not announced, and end; cache and socket registry keep true books |
| `jobs` | 1 queue, 4 jobs; GeoIP with 2 crashes | WorkIsScheduled, RefreshIsSound, EveryJobRuns, TornIsReplaced | 26 k | no order of calls strands a backlog (but the one named in section 7), every job runs; a torn file is due or hidden by its date, and replaced |
| `background` | 2 servers, 2 rows used again and again, batch 1, crashes | CompletedIsErased, RepeatsCollapse, ErasureIsDue, RequestsAreErased | 315 k | erasure is atomic, repeats collapse unless their checks overlapped, nobody is erased early, everybody in the end once the active rows fit into a batch |
| `requests` | seven parts, see section 4 | RequestsTypeOK, AcceptedKeyIsValid, SignInsAreLimited, BatchesCountOnce, PassesClear, LockIsSound, WarnedOnce, GrantsAreSound | 3.2 M | each protocol keeps its promise except under the overlaps its property names |
| `uploads` | 2 replicas, 2 requests at a time, 2 bytes, 1 failure, shared or local storage | StoredIsSound, RecordedOnce, Resumes | 2.5 M | stored bytes are a prefix, nothing acknowledged is lost but by a put in place that is cut short, one whole file per upload unless requests overlap, uploads resume |

A property named `...Sound` or `...Limited`, `WarnedOnce` and `PassesClear` is a conjunction
of named parts, each with its own comment in the module. Type invariants are theorems; runs
check those of the later modules too, in `BooksAreSound`, `RefreshIsSound`,
`RequestsTypeOK` and `StoredIsSound`.

Runs with `CHECK_DEADLOCK FALSE` end when the finite set of mails, requests, calls or
chunks is used up, or (outbox liveness) when the server was shut down. The two outbox
safety runs, `access`, `jobs` and `background` check deadlock: a server can always go on.

## 4. Bounds

- *Outbox.* Two entries are the least with which a batch, an order by `seq` and a
  collision exist; two runs are the least that can share an entry, taken once as two
  replicas and once as two overlapping ticks. Attempts saturate one above
  `MaxAttempts`, the only value the code compares them with.
- *E-mail.* Three ticks, because the third is what a second lost claim needs; two
  mails share the key in the safety run and none in the liveness run. `MaxAttempts`
  2 has a first, a last and a non-terminal failure.
- *Idempotency.* Three requests with one key: two that compete in different
  processes, and one with another body in the first one's process.
- *Webhooks.* Threshold 2 and three deliveries to the good endpoint make stale
  counters, resets and a disabled endpoint happen; a fourth call has an undeclared
  event. Each call visits an endpoint at most once, so counters are bounded by the
  number of calls. The inspector acts on one of the two endpoints, and any attempt count
  above one is 2.

- *Access.* All calls are served by one replica and administrators act on both, because
  what matters is whether a change is announced to the cache in question; one slot makes
  every second fill evict; one change of one role's right is what a stale read needs.
- *Jobs.* Four ids with two finished records kept make eviction choose while jobs wait. An
  interval of three ticks tells fresh, ageing and due apart; two crashes allow one during
  the repair of another.
- *Background.* Two requests of one user and maybe an older one of another, batches of one,
  so that a row in its grace period can take a due one's place, again and again: rows are
  used anew. Neither crashes nor failures nor days are bounded.
- *Uploads.* Two bytes in chunks of at most one: a partial, a final and an empty PATCH
  exist. Two requests at a time are the least that overlap, on two replicas, or one beside
  the finish hook of the other; one failure is what each kind of harm needs.
- *Requests.* One key, two rotations, two verifications; three sign-ins where one session
  is allowed; two devices with two batches each, two calls at once, two lost answers and a
  clock one tick fast; two variants, a source written twice, a delivery against two
  invalidations, one failure; two users of the migration handler over two connections; two
  servers and a key that expires after four days of two ticks, one failure or restart of
  each; two matrix pages over a role of each of two tenants, two names, two policies, one
  failure or change by hand, one permission per policy. Each is the least in which the
  overlap named by the property happens.

Symmetry is used only in safety runs, over replicas, ticks and the calls with equal
constants. The theorems of section 6 do not depend on any bound.

## 5. Fairness

Weak fairness of what the runtime does by itself: the timer fires, awaited queries
settle, time passes (a claim goes stale, a backoff elapses), a started loop goes on,
a dispatcher, driver or handler settles one way or the other. Nothing makes a
dispatcher or driver *succeed*, a crashed process restart, or an administrator act.
In `Idempotency` only requests already in `runOrCache()` are fair. Webhooks has no
liveness property: `fetch()` is called without a timeout, so nothing in the code
bounds it (listed as a hazard).

- `access`: weak fairness of the clock, of loading an ability and of a handler's
  `invalidate()` after its write; requests need not come.
- `jobs`: weak fairness of `Work`, the microtask chain and the handler's end; the calls
  of the queue's users are not fair. For GeoIP weak fairness of boot, day and tick, and
  strong fairness of the three steps of a download: one that is tried again and again
  succeeds once. Without it a server that is never reached leaves the file torn.
- `background`: weak fairness of queues, ticks and days, strong fairness of reading the
  pending rows and of the erasing transaction, which may each fail any finite number of
  times in a row; and crashes cease at some time, since a server that never stays up for a
  tick erases nobody.
- `uploads`: weak fairness of a started request's steps and of the creation, strong fairness
  of the client's resuming PATCH: requests share a lock, and a client that keeps coming back
  finds it free now and then.

## 6. Proofs

All theorems hold for any number of entries, replicas, ticks, mails, requests, calls,
sockets and endpoints and for every subset of the faults, from the named assumptions of
the modules only (`OutboxAssumption`, `EmailAssumption` and so on). These type the
constants, make thresholds positive, keep placeholders such as `NoWorker` or `Gone`
apart from real values and from each other, and make a set finite where a cardinality is
used (the servers, the sign-ins, the users of the migration handler). Every safety
invariant, every action property and the refinement that a run checks is a theorem here.

*OutboxProofs.* `RunInv` ties a running tick to the table: what it holds is in the
table, each dispatcher that is no longer awaited by an unfailed `Promise.all` has
accepted the entry, and the dead-letter branch is reached only above the cap. With
it `NothingLeavesUndelivered` is inductive (an entry may have been delivered by a
*different* tick, hence the strengthening over `delivered`). `LeaseInv` says that an
entry held for less than five minutes is not claimable and not stale, which is why
no claim and no sweep can hand it out again: `LeaseIsExclusive`. `SeqInv` bounds the
numbers in use by `nextSeq` and gives `SeqNeverReused`, under the two hypotheses it
really needs: one replica, and a seed query that does not fail. `ImplementsPromise`
maps `row` to the debt (`null` and `inflight` are owed, `processed` is settled),
`delivered` to what dispatchers got and `attempts` to tries, and shows every step to
be a step of OutboxPromise or a stutter, using `RunInv` for write-offs.

*EmailOutboxProofs.* `HoldInv` links a tick's phase to the record it holds;
`LeaseInv` says that an undisturbed mail has at most one holder and is then either
cancelled or pending with a fresh claim (cancelling frees the claim, but a cancelled
record cannot be claimed). They give `TypeCorrect` (with attemptCount below the
cap), `ClaimSerialises`, `SentIsAccepted`, `OneRecord`, and `QuietStays`, an action
property. `CeilingHolds` needs the counts: the calls made for a mail are bounded by the
stored attempts and the calls under way, unless a tick went by an old count, died or
lost its claim (`miscounted`, `disturbed`), which is what the property excepts.

*IdempotencyProofs.* `MutexInv` relates the in-flight set to the requests in the try
block; `RecordInv` says stored and read records belong to their key and to a completed
handler; `RetryInv` says that a stored response is found unless a record of its key
expired. They give `Mutex`, `Faithful`, `RetriesReplay`.

*WebhooksProofs.* `VisitInv`, `FanoutInv` and `LogInv` follow a call through its loop,
`LogInv` next to the inspector's writes, which `InspectWrites` separates from all else.
`since[w]` is the calls that failed since the last success that no other call met at the
endpoint (`MetInv`); `CountInv` bounds every counter and every stale copy by the number of
*other* calls in it, which is why overlapping writes can lose failures and can lose a
reset, but cannot invent failures; `AloneInv` describes the counter at each phase of a
delivery that nobody overlaps. They give `SiblingsTried`, `LogTruthful`, `DisabledEarned`,
`CountExact`.

*BackgroundProofs.* The queue's theorems (`QueueTypeCorrect`, `BacklogIsTakenUp`,
`BacklogKept`) rest on `Attended`: a running queue with a backlog is inside a job, or has a
`processOne()` call in its promise chain, or its last call found no handler because
`register()` came late. Eviction needs the exact correspondence
between the waiting line and the created records. Of the composition
`BackgroundTypeCorrect`, `CompletedMeansErased`, `RepeatsAreCollapsed` and `ErasuresAreDue` (an
action property) are proved; a tick's plan holds only rows that were due when they were
read, which is the strengthening the last one needs.

The GeoIP part of the module has `RefreshSound`: only a running process downloads, and
while it does the refresh stays due, because lastRunMs moves with a whole file only
(`RefreshInv`).

*AccessProofs.* `OrderInv` says that the Map's order names exactly the entries, each once
and at most maxEntries; the lemmas before it say what `Map.delete()` and the eviction loop
do to a sequence without repetitions. `RegistryInv` follows a socket from its connection
to its rooms. Together they give `BooksSound`. `StaleByOverlapOnly` rests on `CallInv` (a
computation under which nothing changed holds what the tables say, at each of its two
queries and at its fill) and `EntryInv` (so does an entry that is not in doubt and of
which no announcement is outstanding). The proof found a gap in an earlier
definition of the history variable `suspect`, which marked a call only when its user's
rules changed: a user moved between two roles of equal rights, while a call is between its
queries, was missed, and the call then reads the old role's grants whatever becomes of
them. That takes two roles and two changes, more than the `access` run has; a change of
the role now marks the call as well.

*UploadsProofs.* `DataInv` says that every copy of the bytes, stored or in the hands of a
request, is a beginning of the file, and that a request appends where its copy ends; a put
in place that is cut short leaves a beginning too. `LifeInv` orders the requests of a
client around the POST; `LocksInv` says which stages have a lock and that there is one at
a time unless `overlap` tells otherwise; `HoldInv` describes what the request with the
only lock finds at each of its steps. They give `UploadTypeCorrect` and `StoredPrefix`;
with `OffsetInv` (the offset lags behind the body only between the puts) `StoredSound`.
For `RecordedOnceHolds`, `WholeInv` says that a finish hook finds the whole file although
it has no lock: a request that is let in beside it has read the complete body and puts the
same again. `OnceInv` says that a recorded upload lets no PATCH in any more unless its
removal was cut off.

*RequestsProofs* has the seven parts of Requests.

- ApiKeys: `AcceptedKeysAreValid`, an action property, from `FoundInv` (what a verification
  found is the row's secret until something overtakes it) and `HashedInv` (past argon2 the
  secret is genuine).
- Migrations: `LockSound` counts. `LockInv` says that one session at most has the lock and
  has taken it once per request it still holds it for, more often only where an unlock
  went astray.
- Matrix: `GrantsSound` from `PolicyInv`: what is attached has its name, and a policy that is
  not spoilt is attached to a role or a page is about to attach it, whatever roles and
  policies are changed by hand.
- Devices: `SignInsLimited` from `RowsInv` and `MailInv`. `Oldest` and `Without` are shown to
  remove exactly one row of a sequence that has none twice, so each decision above the cap
  makes room for one sign-in.
- Variants: `InvalidationClears`. `IndexInv` accounts for every cached variant: listed,
  known as unlisted, or in the hands of a request; `PassInv` says that a source has no row
  after an undisturbed pass, so the next one sweeps.
- Notices: `OwnersWarnedOnce`. `TextInv` ties every stored text to its idempotency key, and
  distinct texts have distinct keys because they differ by whole days. `TimerInv` bounds how
  late a timer is. For the warning in time, `QuietInv` says that nothing keeps a job from
  warning while nobody was told, and `LateInv` how far the failures and restarts of a server
  can have pushed its timer into the warning period: two days each. The lemmas `Products`
  and `Division` supply what SMT does not know of `*`, `\div` and `%` with a symbolic divisor.
- PowerSync: `BatchesOnce`, for batches of any length. What a batch does to one document
  is one of four net effects (nothing, a patch, a put, a removal), each of which done
  twice is the same as done once (`NetAgain`, from `MergeAgain`); `NetOfBatch` finds it
  operation by operation. `ApplyBatch` is a recursive function over the length of the
  batch, and the induction over it is an argument by the least counterexample (`Least`),
  which needs no operator as a parameter. `OwnIds` says that the rows of a batch without
  foreign ids keep their ids, so that what is written is what is named. `CopiesInv` says
  that a call in hand holds what its batch makes of the data with every batch counted
  once, and that a counted batch would change nothing, up to documents that were
  disturbed.
- Requests: `PartsAreKept` shows that its behaviours are behaviours of each part, so
  `RequestsTypeCorrect` and the other theorems carry over.

Only model-checked: the eight liveness properties (PoisonPillLeaves, EveryMailEnds,
KeyIsReleased, EveryJobRuns, TornIsReplaced, RequestsAreErased, StaleEntriesEnd, Resumes),
because the prover handles neither fairness nor ENABLED.

## 7. Where the code and its documentation disagree

Observations made while modelling. The models contain the behaviour as it is; the
properties name it as their exception. None has a run of its own.

*Event outbox.* The Prisma store claims rows with processed_at NULL only, and a failed
dispatch leaves the sentinel, so the entry waits for the next process start and not for
the "next tick". Overlapping ticks over the in-memory store hold the same entry (it has
no sentinel). Two replicas give out equal sequence numbers.

*E-mail.* Two overlapping ticks that listed a record before either claimed it both try
it and store the same attempt count: more than `maxAttempts` driver calls in all. An
administrator's retry clears the claim of a record in the driver call, so a second tick
sends it at the same time. The loser of two racing `enqueue()` calls with one key gets a
database error and not the existing record. A cancelled mail whose driver call succeeds
afterwards becomes `sent`.

*Idempotency.* The store is read before the in-flight set is looked at; a request that
read a miss and resumes after the other has finished runs its handler again.

*Webhooks.* A failed POST is logged, `dispatch()` returns and the event is processed;
nothing tries again, although the documentation says at-least-once. Overlapping
deliveries lose failures, so an endpoint may fail more than `autoDisableAfter` times in
a row before it is disabled. They lose resets as well: a failing delivery that read the
counter before a success writes its old copy, one up, over the reset, so the failures that
disable an endpoint need not be "consecutive" (`retry-policy.ts:5`, `:32`). A URL that is
refused counts up to `autoDisableAfter` like any failure, one event at a time;
`webhook-dispatcher.ts:137-139` says that it is disabled "without repeated attempts". The
inspector's test event inserts a row that says DELIVERED with status 200, and its
redelivery turns any row into one; neither sends anything (`admin-spa.controller.ts:440`,
`:487`), so DELIVERED means an answered POST only in a row that is no test and has one
attempt.

*Permissions and realtime.* `removeMember` and `updateMemberRole` of the tenant
administration never invalidate, although `permission.service.ts:16` says so. The two
queries of `findRulesForUser()` can give rights the user never had. A rebuilt expired entry
keeps its old position in the Map. `hasSocket()` is true for sockets that were registered
after they had hung up during authentication. The outbox bridge emits to
`tenant:<id>` and `user:<id>`, which no client can join because channel names need three
parts. `broadcastGlobal()` counts the registry, `server.emit()` reaches all sockets.
`RedisPermissionCache` has no caller.

*Jobs.* enqueue, start, register in this order leaves a job waiting for the next enqueue,
and `drain()` waiting for it, though a comment says late registration is handled.
`retry()` after `stop()` restarts the queue.

*GDPR.* The batch is limited to 500 rows without an order and before the grace period is
looked at (`gdpr-erasure.factory.ts:94`). While there are more active rows than that, the
query may keep to rows in their grace period, new ones day by day, and never return one
that is due: `RequestsAreErased` is about tables that fit into a batch from some time on.
The stale sweep of exports walks the in-memory registry only; export rows survive the
erasure of their user.

*API keys and devices.* Sign-ins from a known device make no room, so the cap does not
hold after every sign-in as `device-handling.ts` says; with a cap of one, two overlapping
sign-ins can revoke each other. `createRedisNewDeviceThrottle`, `ThrottlerService` and
`RecipientRateLimiter` have no caller. The notice's cooldown equals the period of its cron,
so a job that starts a moment early skips a day. Without Redis that cron is an interval
of a day from the start of the process (`scheduled-job-bullmq-adapter.ts:78`,
`cron-interval.ts`), not an hour of the day: a restart begins it anew, and servers that are
restarted more than once a day never warn anybody. Of two servers that store a notice at
once the second one's insert fails on the unique key.

*Migrations.* Over pooled connections the advisory lock does not exclude: the same
session takes it again, an idle connection may be closed during the run, and an unlock
may go out over another session. A lock left behind answers 409 to everybody.
`retryFailed()` always throws, because `runResolveRolledBack()` validates a folder name as
a migration name. `discardDraft()` takes no lock and may delete an applied folder.
`appliedNames()` swallows errors and is read before the lock.

*Uploads.* A crash between the puts of body and metadata strands the upload. The local
driver, the default, writes in place: a put that fails halfway loses bytes that earlier
requests were told are stored. Replicas overlap because the lock is per process. The lock
is released before the finish hook, so that a second, empty PATCH at the full offset runs
the hook again and makes a second record; with the local driver the first hook may then
copy a body that is being written and record a short file. A failed finish hook is never
called again by a client that has sent all its bytes; `deleteExpired()` and
`upload-session.ts` have no caller.

*PowerSync.* The controller takes now() for the client's time, so the conflict rule acts
only under clock skew, and then drops a patch that is acknowledged. Overlapping batches
lose updates; a late copy overwrites newer writes; PUT merges like PATCH; there are no
protected fields, so 409 never occurs. The merge spreads the client's data over the row
with its id: an operation on one document whose data carry the id of another writes that
other one, and not the one it names (`powersync-conflict.ts:60`,
`powersync.controller.ts:111`).

*Image variants.* A delivery that rendered before its source was written may put its
outdated bytes after any number of invalidations; they are then served, although
`asset.controller.ts:115-116` says that the next request renders anew. `record()` promises
to refresh createdAt, the upsert's update omits it; pruning drops rows but not bytes, so
one invalidation can leave outdated variants; an invalidation that finds no rows sweeps
the cache of all sources; `exists()` then `get()` can answer 404 for an asset that exists.

*GeoIP.* After a restart a torn file counts as fresh by its mtime for a whole interval:
"will retry on next tick" does not survive a restart. A lookup before the first download
caches the missing reader for the life of the process.

*Rate limits.* The windows of `RateLimitConfigService` are read by no limiter, and a slow
timer refresh can swap in rows read before an edit.

*Matrix and other pages.* Policy names are unique over all tenants, so a second tenant's
role of that name, a policy left by a failed attach, by a deletion of its role or by a
rename, or one made by hand under that name makes granting impossible. A
stale view puts a permission on a policy the role has lost. Policies are shared between
tenants, so revoking takes the permission from all. The matrix is not loaded again after
an error; the MANAGE branch of `revokeMatrixAction()` cannot be reached. The file list's
query key lacks the tenant, and the share dialog can show another file's link.

## 8. Abstractions

- Payloads, addresses, templates, signatures, hashes and URLs are absent or abstract
  values; only equality of keys and bodies matters.
- Time is flags. A claim's age (five minutes, thirty seconds), a backoff or a TTL
  elapses at any moment after it starts, which includes every real timing.
- *Outbox*: a crash with the in-memory store ends the behaviour; an INSERT in flight
  when its process dies is lost (had it committed, that is the behaviour in which
  `Append` came first).
- *E-mail*: Ticks are calls of any replica; a crash ends one of them, and a process
  that dies is several such steps. An administrator's read and write are one step
  because the write repeats the check in its WHERE clause. `createdAt` is a rank.
- *Idempotency*: a record is named by the request that wrote it; a client's retry is
  one more request.
- *Webhooks*: which endpoints match, which URLs pass and which events are declared
  are constants; the POST settles. Deleting an endpoint happens in project code and is
  modelled from the foreign key only. `computeRetryDelayMs()` and
  `fanoutMasterEvent()` have no caller and are left out.
- *Access*: an ability is the set of rights it gives; conditions and fields are CASL's. A
  handler's write is one step, whatever its number of statements. Sockets are those of a
  server with better-auth: without it (tests, a development set-up) they are accepted as
  anonymous, with no rights to subscribe.
- *Jobs, Background*: job data and results are absent; the in-process backend only. Which
  tables a transaction empties is not told apart. Cancelling a request is project code,
  modelled from the column it writes.
- *ApiKeys, Devices, Notices*: a lookup id is the number of its issue, a secret the one
  issued with it or a forged one, which argon2 tells apart; fingerprints are opaque; a day
  is a few ticks, a job has planned at most `Lag` ticks after its timer and is done before
  the next. The repeat schedule of BullMQ, with Redis, is not modelled.
- *PowerSync*: type and id make one document, a value is a number; the clock ticks at most
  `MaxClock` times. Of the fields that data may carry besides the payload only `id` matters.
- *Variants*: bytes are the version of the source they were made from.
- *Migrations*: names and SQL are absent; a child runs, applies one folder at a time, and
  fails at any of them. *Matrix*: a resource and an action are one grant; a policy's name
  does not change.
- *Uploads*: the file's bytes are numbered. @tus/server is not in the repository; what is
  assumed of it is that it compares the client's offset with `getUpload()`, refuses an
  expired upload, holds its lock for the time of `write()` and `remove()` only, and calls
  `onUploadFinish` after a PATCH that reaches the length. The local driver's disk belongs to
  one replica: replicas that mount one directory are not modelled.
- *Geoip*: a file is absent, torn or whole. The download at boot and the daily ones go one
  after the other; a boot download that takes longer than a day, which could meet the next
  tick's, is not modelled.
- History variables are read by no guard: `delivered`, `overdue`, `accepted`, `tries`,
  `miscounted`, `disturbed`, `ranOk`, `before`, `targets`, `excused`, `got`, `lost`,
  `streak`, `alone`, `since`, `met`, `suspect` and the entries' `doubt`, `hungUp`,
  `starved`, `blind`, `doubled`, `late`, `overtaken`, `mails`, `crowd`, `passes`,
  `unlisted`, `leaked`, `lapsed`, `sent`, `troubles`, `cut`, `overlap`, `harm`, `astray`,
  `spoilt`, and in PowerSync what a batch's effect is compared with.

## 9. What is not modelled

The components marked `not_modelled` in `PROJECT.json`, with the reason for each. In short:

- sign-in and sessions belong to the better-auth library, the Redis job path to BullMQ,
  row level security and the throttler's upsert to Postgres. What the throttler counts
  depends on how @nestjs/throttler fills the arguments of `increment()`, which is not in
  the repository;
- rate limit configuration is read by no limiter; recipient limiters and some Redis
  variants have no caller;
- GDPR exports, files, folders and tenants are single statements, or a check and an
  insert that a unique index decides;
- the realtime bridge keeps nothing; the developer hub, most admin pages, scaffolding,
  setup, rendering, OpenAPI, branding, search, geocoding, encryption and observability are
  views, formats or stateless transformations.

These parts are most of the repository's lines: React pages, controllers that return
views, planners and renderers of a setup that runs once. A model of them would restate
their assignments, so the share of the source that the map covers stays small; what
has a protocol over shared state is modelled.

## 10. Plan

Done: Outbox with OutboxPromise, EmailOutbox, Idempotency, Webhooks; JobQueue, Erasure and
Background; PermissionCache, Realtime and Access; ApiKeys, Devices, Notices, PowerSync,
Variants, Migrations and Matrix, joined in Requests; Uploads; Geoip. All with proofs of
what is not liveness.

Next:

1. Stronger statements where the proofs show that more holds: the fan-out of webhooks
   loses only failures that overlapped, and by how many; the eviction of PermissionCache
   drops the entry that was filled first.
2. An abstract specification of the permission cache, a register with bounded staleness,
   which the cache is shown to implement; the same for the advisory lock as a counted
   lock with leaks.
3. Composition of Outbox and Webhooks: the outbox's promise with webhook delivery as its
   dispatcher, so that what at-least-once means is stated end to end.

Runs stay one per question: safety properties of one instance share a run.
