# Humans: a verification project

Humans is a research workspace for people and their relationships: a Next.js / TypeScript modular
monolith over PostgreSQL, Redis, an S3-compatible object store and a worker process.  This
directory holds TLA+ models of the parts of it that are concurrent, that fail in the middle, and
that hand work on to each other; the TLC configurations that check them; and proofs, checked by
TLAPS, of every safety and action property that a passing run checks, for any numbers of processes,
rows and failures.  Paths are relative to the repository's root.

- `*.tla` named after a component: the model.  `MC*.tla`, `MC*.cfg`: instances for TLC, of one
  module or of several (`MCJobs`, `MCFiles`, `MCRequests`, `MCWorker`).
- `*Proofs.tla`: theorems, about a component or, in `JobsProofs`, `RequestsProofs` and
  `WorkerProofs`, about what the `MC` module of that name composes.
- `PROJECT.json`: components, runs, the faulty variants that each property must reject, the lines
  every definition models, findings, hazards and theorems.

To check a run: `tlc -config MCJobs.cfg MCJobs`; the proofs: `tlapm JobsProofs.tla`.

## 1. Inventory

### How the parts interact

```
 browser / API client
    |  GraphQL (src/graphql)            PUT /upload (src/modules/files/upload-proxy.ts)
    v                                            |
 context -> operation limiter -> domain service  |        Redis: token buckets,
    |          (token bucket)        |           |               job lease keys
    |                                v           v
    |                        PostgreSQL <--- S3-compatible store
    |                   rows, jobs, outbox       ^
    |                                ^           |
    +--------------------------------+           |
                                     |           |
                     worker passes (src/worker/run-once.ts)
              claims -> handlers: import, AI, extraction, cleanup, webhook
              outbox drain -> mail provider       webhook POST -> destination
```

Everything durable is a PostgreSQL row.  Work that cannot finish inside a transaction is handed
to the worker as a row of `jobs` or of `auth_email_outbox`, written in the transaction that needs
it.  The worker runs *passes*: a pass reconciles cleanup work, claims up to 25 due jobs in one
statement, and works through them one at a time; each claim has a database lease of 60 s, a
generation number, and a Redis key that keeps a second pass off.  Passes of several worker
processes overlap.

### Components, state, operations, what makes them correct

| Component | State it keeps | Operations | Hard because | Correct when |
|---|---|---|---|---|
| Job queue (`modules/jobs`, `worker/run-once.ts`) | `jobs` rows, Redis lease keys, locals of a pass | enqueue, claim, renew, complete, fail, defer, requeue, cancel, release | overlapping passes, crashes, lost replies, two leases for one job | only the current claim settles a row; attempts are exact; every job ends |
| Uploads and cleanup (`modules/files`, `lib/storage`) | `upload_sessions`, `files`, the object, cleanup jobs | claim/finish/abort PUT, complete, cancel, regrant, archive, clean up, reconcile | the PUT happens outside the transaction and may take effect late | available files keep their bytes; no object is left over |
| Auth mail outbox (`modules/auth/email-outbox.ts`) | `auth_email_outbox` | enqueue, claim, deliver, settle, retain | delivery outside the transaction; invitations change under it | mail of a live invitation goes out or dies visibly; none goes out after a cancel |
| Members and invitations (`modules/settings/workspace-members.ts`) | `invitations`, `members` | issue, resend, cancel, replace, accept, change role, remove | races with the outbox and with each other | no live mail for a dead invitation; a workspace keeps an owner |
| Token bucket (`lib/redis/index.ts`) | a Redis hash per key | consume | integer fractions, expiry, a clock that steps back | grants at its rate, no more, no less |
| Operation limiter (`graphql/operation-limiter.ts`) | none | consume actor bucket, then client bucket | one of two fails | fails closed |
| Webhooks (`modules/webhooks`, `worker/handlers/webhook-delivery.ts`) | `webhooks`, `webhook_deliveries` | create, rotate, disable, enqueue, deliver | the attempt number of the job doubles as a duplicate check | every retry is made; no delivery after the end |
| Imports (`modules/imports`) | `imports`, `import_rows` | stage a file, map, start, execute a slice, retry | requests that stage side by side; row by row under a claim that may be lost; the job's dead letter ends the import | each row is applied once; the staged rows are exact; job and import end together |
| AI runs (`modules/ai`) | `ai_runs`, messages, ephemeral inputs, threads | start, claim, ask the provider, call tools, finalize, fail, cancel, purge | the provider answers outside any transaction, after a cancellation or a lost lease; retention beside holds and reviews | one terminal result; the prompt does not outlive the run; held threads are kept |
| AI review (`modules/ai/review-*`) | suggestions | decide, apply | stale versions | one decision each |
| Idempotent writes and audit (`modules/audit`) | `idempotency_keys`, `audit_events` | claim a key, write and record, replay, release, expire | calls with one key at once, on snapshots, beside rows of an earlier release, around a provider | one effect in a life of the key; the answer fits the request |
| Privacy (`modules/privacy`) | `privacy_requests`, `deletion_requests`, execution outcomes, propagation, holds, policies | request, review, fulfil, claim, decide, execute, propagate, complete | holds, policies and bases change between approval and deletion; three ledgers for one deletion; claims die | deleted only as approved by someone else, never under a hold; the ledgers agree |
| Governance, break-glass (`modules/governance`) | requests, grants | request, review, use, expire | reviewer and requester race with expiry | no use without a live, independent approval |
| Exports (`modules/exports`, `modules/search/service.ts`) | approvals, `export_artifacts`, `files`, the object | preview, request and review an approval, commit (claim, store, record), download | the object is written outside any transaction, by several commits of one key; the data change | what is downloaded was approved by someone else, as a preview; a ready artifact is whole |
| Worker process (`worker/run-continuous.ts`, `runtime.ts`) | one process, its timers | run a pass, drain, pause, beat, exit | a time limit, a hard exit, a heartbeat and signals cross | a hard exit meets only a late pass; jobs are reached again and again |
| Settings, teams, cases, investigations, assignments | one version-checked row each | update, archive, assign | little: one transaction each | versions only grow |
| People, facts, evidence, relationships, locations | version-checked records, merge decisions | create, update, archive, merge, unmerge | a merge moves what hangs on a person and must be able to give it back; hierarchies | a merge and its reversal lose nothing; places stay acyclic |
| Text extraction (`modules/files/extraction-*`, `worker/handlers/extraction.ts`) | `extraction_runs` | request, cancel, retry, load, start, read, complete, fail | nothing but the state of the run fences handlers of earlier claims and lives | an end is final; every run ends |
| Search (`modules/search`) | `search_documents` | maintain on every write, reindex, search | document, record and definition are read and written by separate statements | what is found is current; what should be found is |
| Graph | snapshots | read, snapshot | read-only | |
| GraphQL server, UI, adapters, migrations, scripts | none between requests | | | |

`PROJECT.json` lists all of them with their files and what is and is not modelled; its `hazards`
list what in this code is hard to test, at the line where it bites, with the properties that
would notice.

## 2. The modules and the code

A module has one action for each transaction, Redis command, storage call or provider call;
between two of them any other process may run, and a process may die.  Clocks are not numbers
(except in `TokenBucket`): a lease is live or not, a row is due or not, and a step of the
environment changes that, so that every order of deadlines and steps that the guards allow is
explored.  What a process knows (the row it selected, the attempt it read) is a record in a
variable of its own, because stale knowledge is what these protocols are about.  Definitions
called `...Mutant` are faulty variants of the definition that follows them; no specification uses
them, and `PROJECT.json` names the property that rejects each.

### JobQueue (with DurableTask)

`row[j]` is the row of job `j`, `redis[j]` the token under its lease key, `pass[p]` the locals of
`runJobsOnce`, `ran[j]` a history of the claims whose handler ended well.  The row operators
(`ClaimedRow`, `ReleasedRow`, `DeadRow`, `DeferredRow`, `RequeuedRow`, ...) are the statements of
`src/modules/jobs/repository.ts`, `OwnsRow` is the WHERE clause they share.  `Start`, `Reconcile`,
`Claim`, `Take`, `Acquire`, `HandlerEnds`, `RenewRedis`, `RenewDb`, `Complete`, `Settle`,
`Release` follow `src/worker/run-once.ts` await by await; `AcquireFails`, `CompleteErrs`,
`HandlerThrows`, `HandlerLosesLease`, `HandlerYields` and `Crash` are its error paths.

`DurableTask` is what the queue promises to those who enqueue: a task stays pending until it is
done, and then work on it has ended since it was last (re)submitted, or until it is given up.
`ImplementsDurableTask` maps the queue to it: a claimed row is still a pending task, and a handler's
work counts only under the row's current claim.

Abstractions: priorities and the order of claims (any set of claimable rows up to `Limit` may be
claimed, which includes the code's); the handler is one step that ends well, throws, yields a slice
or finds its lease lost, and may renew any number of times; the identity of a pass that has ended
becomes `Gone`, a UUID that is not used again; a release of the Redis lease that fails leaves the
key to its TTL.  The check of elapsed time at the head of the batch loop is the same event as the
abort of the deadline timer (`Abort`).

### UploadSession

`sess` and `file` are the rows, `object` whether the store holds bytes under the key, `limbo` the
PUTs that were interrupted and may still be published, `put`, `call`, `worker` the processes,
`job` and `archival` the two cleanup jobs.  `ClaimPut`, `Store`, `Interrupt`, `ReconcileStored`,
`RecordAmbiguous` follow `upload-proxy.ts`; `ClaimVerify` ... `Purge`, `Cancel`, `RegrantExpired`
and `Archive` follow `service.ts`; `Select`, `Renew`, `Delete`, `RecordCleanup`,
`ReconcileSession`, `ReconcileArchived` follow `cleanup.ts`.

Assumptions about the environment, all from the documentation (`docs/ARCHITECTURE.md:229-237`): the
store publishes or abandons an interrupted PUT within the window that follows it (`LimboEnds`,
and `WindowElapses` waits for it); a proxy reports an interruption within its own 120 seconds
unless `LateAbort` says otherwise; a proxy process dies only within that time; calls that have
claimed a session, and PUTs, end within the hour after expiry in which cleanup waits
(`HourPasses`).  The scanner has no timeout of its own, so the last is an assumption: a scan that
took longer than that hour would find its file's bytes deleted.

Abstractions: one session, one key; a PUT and a call are used once (their identities are fresh
UUIDs); the job queue is reduced to claims, settlement and a budget of lost leases, killed workers
and failed deletes; the transaction of the archived cleanup holds the row lock from its first to its
second action. Upload limits, variants and coordinates are independent of the object's life and left
out, as are replays of a call that has already ended.

### AuthEmailOutbox

`row[i]` is an outbox row, `invitation` the row the inviting intents refer to (`status`, `expired`;
a suspended workspace counts as a dead invitation), `drain[d]` the locals of
`runAuthEmailOutboxOnce`.  `Enqueue`, `Claim`, `Deliver`, `ProviderAccepts`, `DeliveryFails`,
`Complete`, `Fail`, `Finish`, `Remove` follow `email-outbox.ts`; `Cancel`, `Replace`, `Accept` the
invitation services. Settlement compares owner and generation but, unlike the queue, not the lease's
clock: the model keeps the difference.  Delivery is at least once; the provider's idempotency key is
external.

### TokenBucket

The Lua script in the integer arithmetic that Redis uses: `Refilled` refills whole and partial intervals
with the remainder, `Store` writes the hash and its TTL, `Consume` is one call, `RetryAfter` the
waiting time of `normalizeTokenBucketResult`.  `Tick` moves the server's clock, `StepBack` sets it
back, `Deploy` changes the policy of an existing bucket.  `granted`, `elapsed` and `behind` are
histories since the first grant of a new key or policy.  The waiting time is computed exactly; the code
divides floating point numbers, which at the largest policies can be 1 ms early.

### WebhookDelivery

One delivery, its webhook and its job; `worker[w]` are the locals of the handler and its pass.
`Start`, `CancelDelivery`, `Post`, `Record`, `RecordErrs` follow
`src/worker/handlers/webhook-delivery.ts`, `Settle`, `RenewFails`, `Abort` the pass that runs it.
The queue is cut down to claims, generation and lease, with the attempt count that deferring takes
back; `JobQueue` has the rest.

### ImportExecution

`imp` is the import, `rows[g][n]` row `n` of staging generation `g`, `job[j]` its jobs (the first
start and the retries), `stager[s]` a `prepareImport` request, `worker[w]` a handler with its pass,
`applied` a history of the records written.  `ClaimPrepare`, `InsertRow`, `FailPrepare`,
`FinishPrepare` follow the staging service: requests with one idempotency key meet in one import,
and a lease with a generation fences one that takes over from another.  `ClaimSlice`, `RunRow`,
`FinalizeRow`, `Refresh`, `CompleteJob`, `Settle` and the error paths follow `executor.ts` and the
pass; each row is a transaction of its own that checks the claim first.  The queue is cut down to
claims, leases and settlement, with its dead letter, which ends the import in its own transaction.
Parsing is the constant part of `file`: which mode it has and which rows cannot be used.

### AiRun

`run` is the row of `ai_runs` with its prompt, boundary count and tool calls, `worker[w]` the locals
of the handler, `thread` what retention looks at.  Every transaction of
`worker/handlers/ai-analysis.ts` is an action (`Load`, `Replay`, `Ask`, `Boundary`, `Answer`,
`Finalize`, `Plan`, `Record`, `Recheck`, `FailRun`); the provider and the tools answer between them,
with anything: a final answer, calls to make, a forged call, an error.  `CancelRun`, `Suggest`,
`Decide`, `HoldChanges` and the two reads and the deletion of retention (`SelectThread`,
`CheckThread`, `PurgeThread`) run beside them.  The principal may lose its rights and the
configuration may change between any two steps.  Left out: what is asked and answered, the citations
and their review policy.

### TextExtraction

`run` is the extraction, `job[l]` the job of its `l`-th life (a request or a retry starts one),
`worker[w]` the handler.  What makes it different from the other handlers: nothing but the state of
the run fences it, not the claim and not the life.  An old handler may therefore end a life that is
not its own; `EndedIsFinal` says what remains true.  `raced` is a history of passes that stood back
because another had begun.  The file's version and its copy of the state are left out (section 6
has an observation about them); cancel and retry repeat in their statement what they have seen, so
each is one action.

### IdempotentWrite

One key in the four ways the services use one (`path`): a session user's write, a principal's, a
write on a snapshot taken before the claim's lock, and a claim of its own around a provider.
`UserWrite`, `PrincipalWrite`, `Claim`, `ProviderWorks`, `Finalize`, `KeyExpires` follow
`modules/audit/transactions.ts`; the write itself is an element of `effects`.  A row is named by the
call that inserted it and the life of the key it was inserted in; `legacy` is the row that an
earlier release left under the same key.  What follows the lock of a row within a transaction is one
action, because nobody else passes the lock.

### GovernedExport

`approval[a]`, `artifact`, `file`, `object` are what their names say, `commit[c]` a request that
commits.  A preview is the version of the data it shows; hash and bytes depend on nothing else.
`RequestApproval`, `ReviewApproval` follow `modules/exports`; `StartCommit`, `RequireApproved`,
`ClaimArtifact`, `Put`, `Finalize` and their failures `modules/search/service.ts`; `Download`
`modules/files/service.ts`.  A commit may die between any two of them, and the data and the purpose
coverage change under it.

### DeletionRequest

Every transaction takes the workspace's advisory lock first and is one action.  `request[r]`,
`local[r]` and `outcome[r]` are the three ledgers, `erased[r]` the propagation to the processors,
`scope` what is to be deleted, `policy` and `basis` what a reviewer approves and the executor
compares.  `Decide` is the executor's decision: it rejects, deletes, or leaves the request as it
is, under a hold (`scope.held`) or while an earlier release's answers cannot be told to be of the scope
or not (`scope.ambiguous`, the `ambiguous_ai_message_lineage` block; `LineageChanges` is how that comes
and goes).  A reviewer is told from the requester and no more.  Reviews by users carry the version
that they have read, so they are guarded by the state they were made on.

### WorkerProcess

One event loop: the code between two awaits is an action, timers and signals come between.  `loop`
is where `runJobsContinuously` is, `stage` what the pass is doing (mail, privacy, jobs), `deadline`
and `grace` are its two timers, `beat` the heartbeat, `proc` the process.  A stage may hang, which
is what the hard exit is for; the container starts the process again.

### PersonMerge

`owner[r]` is the person of a record, `edge[e]` a relationship, `candidate[c]` an identity candidate
with the merge that canceled it, `decision[p]` what the merge of `p` has written down.  Facts stand
for records that a person may select, names for everything else that is moved and given back by
identifier.  `MergeReads` and `MergeWrites` are the two halves of a merge: it holds the workspace's
lock and both people, so that only a review of a candidate can come between.  `Taken` are the
foreign keys that make an unmerge fail.  Merges are undone in any
order, as in the code.  `home`, `ends` and `crossed` are histories: where a record and an endpoint were
when created, and what two merges have moved one after the other when the earlier of them was undone
first (`Crossing`; of a candidate, whose marker the later one had read).  `Reach` is the least set
that is closed under "merged into", a definition
without recursion, so that it can be proved about.  A review under way counts as pending and an accepted one as rejected,
as far as merges tell them apart.  Left out: tags, the primary contact, archived people.

### SearchIndex

The document of one fact.  The transactions run at READ COMMITTED, so there is one action for each
*statement*, which sees what was committed when it began and waits for a row that another
transaction has changed; `tx[c]` holds what a transaction has read and written.  `Found` is the
predicate of the search query: document, fact and definition must agree.  Any transaction may run
beside any other, `"reindex"` and `"createUnlocked"` (a creation without an idempotency key, which
locks the definition outside of its transaction) included.  Two histories say what came of it:
`tx[c].beside`, that a write has been committed under the transaction which no lock keeps apart from it
(`Overtakes`), and `unsure`, that the last transaction to change something was such a one.  Other
kinds of record are indexed by the same functions.

### MCJobs, MCFiles, MCRequests, MCWorker

Instances of several modules in one run.  They share no state: `which` is chosen at the start, and a
behaviour takes the steps of that module only, so that the run explores each module's state space
once; the queue has two of them, `"queue"` with one job and every disturbance (the fair one) and
`"batch"` with all jobs and one disturbance.  Fairness is stated for each module on its own variables.  `JobsSettle` is one leads-to for three
modules; since `which` never changes it says of each what `EveryJobSettles`, `RunSettles` and
`ExtractionSettles` say.  `FilesSettle` is likewise `ObjectReclaimed` of uploads and, as an import
is retried a bounded number of times, `ImportSettles` of imports.  `WorkSettles` is the conjunction of
three.

## 3. What the runs check

All runs explore every reachable state of their instance.  "Disturbance" is a crash, a lost reply, a
lease lost by a running process or the like, drawn from a constant called `Budget`; without such a
bound a behaviour could consist of crashes alone.

| Run | Instance | What it shows |
|---|---|---|
| `jobs` (`MCJobs.cfg`, fair) | queue: two passes, 2 attempts, and either one job and 2 disturbances or two jobs (a cleanup and an AI job) in one batch and 1 disturbance; AI: two workers, 2 attempts, 2 turns, 1 tool call, 1 disturbance; extraction: two workers, 2 attempts, a request and a retry, 2 disturbances | `SnapshotIsCurrent`: the attempt count a pass decides with is current whenever it can settle; `FencedSettlement`: only the last claim, with a live lease, settles; `LeasesAreTended`: no claimed row is forgotten by the loop; `ImplementsDurableTask`; `OutcomesAreFinal`: an analysis or extraction ends once, whoever still holds an answer; `HeldThreadIsKept`; `JobsSettle`: what has begun ends |
| `files` (`MCFiles.cfg`, fair) | upload: two PUTs, two calls, two workers, 1 disturbance; import: two requests staging a file of two rows, two workers, 2 attempts, 2 disturbances | `AvailableFileIsStored`, `NoOrphanedObject`, `AmbiguityIsFenced`, `NoResurrection`: a session's end is final; `FilesSettle`: no object is left that no file needs, and a started import ends |
| `requests` (`MCRequests.cfg`) | write: three calls, two request bodies, two expiries of the key, 3 tries; bucket: three policies, costs 1 and 2, 8 ms, two steps back (up to 3 ms) or redeployments; export: two commits, one approval, one change of the data, one lapse of coverage; search: two clients, five kinds of transaction in any order and overlap, at most six in a behaviour; merge: three people, a fact, a name, two relationships (one may be from a person to itself), one candidate pair, two merges undone in any order, two rows at once; import: two requests, two workers, two rows, a start and a retry, 2 disturbances | `WrittenOnce`, `AnswersFit`; `GrantsAtItsRate`, `RetryAfterSuffices`, `ExpiryIsHarmless`; `ReadyIsWhole`, `DownloadIsApproved`; `IndexFollows`; `RecordsFollow`, `CandidatesComeBack`; `RowsAppliedOnce`, `StagedRowsAreExact`, `ImportEndsWithJob` |
| `worker` (`MCWorker.cfg`, fair) | deletion: one request, two workers, one processor beside the files, one change of policy or basis, one hold, 1 disturbance; webhook: two workers, 3 attempts, 2 disturbances, 1 failed statement, 2 time limits; process: 3 disturbances; mail: a verification and an invitation, two drains, 2 attempts, 1 disturbance | `LedgersAgree`, `DeletedAsApproved`; `DeliveriesAreExact`: a destination that has accepted is asked again only after a disturbance, and a retry that is recorded is made; `SettledByHolder`, `CancelWaitsForDelivery`; `ExitsAreEarned`, `WorkerGoesOn`; `WorkSettles` |
| `upload_late_abort` (finding) | two PUTs, one call, one worker, late interruption allowed | violates `AmbiguityIsFenced` |
| `outbox_replace` (finding) | one invitation mail, two drains, no disturbance | violates `CanceledMailIsTerminal` |
| `webhook_abort` (finding) | two workers, 3 attempts, one time limit | violates `NoStrandedRetry` |
| `ai_purge` (finding) | one worker, one turn, no tools, no disturbance | violates `AcceptedSuggestionIsKept` |
| `export_revive` (finding) | two commits, one approval, data and coverage stay | violates `ExpiredIsNotRevived` |
| `merge_undo` (finding) | three people, one fact, two merges, undone in any order | violates `RecordsAreRestored` |
| `merge_candidates` (finding) | three people, one candidate pair, two merges, undone in any order | violates `CandidatesAreRestored` |
| `search_reindex` (finding) | two clients: a creation, a revision, a reindexing | violates `AlwaysFound` |

Every passing run also checks the type invariant of each of its modules (`TypeOK`, `TypesOK`), which
includes the agreement of columns that are written together; that of the import is checked by `files`.

Why the bounds are enough.  The protocols are about one row and two contenders: a stale holder and
its successor.  Two passes, workers, drains or commits give every pair of a stale and a current
holder, and since an idle process starts again with a fresh identity, a behaviour holds more than
two of them one after the other; a key with three calls has one that waits behind two.  Two attempts
are a first, a last and, with a disturbance, a supernumerary one; webhooks need 3 so that a retry
follows a retry.  One disturbance makes a process stale, a second hits its successor.  Two jobs are
needed for a batch with a remainder, two rows for a slice with one.  Two turns with one tool call
give an analysis that asks, calls and asks again.  Three people are the least with a merge of a
merge.  The policies of the bucket are a refill that is no multiple of its interval, one larger than
the capacity and a slow one, each with the shortest TTL the code accepts; `Scale` = 4 instead of
1 000 000 gives every remainder class that matters; 8 ms hold an interval of every policy and an
expiry, and two disturbances a step back beside a deployment.
For every safety and action property of a passing run a theorem of section 5 removes the bounds; for
liveness they stay.

Two properties have an exception, and a violation run shows that each is needed.  `RecordsFollow` and
`CandidatesComeBack` except what was `crossed`: without the exception they are `RecordsAreRestored` and
`CandidatesAreRestored`, which `merge_undo` and `merge_candidates` refute.  `IndexFollows` excepts the
time while the index is `unsure`: without it, it is `AlwaysFound`, which `search_reindex` refutes.  The
exceptions are narrow.  `crossed` names single rows: a record that one merge has moved stays where it
belongs in whatever order others are undone.  `unsure` ends: one write or reindexing that nothing
overtakes makes the index sure again.

`MCRequests` uses its symmetry between clients, requests and workers, all of them `{w1, w2}`;
it checks no liveness.  The import is started and retried there; in `files`, which checks that it
settles, it is only started: a retry is one more start, on a job of its own.

`CHECK_DEADLOCK FALSE` stands where the system really comes to rest: a finished upload, import,
analysis or extraction, a settled mail or delivery, a process told to stop, a request that has been
answered, the end of the bucket's clock.

## 4. Fairness

- *Steps of a process* are weakly fair: a pass, drain or handler that has not crashed takes its next
  step.  The code bounds each of them: passes by a 25 s limit and a hard exit
  (`worker/run-continuous.ts`), PUTs by 60 s, mail and webhook requests by 5 s.
- *New passes* are weakly fair: `runJobsContinuously` starts one after the other, and each drains
  the outbox and reconciles cleanup jobs.
- *The end of a handler* is strongly fair in `JobQueue`: a handler may renew its lease again and
  again, which disables and enables its end.  *Claiming a particular mail* is strongly fair in
  `AuthEmailOutbox`: the claim takes the oldest due rows first, so others cannot pass it for ever.
- *Clocks* are weakly fair: what is scheduled becomes due, and a lease that nobody renews runs out.
  A lease that its holder tends runs out only as a disturbance.
- *Deletion*: the steps of a pass are weakly fair, propagation is not; that a pass selects a particular
  request is strongly fair (the executor takes the oldest hundred in each pass, and passes follow
  one another).
- *Imports, analyses and extractions*: the steps of a handler and the claim of a due job are weakly
  fair; staging is not, as it is a request of a user.
- *The process*: its loop, the write of its heartbeat, the end of a stage that does not hang, both
  timers, and the container that kills or starts it are weakly fair.  A stage that hangs is not.
- Crashes, aborts, lost replies, failed statements, users and administrators are not fair at all.

## 5. What is proved

TLAPS proves, whatever the sets of jobs, passes, PUTs, calls, requests, workers, drains, rows,
commits, processors, people and clients, and whatever the limits and the numbers of disturbances:

| Theorem | States |
|---|---|
| `Invariance` (`JobsProofs`) | `Spec => []IInv`, the inductive invariant |
| `TypeCorrect` | `Spec => []TypeOK` |
| `CompletionIsEarned` | `Spec => []CompletedWasHandled`: a completed job was handled to the end under the claim that completed it |
| `SnapshotsAreCurrent` | `Spec => []SnapshotIsCurrent` |
| `SettlementIsFenced` | `Spec => FencedSettlement` |
| `LeasesAreAlwaysTended` | `Spec => []LeasesAreTended` |
| `Refinement` | `Spec => ImplementsDurableTask` |
| `JobTypes` | `MCSpec => []TypesOK`: the types of queue, analyses and extractions |
| `OutcomesStayFinal` | `MCSpec => OutcomesAreFinal` |
| `HeldThreadStays` | `MCSpec => HeldThreadIsKept` |
| `UploadInvariance` (`UploadSessionProofs`) | `Spec => []IInv` |
| `UploadTypes` | `Spec => []TypeOK` |
| `DownloadableBytesStay` | `Spec => []AvailableFileIsStored` |
| `EndedSessionsStay` | `Spec => NoResurrection` |
| `LimboIsFenced`, `CleanupIsFinal` | `Spec => []AmbiguityIsFenced` and `Spec => []NoOrphanedObject`, if `~LateAbort` |
| `ImportInvariance` (`ImportExecutionProofs`) | `Spec => []IInv` |
| `ImportTypes` | `Spec => []TypeOK` |
| `RowsAreAppliedOnce` | `Spec => []RowsAppliedOnce` |
| `StagingIsExact` | `Spec => []StagedRowsAreExact` |
| `ImportFollowsItsJob` | `Spec => []ImportEndsWithJob` |
| `WebhookInvariance` (`WebhookDeliveryProofs`) | `Spec => []IInv` |
| `WebhookTypes` | `Spec => []TypeOK` |
| `DestinationAcceptsOnce` | `Spec => []SuccessesBounded`: accepted once, and once more per disturbance |
| `DeliveryIsExact` | `Spec => []DeliveriesAreExact` |
| `RefillsCompose` (`TokenBucketProofs`) | a refill in two parts is one refill, for all moments |
| `BucketInvariance` | `Spec => []IInv` |
| `BucketTypes` | `Spec => []TypeOK` |
| `RateIsBounded` | `Spec => []RateBound` |
| `PollingCostsNothing` | `Spec => []PollingIsNeutral` |
| `WaitSuffices` | `Spec => []RetryAfterSuffices` |
| `ExpiryCostsNothing` | `Spec => ExpiryIsHarmless` |
| `ExportInvariance` (`GovernedExportProofs`) | `Spec => []IInv` |
| `ExportTypes` | `Spec => []TypeOK` |
| `ReadyArtifactIsWhole` | `Spec => []ReadyIsWhole` |
| `DownloadsAreApproved` | `Spec => []DownloadIsApproved` |
| `DeletionInvariance` (`WorkerProofs`) | `Spec => []IInv` |
| `LedgersAlwaysAgree` | `Spec => []LedgersAgree` |
| `DeletionIsApproved` | `Spec => DeletedAsApproved` |
| `DeletionTypes` | `Spec => []TypeOK` |
| `WorkerTypes` | `MCSpec => []TypesOK`: the types of deletion, webhook, process and mail |
| `EveryDeliveryIsExact` | `MCSpec => []DeliveriesAreExact` |
| `EveryExitIsEarned` | `MCSpec => ExitsAreEarned` |
| `HoldersSettleMail` | `MCSpec => SettledByHolder` |
| `CancelsWaitForDelivery` | `MCSpec => CancelWaitsForDelivery` |
| `WriteInvariance` (`RequestsProofs`) | `Spec => []IInv` |
| `KeyWritesOnce` | `Spec => []WrittenOnce` |
| `KeyAnswersFit` | `Spec => []AnswersFit` |
| `GrantsStayAtTheirRate`, `ToldWaitSuffices`, `KeyExpiryIsHarmless` | `MCSpec => []GrantsAtItsRate`, `MCSpec => []RetryAfterSuffices`, `MCSpec => ExpiryIsHarmless` |
| `ReadyExportIsWhole`, `ExportDownloadIsApproved` | `MCSpec => []ReadyIsWhole`, `MCSpec => []DownloadIsApproved` |
| `ImportRowsAreApplied`, `ImportStagingIsExact`, `ImportAndJobEndTogether` | `MCSpec => []RowsAppliedOnce`, `MCSpec => []StagedRowsAreExact`, `MCSpec => []ImportEndsWithJob` |
| `RecordsAreFound`, `CandidatesAreBack` | `MCSpec => []RecordsFollow` and `MCSpec => []CandidatesComeBack`, in whatever order merges are undone |
| `SearchIsCurrent` | `MCSpec => []IndexFollows`, whatever runs beside what |
| `RequestTypes` | `MCSpec => []TypesOK` |

Every `IInv` is an operator of the component's module, or of its proof module, and was an invariant
of a run on a small instance before its proof was begun.

**Composition.**  `MCSpec` composes modules that share no variable, so a step of one leaves the
variables of the others alone: a behaviour of `MCSpec` is one of each module's `Spec` (`JobModules`,
`WorkerModules`, `RequestModules`), and what is proved of the module holds of it.  Where the module has
a proof module of its own, that is instantiated (`BP`, `EP`, `IP`, `WP`), and a lemma shows that its
specification is the module's under other names (`SameBucket`, `SameExport`, `SameImport`, `SameWebhook`).

**Queue.**  None of the invariants is inductive alone.  A completed job was handled under its own
generation only if the pass that completes it, past its handler, has a handler's run to show for its
current claim (`HandlerAgrees`); that this claim is the row's needs that no snapshot is ahead of its
row (`ClaimsAgree`), and that the next generation is fresh needs that no handler has run under a
claim still to come (`RunsArePast`).  `LocalsAgree` says which locals of `runJobsOnce` are set in
which phase.  `IInv` is their conjunction with `TypeOK`.

`JobsProofs` proves in turn: each statement keeps a row's shape (lemmas up to `TypeOfParts`);
every action keeps the types (`TypeStep`); every step is of one of a few kinds as far as rows are
concerned (`RowStep`: generations never fall, and an unchanged generation keeps owner and attempts),
and as far as a pass is concerned (`MovedPass`, `ClaimingPass`, `StillPass`); from these two views
the invariant follows without looking at the actions again (`StepInv`).  `SettlementIsFenced`
follows from `SettlingStep`.  The last section maps each action to one step of `DurableTask` or
to none (`StepRefines`): a claim of a batch and the end of a pass may forget the work of several
tasks at once, which is why `Forget` and `Reopen` of the abstract task take sets.

That no live lease is forgotten is a second argument on top of `IInv`.  A row with a live lease
carries an owner and a generation that some claim gave it (`LeaseIsKnown`), and the owner `Tends`
it: the claim is in the pass's hands, or still in its batch, or the pass is on one of the paths that
settle what is left of the batch.  `TendingStep` shows that no step of the pass, and none of another
one, drops it.

**Uploads.**  The invariant has two parts.  `FileInv` says why an available file has its bytes: one call
at a time verifies, and its session is its own or has been given up (`VerifierOK`); what was verified
stays until the scan is recorded (`CallOK`); a cleanup works for an ended session only and keeps the
bytes of an available file (`WorkerOK`); an hour after its expiry nothing but cleanup is under way
(`HourOK`).  `CleanupInv` is about what comes after a session's end: an interrupted PUT holds its
window open (`LimboOK`), and a cleanup whose generation still stands, or that is recorded, has seen
every publication, but for a PUT that is still to be reconciled (`CleanupOK`, `CleanedOK`).  It is
inductive only where a PUT's interruption is noticed in time (`~LateAbort`), and the run
`upload_late_abort` shows that the assumption is needed; the theorems about available files and
ended sessions do without it.

**Imports.**  `RowsAppliedOnce`, `StagedRowsAreExact` and `ImportEndsWithJob` are inductive together with
what a request and a worker know in each phase (`StagerOK`, `WorkerOK`) and with `ImportOK`: before its
start an import has no job and no row that anyone has run, and no row is of a generation to come.
A request that was taken over is of an earlier generation, and what it left goes when the last one
finishes.  A row is applied once because its record and its success are one transaction that finds the
row in progress; the second pass finalizes as succeeded in a dry run only.  The worker runs the
least row of its slice; that there is one is well-foundedness of the order of natural numbers
(`LeastIsMember`).

**Webhook deliveries.**  A matter of accounts.  What the destination has accepted, plus the handlers
that lost their claim and may still bring an acceptance or reopen the delivery (`Stale`), plus one if
the job's own claims still owe an acceptance (`Owing`), is at most one plus the disturbances so far
(`AcceptancesOK`).  Every step balances: a stale handler that is accepted leaves `Stale`, the holder's
acceptance ends what is owed, a recorded failure does not change it; a crash, a lost lease or a failed
statement adds to both sides (`Accounts`).  That claims have distinct generations (`ClaimsOK`) makes
the holder unique.  The second half, that a retry is not taken for a duplicate, holds as long as
nobody was aborted, failed to record or outran its lease (`Undisturbed`): then only the holder works,
and what it was given as its number is above the attempt that scheduled the retry (`RetryOK`).  TLC
checked this `IInv` also with one pause, which the run `worker` leaves out.

**Token bucket.**  The content of a bucket is counted in units of 1/(Scale * interval), so that nothing is
rounded.  `RefillIsExact` shows that the script's whole and partial intervals, its remainder and its
short cut for long times add up to the rate times the age, and `RefilledIs` reads a refill off it: full,
or exactly what was due.  That refills compose, that a wait suffices and that an expiry costs nothing
then follow.  The rate is an account (`FlowOK`): what was granted since the first grant, together with
what is left, is at most a full bucket and what flowed in until the date of the bucket.  The date
never falls, and is ahead of the clock by steps back only (`DatesOK`), so time that passes a second
time is not credited.  An earlier version of the histories began at a deployment, which made the bound
false when a step back came with it: the invariant would not go through, and TLC, whose run allowed
one disturbance then and allows two now, found the behaviour.

**Exports.**  Whoever may still write has the content that the artifact was claimed for (`CommitOK`),
so that a slow or failing `Put` writes the bytes that are there already; the artifact, once claimed,
keeps its hash, and a sensitive one is claimed only by a commit whose content an independent reviewer
has approved (`ArtifactOK`, `ReviewsOK`).

**Deletion.**  That the ledgers agree is inductive only with what each state of a request has behind
it: before its fulfilment a request has no other ledger (`Untouched`), what is fulfilled was approved
and verified by someone else (`ApprovedByOther`), only a claim has a holder and a lease (`LeaseOK`),
and files are erased only once they are cleaned up.  `RowsStep` and `WorkersStep` prove the shapes,
one lemma `...Agrees` for each kind of action the rest, `DeletionStep` the action property: the one
step that deletes is `Execute` by a pass whose claim is live, and it compares the contract itself.

**Idempotent writes.**  A key is executed once because what was written in its present life is on
record (`EffectsAreRecorded`), where a record is the row or the earlier release's row; an answer fits
because a completed row refers to a write of the same request (`RowsRefer`).  The path around a
provider is the hard one: a claim that died may be taken over while the first caller's provider still
works, so `ProviderOK` says of every claim still at work that its row is the present one or an
older one, and that all claims and writes of one life are of one request.  There is one lemma for each
way in which an action ends (`RefuseStep`, `AnswerStep`, `ReplayStep`, `WriteStep`, `NewClaimStep`,
...), and `StepInv` puts them together.

**Analyses and extractions.**  An analysis has one result because every transaction of its handler
compares the run's state first.  That its prompt does not outlive it (`PromptsEnd`) needs every way to
end it, by the handler, by its owner, by the job's dead letter; the shapes need what the handler still
has in hand (`LocalsFit`) and that a claim has counted its attempt (`ClaimsCount`), since deferring
takes it back.  That a held thread is kept needs only that no hold is placed between a purge's check and
its commit (`PurgeIsFree`), which is what the workspace lock is for: the selection before it does not
count.  An extraction has no fence but the state of its run; that what has ended is taken up again
only by a retry needs that the job of the next life does not exist yet, and that passes work only for
runs that are there (`LivesFit`).

**Mail and the process.**  A claim on mail is settled by its holder because the statements compare
owner and generation; the case that is not read off them is a cancellation, which may not come while
a holder works, whether the mail is still in the batch of the drain or in its hands.  The process has
two timers and a reason to abort: the hard exit is pending only for a pass that ran out of time before
any signal, and a signal takes the time limit away (`TimersOK`), so that an exit that ends a drained
pass is impossible by any order of timers and signals.

**Merges.**  "Merged into" is a forest.  What a merge of p would give back is compared with the forest
as it stood when that merge was made, `Before(k)`, which has the mergers with a smaller identifier only.
`RecordsOK` says of every merge that stands: a record in its decision is now outside of what its home
reached before that merge, through p, and a record that is not in it has not gone beyond; `EdgesOK`
says the same of the ends of relationships, with the one who stands for a person; both but for what
was `crossed`.  A new merge adds one tree edge with the highest identifier, which leaves every
`Before` as it was.  An unmerge takes one edge away, from the present forest and from the `Before` of
every later merge, whichever it is: what it does not give back was never moved along that edge, so
its home reaches what it did (`UndoneMerges` and the lemmas before it); and of what it gives back
no later merge that stands has moved anything, or it is crossed.  Reachability is a least set; the lemmas
from `ReachFacts` on say what is needed of it, among others what losing one edge leaves.  `Marked`
does for candidates what `Before` does for people: a marker was written by a merge earlier than the
one that has it in its decision.

**Index.** While the index is sure, the document is the one that a fact and its definition are owed
(`Right`).  A transaction that nothing has overtaken brings such a document with it (`Progress` says
what it has after each statement), so its commit makes the index sure whatever was there before; any
other leaves it unsure if it changes anything.  It is enough to show that a commit either leaves a
transaction beside it as it is, or overtakes it.  Of two creations, revisions and changes of a
definition one has the lock on the definition (`OneAtATime`), so they leave each other alone; the
others are the ones that `Overtakes` names.  Two things are left: the version that a revision has
locked, or the absence that a creation has read, is still the row's when it writes (`FactIsHeld`),
so that its own version is the latest and the STALE branch is never taken there (`NotAhead`); and
the row that the delete has in sight is the one that it deletes, unless the transaction was
overtaken.  The first version of `FactIsHeld` claimed only of a revision that holds its row that the
version it expects is not 0; it was true but not inductive, as a revision that still waits for its
row brings that version along.

Assumed: the named assumptions on constants of each module (`JobQueueAssumption`: a finite set of
jobs, `None` and `Gone` are not passes or claims, positive limits; `ImportExecutionAssumption`,
`GovernedExportAssumption`, `WebhookDeliveryAssumption`: limits and bounds are natural numbers, and
the values that stand for NULL are no others; `TokenBucketAssumption`: what
`validateTokenBucketInput` asks of a policy and its costs, and that a missing key is no hash;
`AiRunAssumption`, `TextExtractionAssumption`, `DeletionRequestAssumption`,
`AuthEmailOutboxAssumption`: bounds are numbers, intents finitely many, NULL is no worker, drain or
claim; `WorkerProcessAssumption`: no reason to abort is none; `PersonMergeAssumption`,
`SearchIndexAssumption`: NULL is no person, name or row; `IdempotentWriteAssumption`: NULL is no call,
the bound on expiries is a number).  TLC evaluates each of them in a run.  Beyond them, as a hypothesis
of the theorem: for `DeletionTypes` that its two bounds are numbers; for `LimboIsFenced` and
`CleanupIsFinal` that `LateAbort` is false.  The last excludes behaviour that the code has: without
it the two properties are false, as `upload_late_abort` shows.

Only model-checked, for good: liveness (`JobsSettle`, `FilesSettle`, `WorkSettles`,
`WorkerGoesOn`), which needs fairness and ENABLED, and the eight violations.  No model has a recursive
definition, so nothing is left open for that reason.

## 6. Where the code and what is written about it disagree

1. **A late interrupted PUT loses its window** (`upload_late_abort`).  `docs/ARCHITECTURE.md:229`
   promises that an ambiguous PUT restarts a quiescence window that cleanup and replacement wait
   for.  When attempt 1 has been replaced by attempt 2 and is interrupted only then,
   `rearmAmbiguousMutation` restarts the window, but the reconciliation of attempt 2
   (`upload-proxy.ts:169`) sets it to null.  Cleanup may then delete, and record, while the bytes of
   attempt 1 are still to be published.  It takes a proxy that stalls past its own 120 seconds.
2. **Replacing an invitation under a drain** (`outbox_replace`).  `docs/ARCHITECTURE.md:81` and
   `docs/operations/workspace-members.md:23` say that replacement ends the old invitation's mail.
   The statement ends queued rows only, and unlike `cancelInvitation` replacement does not look for a
   running one; if that delivery then fails, the row is queued again for good: its invitation is
   canceled, so no claim selects it, and retention removes only terminal rows.
3. **A retry taken for a duplicate** (`webhook_abort`).  A pass reaches its 25 s limit during the
   request and the destination answers 503.  The handler records attempt 1 and a retry; the pass
   defers the claim, which takes the attempt back; the next claim is attempt 1 again, and
   `webhook-delivery.ts:131` takes it for a duplicate and completes the job.  The comment at lines
   121-124 says the opposite must hold.
4. **An accepted suggestion is purged** (`ai_purge`).  Retention reads the states of a thread's
   suggestions without locking them (`modules/ai/retention.ts:251-264`), skips the thread if one is
   accepted, and deletes them by their ids.  A review locks only the suggestion: one that accepts
   between the two is deleted with it.  `docs/REQUIREMENTS.md:1597` says that accepted
   suggestions are kept and that retention fences them.
5. **An expired export is revived** (`export_revive`).  A commit dies before its object is written;
   a retry takes the artifact up by its state alone (`modules/search/service.ts:992`), also after
   `expiresAt`, and makes it ready, although it cannot be downloaded any more.  The comment one line
   above says "Never revive an expired artifact".
6. **Unmerging out of order gives records away** (`merge_undo`).  A is merged into B, then B into C.
   Unmerging A gives A its records back; unmerging B then gives B every record that B's decision lists
   (`modules/people/service.ts:3908`), those of A among them, whoever owns them by now.
   `docs/REQUIREMENTS.md:1410-1416` calls merges reversible.
7. **A candidate keeps the marker of a merge that is undone** (`merge_candidates`).  The same two
   merges, and a candidate of A and B: the second merge reads it as the first has left it, canceled
   with the first one's marker, and writes its own.  Unmerging A leaves it alone, because the marker is
   not its own; unmerging B gives back what the second merge has read (`modules/people/service.ts:4009`).
   Neither merge stands, the candidate stays canceled, and its review state is lost.
   `docs/REQUIREMENTS.md:1413-1415` says that unmerge restores it.
8. **Reindexing beside a write hides the record** (`search_reindex`).  A reindexing has compared
   versions for a fact when a revision commits version 2 with its document; its delete
   (`modules/search/indexer.ts:809`) removes that document, and what it had loaded, the text of version 1
   or nothing, takes its place.  The search asks for the version of the record, so the fact is not found
   until it is written or reindexed again.  `README.md:168` says that documents are maintained in the
   writes' own transactions, and tells operators to reindex without telling them to stop writes.

Seen while modelling, but contradicting nothing that is written:

*Queue, uploads, mail, webhooks*

- `claimDue` has no limit of attempts: every claim whose lease runs out adds one beyond
  `MAX_JOB_ATTEMPTS` (the same in the outbox).
- Queued mail of an invitation that merely expires is neither sent nor ended until the invitation is
  replaced or canceled (`MailSettles` excepts it).
- If the reply to the statement that completes a session cleanup is lost, the rerun finds the
  cleanup recorded and fails with `cleanup_changed` up to the dead letter; the object is gone
  nonetheless.
- A retry of a completion that runs beside the first one decides by the session it read before
  claiming its key (`files/service.ts:516`) and may be told VALIDATION_FAILED.
- A webhook handler that is paused past its lease writes its outcome by delivery id alone, over what
  its successor recorded.  The passing run excludes such pauses (`Pauses` = 0);
  `DeliveryIsExact` says what they cost at most: an acceptance each, or the retry.  The hazard is
  therefore listed without a property of a run.
- If the statement that records a delivery fails at the last attempt, the job dies while the delivery
  keeps what was recorded before, possibly a scheduled retry (`DeliveriesAreExact` excepts it).

*AI runs and extraction*

- A finalization that is refused although the claim is live fails the job up to its dead letter, while
  the run stays `running` until someone cancels it.
- Threads all of whose runs failed or were canceled are never purged.
- The extraction's file is written with `row.file.version + 1` from an earlier read
  (`worker/handlers/extraction.ts:97`, `:156`, `:198`; `extraction-service.ts:177`, `:264`): the
  version need not grow with a change and may fall back to one that a client still holds.
- A time limit while the object is read raises the storage client's own error, which is recorded as a
  permanent failure instead of being retried.
- A handler of an earlier life may end a retried extraction (`EndedIsFinal` allows it).  Two passes
  may both find a run `pending`; the second cannot start it and completes the job, and if the first
  then dies the run stays `processing` under a completed job (`ExtractionSettles` excepts it, by
  `raced`).  A run also stays `processing` when recording its last failure fails.

*Privacy and exports*

- A retention request whose policy has changed by the time it is fulfilled can neither be executed
  nor rejected by the executor.
- The executor reads the oldest hundred approved rows; rows that are blocked by a hold, or by
  ambiguous lineage, stay among them (`ExecutionSettles` excepts both).
- A reviewer may reject a request that is being fulfilled: its local row stays `approved` with a
  receipt to come, or, after the deletion, propagation stops.
- An export whose data changed after a crash keeps state `writing`, a quarantined file, and an object
  that nothing cleans up.

*People and search*

- A review of a candidate between the read (`people/service.ts:3385`) and the write (`:3624`) of a
  merge is lost: the unmerge brings back the older state.
- While the survivor has selected, or presents itself by, a record that it got from the loser, a
  foreign key makes the unmerge fail.
- Records may be created on a merged person, and a presentation chosen there is overwritten by its
  unmerge.
- A creation of a fact without an idempotency key locks its definition outside of its transaction
  (`facts/service.ts:1378`), so that a change of the definition in between leaves a document that is
  not found.
- A merge indexes the two people again, not the records that it moves.

*Worker process*

- `docs/operations/docker.md:259-285` describes exit codes: a drain that cannot give back its claims
  still exits 0, and a heartbeat that fails during a pass only delays the next pass if the next
  refresh succeeds.
- The privacy stage looks at no signal: a batch that takes longer than a pass is ended by the hard exit
  before the jobs are reached, each time.  The same holds of a stage that hangs.

## 7. What is not modelled, and why

Parsing, mapping, rendering, signing, encryption, ranking and graph metrics transform data and share
no state; TLC would only repeat their unit tests.  GraphQL routing and the pages keep nothing
between requests.  Authentication proper is the Better Auth library's.

Settings, teams, cases, investigations, assignments and break-glass requests are one version-checked
row written in one transaction each.  Their hazard is the idempotent write they are made with
(`IdempotentWrite`); beyond it a module would restate their guards.  Members are changed under the
workspace's advisory lock, one transaction each, and the last owner is counted under it.  Places
keep their hierarchy acyclic with a trigger that takes one advisory lock for all writes
(`drizzle/0013`), so that no two of them interleave.

The operation limiter consumes two buckets one after the other: each is a `TokenBucket`, and it
fails closed; what is lost when the second denies is a token of the first.  Of the search index, one
kind of record is modelled; the others use the same functions.  Graph reads share no state.

Generated code, migrations, scripts and the web pages are the larger part of the repository by lines
and have no behaviour of this kind.

## 8. Plan

In the order of what would hurt most:

| # | Module | Composes | Abstract specification, properties | State |
|---|---|---|---|---|
| 1 | `JobQueue` | | `DurableTask` | modelled, checked, proved |
| 2 | `UploadSession` | | object reclaimed or available | modelled, checked, proved |
| 3 | `AuthEmailOutbox` | invitation | | modelled, checked, proved |
| 4 | `TokenBucket` | | rate bound; the announced wait suffices | modelled, checked, proved |
| 5 | `WebhookDelivery` | job, reduced | | modelled, checked, proved |
| 6 | `ImportExecution` | job, reduced | a row is applied once; staging is exact; job and import end together | modelled, checked, proved |
| 7 | `AiRun` | job, reduced; retention | one result; held threads are kept | modelled, checked, proved |
| 8 | `IdempotentWrite` | | one execution and a fitting answer per key | modelled, checked, proved |
| 9 | `DeletionRequest` | holds, policies, processors | deleted as approved; ledgers agree | modelled, checked, proved |
| 10 | `GovernedExport` | approval, artifact, object | downloaded as approved; a ready artifact is whole | modelled, checked, proved |
| 11 | `WorkerProcess` | | a hard exit is earned; the process goes on | modelled, checked, proved |
| 12 | `PersonMerge` | candidates | what is merged can be given back | modelled, checked, proved |
| 13 | `TextExtraction` | job, reduced | an end is final | modelled, checked, proved |
| 14 | `SearchIndex` | | what is found is current | modelled for facts, checked, proved |
| 15 | the limiter's two buckets, break-glass, members, other records of the index | | | if room is left |

Theorems worth having next: that the handlers' reduced queues (`ImportExecution`, `WebhookDelivery`,
`AiRun`, `TextExtraction`) are refined by `JobQueue`.
