# Context-OS: models, checks and proofs

TLA+ models of the parts of this repository where several processes work on the same
rows, files, keys and money: the Rust backend's document ingestion, deletion and object
clean-up, the document lock, the wallet with its usage holds, billing webhooks and
referral rewards (`avrag-rs/`). The modules are translated from the code; `PROJECT.json`
maps every definition to its lines.

    tlc -workers 2 -config MCIngestionQueue.cfg MCIngestionQueue     # a run
    tlapm IngestionQueueProofs.tla                                   # the proofs

## 1. Inventory

How the parts interact: the HTTP API (`transport-http`, `app-documents`) writes
`documents` and inserts rows into two Postgres tables used as queues. Worker processes
(`bins/worker`) poll both, hold a row under a lease, take a lock on the document, and call
the object store, the retrieval index (Milvus or pgvector), DuckDB files on disk and
Postgres, each in its own call. Chat turns and relayed calls pay from a wallet that
webhooks, polls, registrations and a maintenance job write to as well. There is no
transaction over two stores, and most handlers are several transactions in one. Nothing is
delivered in order, processes may die anywhere, and leases expire while their holders run.

| Component | State | Operations | What is hard | What makes it correct |
|---|---|---|---|---|
| Ingestion queue (`repository_ingestion_queue.rs`) | `ingestion_tasks`: status, attempt_count, lock_token, locked_at, available_at | enqueue, claim, renew, complete, fail, fail_terminal; bury by deletion | a stale row is taken over from a live worker; the last attempt dies; off-by-one of the budget | one holder; late runs change nothing; every task settles |
| Cleanup queue (`repository_cleanup_queue.rs`, `ingestion_guard.rs`) | `document_cleanup_tasks`, a run's phase and listed assets | claim, renew, complete, fail; the phases | lease lost between question and phase; retries after partial failure; rows list the objects, under the document's workspace only | deleted means gone; no object loses its row first; completed means deleted; a deletion settles |
| Document lifecycle (`app-documents`, `repository_retrieval_lifecycle.rs`) | `documents.status`, `deletion_error`, `workspace_id` | create, PUT, complete, reindex, PATCH and move, delete | API requests race workers; two transactions in reindex; PUT in flight; a move leaves derived rows behind | deletion is final, but for a publish commit |
| Ingestion pipeline (`runtime.rs`, `processor.rs`, `document_pipeline/`) | a run's stage, lease, last answered question; chunks, blocks, assets, index, DuckDB | run_once and the stages | check-then-act on four stores; Milvus purges before it inserts; demotions after the lease is gone; crash before complete() | a completed document has its content; no rows after deletion |
| Document lock (`cache-redis/lock.rs`, advisory fallback) | a Redis key with a TTL, a session lock | try_acquire, fall back, release, Drop | TTL; a DEL without a token from a thread of its own; an unlock that fails on a pooled session; two lock domains | two runs of a document do not overlap while Redis answers; each lock excludes; the lock comes free |
| Orphan scan (`orphan_object_jobs.rs`) | a listing, a set of paths | list, fetch, delete | both are stale when used; RLS; key patterns | live files are spared; orphans go |
| Wallet (`billing/wallet.rs`, `pg_wallet_store.rs`) | balance, lifetime top-up, ledger | apply_ledger_entry, signup grant | the key is looked up before the row is locked; lost commit replies | an entry counts once and by its amount; no balance below zero |
| Usage holds (`billing_context.rs`, `chat/pipeline.rs`, `maintenance.rs`) | the holds of the ledger, a turn's stage | balance check, place, debit, release, release_stale_usage_holds | dropped futures; turn and reaper release the same hold | a hold comes back, once; turns run under it |
| Billing webhooks (`service.rs`, `process.rs`, `lease.rs`, `maintenance.rs`) | webhook_events, orders, subscriptions, outbox | handle, claim, process, credit, finish, poll, expire, send | duplicates, reordering, a claim without a token, two transactions per event | acknowledged means applied; a paid top-up is credited; lapsed subscriptions end; the outbox settles |
| Referral rewards (`referral.rs`) | referrals, quota | apply_referral_on_register, finish_pending | overlapping registrations; the quota grows meanwhile; death between two grants | both sides are paid or neither |
| Chat turn, SSE, persistence (`app-chat`) | session, messages, active hold | preflight, run, stream, persist | dropped futures, partial streams | a hold is released; a turn is stored once |
| Relay and desktop tokens, rate limiter, embedding gate | tokens, windows, buckets | issue, revoke, take, refund | several processes on one counter | limits hold; refunds do not exceed takes |
| Auth, sessions, password reset | sessions, one-time tokens | login, refresh, reset | replay, expiry | a token is used once |
| Share and share cache | share links, cached answers | share, revoke, look up | stale cache after revocation | no answer after revocation |
| Workspace publish (`workspace_publish.rs`) | upload parts, sessions; `documents`, index | begin, put part, commit | a commit upserts documents over any status and dies half way; abandoned uploads | a published document is whole |
| Agent loop, tools, RAG, LLM, search, guardrails, parsing | mostly data | | text and ranking | not protocol properties |
| `frontend_next`, `desktop`, `osv7` | their own | | | out of scope or later |

`archive/` and `docs-recovered-from-grok/` are history and are not part of the system.

## 2. Modules

| Module | Models | EXTENDS / INSTANCE | Proofs |
|---|---|---|---|
| `TaskLease` | what a leased queue promises: no tokens, rows, clocks or SQL | | |
| `IngestionQueue` | `ingestion_tasks` and what a worker remembers of its claim | refines `TaskLease` | `IngestionQueueProofs` |
| `CleanupQueue` | `delete_document`, `document_cleanup_tasks`, the cleanup phases | refines `TaskLease` | `CleanupQueueProofs` |
| `DocumentPipeline` | API, `run_once`, the pipeline stages, the cleaners | EXTENDS `IngestionQueue`, INSTANCE `CleanupQueue`, implements `QueueSpec` | `DocumentPipelineProofs` |
| `OrphanScan` | `OrphanObjectJobRunner` and its environment | | `OrphanScanProofs` |
| `DocumentLock` | the Redis lock, the advisory lock, the fallback | | `DocumentLockProofs` |
| `Account` | what the wallet promises: entries count once, balances stay at or above zero | | |
| `WalletStore` | `apply_ledger_entry`, statement by statement | refines `Account` | `WalletStoreProofs` |
| `UsageHold` | turns, holds, debits, the hold reaper | EXTENDS `WalletStore` | `UsageHoldProofs` |
| `BillingWebhooks` | webhook handlers, polls, the maintenance job | EXTENDS `Account` | |
| `Referral` | registrations with an invite code | EXTENDS `Account` | |
| `BillingSystem` | the last two over one account | EXTENDS both | `BillingSystemProofs` |
| `MC*` | the instances TLC checks | | |

**Documents.** `rows[t]` is a row of `ingestion_tasks` ("new" and "deleted" are rows not in
the table), `lease[w]` the task_id and lock_token the worker got from its last claim.
`cleanup[d]` and `job[c]` are the same for cleanup, with the phase of the run, the asset
keys it has listed and whether it has asked for its lease in this phase. `document[d]`
holds status and deletion_error, `workspace[d]` its workspace_id. `stored[d]` is what exists
of the document without a workspace of its own: the uploaded object, the index, "rows" (the
body chunks), the table evidence chunks, the struct_store files. `filed[d]` are its derived
rows that do have one: `<<ws, a>>` is the `document_assets` row of asset a under workspace ws,
`<<ws, NoAsset>>` stands for parse runs, blocks and multimodal chunks under ws. A run files
under the workspace of its task (`TaskWorkspace`), a move (`PatchDocument`) changes
`workspace[d]` alone, and the cleanup lists and deletes under `workspace[d]` (`Listed`,
`DeleteDerivedRows`); so rows under a workspace the document has left survive, as in the
code. `asset_objects` is kept apart from the rows because they are the list it is deleted by;
`ProjectDocumentIr` clears the rows and keeps the objects, `UndoAsset` may leave either, and
`CleanupInit` starts from any rows and any objects. `run[w]` is where `run_once` is, what
document it works on and whether it was last told that it may go on. `published[d]` is where
the publish commit that last met the document is: its upsert (`PublishRow`) writes a
completed row over whatever is there, the index follows (`PublishIndex`, `PublishVectors`),
and a document that is not in the export loses its index before `DeleteDocument`
(`DropStaleIndex`). One action is one SQL statement or transaction, one call to a store, or
one return.

`IndexStore` is the retrieval data plane. With "pgvector" an index is replaced in one
transaction (`ReplaceIndex`); with "milvus" it is purged, whatever the deletes answer
(`PurgeIndex`), and inserted by later calls that may fail half way (`InsertIndex`,
`InsertIndexFails`), and deleting it always answers Ok (`IndexDeletions`); with "none" the
stage does nothing. The index of a document is one flag: "index" means that some part exists.

**The lock.** `key_left` counts the ticks until the Redis key expires, `advisory` names
the session that has the Postgres lock (`IdleSession`: a pooled one nobody uses, which an
unlock that failed has left it to), `call[s]` is one call of `process()` and its age.
A dropped guard leaves a phase "dropped" behind: the thread whose DEL has not arrived. In
`DocumentPipeline` the lock is one guard, `LockDocument`, that excludes or, with
`ExclusiveLock = FALSE`, does not.

**Money.** `tx[p]` is the `apply_ledger_entry` process p is in: it has looked its key up
and missed, holds the wallet row's lock with the balance it has read, or has its answer.
An error is an insufficient balance as well as a failed statement, before the commit or,
when only the reply is lost, after it. `stage[t]` is where a turn is. A turn in `HoldTurn`
is a chat turn on platform keys; the others pass the balance check and place no hold
(relayed desktop calls, the indexing of a document, turns on models without a price), so
`RunsUnderHold` does not speak of them. `webhook[e]`, `order[x]`, `sub[x]`
and `outbox[<<x, n>>]` are the rows of those names, the outbox row being addressed by its
dedupe key; `handler[h]` is the event a request applies and the transaction it has reached,
`job` what the maintenance job has read and not yet written. In `BillingWebhooks` and
`Referral` a ledger entry is one step of `Account`, which `WalletStore` is shown to
implement.

**Abstractions.** In the queues time is not counted: a queued row has a backoff timer, a
processing row a lease timer, and it elapses at any moment; a heartbeat restarts it. So a
lease may expire while its worker runs, which is more than 30 minutes against a task
timeout of five usually allow, and is what a stalled process meets. A lock token is the
number of the claim, unique per row as `gen_random_uuid()` is. `for update skip locked` is
not modelled: a claim is one step. `NextTask` of the cleanup queue leaves the order among
equals open. Where any error is possible (`ProcessFails`, `Fail`, `Die`) it happens at
any stage; which error, and its text, is left out except retryable or terminal. One
process runs ingestion and cleanup one after the other; the models let them run side by
side, which allows more. A phase is modelled with its question first
(`CheckSideEffects`, `CheckLease`) and its effect as a later action. The heartbeat's
`lease_lost` flag repeats the answer of the lease question and is left out. Prices are
amounts of an entry; whether a turn can pay is `Covers`. The maintenance job runs on one
replica, as `bins/worker/src/lib.rs` (295-301) demands of the side jobs, except that the
hold reaper is also proved for several.

## 3. Runs

| Run | Instance | States | Shows |
|---|---|---|---|
| `queue` | 4 tasks (two under one key), 3 workers, 2 queue groups, 2 attempts | 129,181 | `TypeOK` (no row is claimed more than max_attempts times), `LeaseExclusive`, `LateRunChangesNothing`, `ImplementsTaskLease`, `EveryTaskSettles` |
| `cleanup` | 1 document, 2 assets, 2 workspaces, Milvus, 2 cleaners, 2 attempts | 670,832 | `CleanupInv`, `DeletedMeansGone`, `DeletedShowsNoError`, `RowsOutliveObjects`, `ImplementsTaskLease`, `DeletionSettles` |
| `workers` | 1 document, ingest and reindex task, pgvector, 2 workers, 2 attempts | 604,232 | `PipelineInv`, `CompletedHasContent`, `UsesTheQueue` |
| `deletion` | 1 document, an upload task with 1 attempt, 1 worker, 1 cleaner, an asset, Milvus, publish commits, PATCHes and moves between 2 workspaces, no exclusive lock | 2,756,188 | `DeletionInv` (with `PipelineInv`), `DeletedHasNoRows`, `DeletionBuriesUploads`, `DeletionIsFinal`, `LateWritesAreBounded` |
| `orphan_scan` | 2 documents, an asset, another key, 1 scanner | 20,073 | `ScanInv`, `ScanSparesLiveFiles`, `OrphansAreDeleted` |
| `document_lock` | 3 calls, TTL 7, timeout 4, DEL delay 2 ticks | 612 | `LockInv`, `ExclusiveUntilRedisFails`, `EachLockExcludes`, `LockComesFree` |
| `usage_hold` | 1 wallet, 2 chat turns, a relayed turn, 2 model calls, the reaper | 235,040 | `UsageInv`, `ReleaseFollowsHold`, `RunsUnderHold`, `SettledHoldsCostNothing`, `ImplementsAccount`, `HoldsAreReturned` |
| `billing` | 3 users, 5 events in 4 scenarios, 2 requests, 2 registrations | 49,114 | `SystemInv`, `ProcessedMeansApplied`, `SentMeansNotified`, `RewardsBothOrNeither`, `EntitlementsArePaid`, `TopUpIsCredited`, `LapsedEnds`, `OutboxSettles` |
| `late_evidence` | 1 task, 1 worker, 1 cleaner | violation | `DeletedHasNoChunks` does not hold |
| `late_index` | 1 task, 1 worker, 1 cleaner | violation | `DeletedHasNoIndex` does not hold |
| `orphan_assets` | as `orphan_scan` | violation | `OnlyExpectedPattern` does not hold |
| `billing_expiry` | a subscription that is paid, renewed and runs out | violation | `ExpiryIsAnnounced` does not hold |

What the less obvious of these say. `DeletedMeansGone`: of a deleted document there is no
upload, no chunk, no row in its workspace and, with pgvector, no index, whichever runs
cleaned it and whatever rows and objects the deletion began with. It says nothing of rows
under another workspace and of objects without a row, which stay. `RowsOutliveObjects`: no
cleanup run, overtaken or not, removes an asset's row before its object, so a retry finds
every object that could be found. The pipeline's invariants, `CompletedHasContent`,
`DeletedHasNoRows` and `LateWritesAreBounded` are about documents no publish commit has met
(`Unpublished`): its upsert needs no content and brings deleted documents back, so they
promise nothing of others. `DeletionIsFinal` is about all documents and names that upsert as
the only way back. `CompletedHasContent` includes the index with pgvector only.
`DeletionBuriesUploads`: once a document is being deleted no upload task of it is queued or
running, whoever completed or requeued it; a reindex, which is queued in a transaction of
its own, may be. `LateWritesAreBounded`: the stores that look at no status can be written
after a deletion, but with every such write there is one run less that may do so.
`SettledHoldsCostNothing`: a wallet is worth its grants minus its debits and the holds still
out, so a hold that was released, by its turn or by the reaper, has cost nothing.
`EntitlementsArePaid`: behind a top-up in the wallet and behind every subscription row, a
canceled one too, stands an order marked paid, and behind that a payment. Balances are
compared with `Total[K]`, the sum of the amounts of a set of entries; in a run it is
computed.

**Bounds, and why they are enough.** The queue's rows meet only in the claim statement
(order, groups, the CTE) and in the unique key, so two competing tasks of one group, two
under one key and one of another group cover each pair; two workers per task are the late
one and the one that took over, and two attempts give a first, a last, a requeue and a
take-over of each. Two cleanup attempts and two cleaners are likewise an overtaken run and
the one that took over, each of which may be the one to finish. Cleanup rows of different
documents meet only in the choice of the next row, so one document is enough for the phases.
Two assets are needed for a delete that fails half way, two workspaces for rows the document
has left behind. The run uses Milvus, whose index deletes may do nothing; the proof covers
the others. In the pipeline one document carries every interaction, since no statement there
touches two; an ingest and a reindex task are the two tasks of one document that can be
alive at once, with their two workers. A run mirrors at most one asset, and `Asset` bounds
how many exist at a time (one in `deletion`, none in `workers`). `workers` has one
workspace, pgvector and no publish commit: what it asks is whether overlapping runs and
retries complete a document they have not written. `deletion` has one worker, one cleaner
and one attempt, so that everything else a deletion can meet fits: a late run, a client's
PATCH and move, a publish commit, a worker or cleaner that dies. Several of them at once,
and the other stores, are covered by the proofs; two cleaners are in `cleanup`, two workers
in `workers`. A document is in at most one publish commit at a time. `PatchStatus` is the
set of statuses a client PATCHes a document to: it is empty in `workers`, since a client may
PATCH any document to completed (`DocumentStatus` without deleting and deleted), against
which no content property can hold.

The lock's times keep the order the code's defaults have (`LockAssumption`: task timeout
plus the delay of a DEL is less than the TTL) with room for a call to begin, be overtaken
and delete late; three calls are a holder, a late DEL and whoever comes next. The wallet of
`usage_hold` covers one hold and not two, so the second is refused, or granted after a
release; one call is debited before its hold and one under it. In `billing` a `Scenario`
says which events happen together, which requests are handled at once and when the clock
stops: a top-up handled twice at once; a top-up under which two invitees register
(`Inviting`); an Alipay plan, paid and polled, whose period does not end within the run's
bound; a Creem subscription paid and canceled in either order of arrival, whose period ends.
`LapsedEnds` is exercised by the latter only; the two share `expire_subscriptions`.
Everything else of the events (repeats, polls, crashes, leases that end) is free in each.
`BaseQuota`, `TopupStep` and `DailyCap` are 1, 2 and 1, so the second registration meets the
quota before the top-up and the cap after it.

The bounds in guards are `MaxAttempts` (max_attempts, 5 by default in the database),
`Task` (insert attempts), `Asset`, `MaxNow` with `until`, `MaxRetry` (the outbox's retry
limit) and `Inviting`; nothing else in the models counts.

**Fairness.** Workers poll (`Claim` is weakly fair), a run ends because the task timeout,
an error or a crash ends it (the disjunction of all ends is weakly fair, never a
particular one), timers run out. That is all `EveryTaskSettles` and `DeletionSettles`
use: death in every attempt is allowed, and the property is that the row then is
dead-lettered. In `OrphanScan` the scan repeats daily and every scan may end early; what
is assumed is that list, fetch and the delete of a given object do not fail for ever
(strong fairness), without which nothing is reclaimed by any program. The lock comes free
because time passes, futures time out and threads end, and because the pool closes
connections that are idle or past their lifetime, so that a session left with the advisory
lock is not used again for ever (`CloseSession`, strongly fair); a DEL may always be lost.
`HoldsAreReturned` needs the reaper to come round and its statements not to fail for ever;
turns may die at every point. `TopUpIsCredited` needs the provider to deliver a top-up
again until it is answered with success (which is what their protocols do), leases to run
out, and the two transactions of a delivery not to fail for ever; `LapsedEnds` and
`OutboxSettles` need the same of the job. A client that never completes an upload is
allowed; no action of the API is fair.
Deadlock checking is off where everything may rightly be finished (all tasks settled, the
document deleted, all turns over, the clock at its end), on in `orphan_scan` and
`document_lock`.

## 4. Disagreements found

* `late_evidence`: `replace_table_evidence_chunks` does not repeat the document's status
  condition in its transaction, as the other writers of chunks, blocks and assets do. A worker told before
  the deletion that it may go on writes chunks after the cleanup has completed. The
  hand-off document says the PG chunks are all cleared.
* `late_index`: the same window at the retrieval index, which has no condition to repeat;
  the architecture document says the index is no longer written. How bad the two can get
  is proved (`LateWritesBounded`): one write of each run that had passed its check when
  the deletion came, and none of any later run.
* `orphan_assets`: the scan treats every key of four or more segments that is no
  `documents.object_path` as an orphan. Asset keys have five. Its comment says only keys
  of the four-segment pattern are deleted.
* `billing_expiry`: the announcement of an expiry (`maintenance.rs:63`) is inserted under
  the dedupe key that the announcement of the payment of the same period already has, so no
  paid period is ever announced as expired. The notifications' README lists both. The run
  shows one; `ExpiriesGoUnannounced` proves it of all: the outbox never holds such a row.
* Not a run of its own: the comment at `processor.rs:359-362` says the guarantee of the
  document lock "still holds without Redis". `DocumentLock!MutualExclusion` is that
  guarantee; it is lost at the first Redis error, two steps from the initial state (one
  worker holds the Redis key, another falls back to the advisory lock).
  `ExclusiveUntilRedisFails` and `EachLockExcludes` say what does hold, and the proof of
  `CompletedIsWhole` shows that completed documents do not depend on it.

Behaviour the models have, of which no text of the repository says otherwise:

* A move (`PUT /documents/{id}` with a workspace_id) leaves the document's blocks, parse runs,
  assets and multimodal chunks under the old workspace. A deletion after it neither lists nor
  deletes them (`repository_retrieval_cleanup.rs`, 52-63 and 122-158), so rows and asset
  objects outlive the deleted document. A move while an upload task is queued makes every
  attempt of the task fail, since the parse run is created and finished only while the
  document is in the workspace of the task.
* A retry or a reindex clears the asset rows of the run before it and not their objects
  (`repository_document_ir.rs:33`); cleanup, which lists rows, never finds these objects.
* A second run over Milvus that fails after its purge leaves a document without an index, which
  may be completed if the run's failure is never written to it. Deleting an index from Milvus
  reports no error, so a deleted document may keep one.
* A publish commit writes completed over deleting and deleted. When such a document is deleted
  again after its cleanup has ended, the key of the task is taken: the insert does nothing,
  and the document stays deleting.

## 5. Proofs

Every theorem is for all values of the constants that satisfy the named assumptions of the
modules: any sets of tasks, workers, documents, workspaces, assets, cleaners, turns, events,
registrations; any `IndexStore`; any `MaxAttempts` in `Nat \ {0}`. The assumptions are
typing, disjointness of keys and the order of a few times, except `TotalAssumption` and
`StoreTotalAssumption`: they say that `Total` of no entries is 0 and that one more entry
adds its amount. These are the defining equations of a sum, which cannot be computed by
recursion in a module that is proved about; nothing else is assumed of it, and the runs
evaluate both over their instances.

Where components are composed, the proofs of the parts are used in the whole:
`PipelineSpec => QueueSpec` brings every theorem about the queue, and the lemmas of
`CleanupQueueProofs` and `WalletStoreProofs` are instantiated. The invariants come in
layers, so that a later layer is proved with the earlier one at hand in both states.

**Queue** (`ConstantsAssumption`)
* `LeaseInvariant`: `QueueSpec => []LeaseInv`. `LeaseExclusive` is not inductive: it says
  nothing of a worker that remembers a token which a later claim could hand out again.
  `LeaseInv` adds that a processing row's token is the number of its claims, that a
  remembered token is between 1 and that number, and that no two workers remember the
  same claim; the next claim's token is therefore one nobody remembers.
* `TypeCorrect`, `Exclusive` (of `TypeOK`, `LeaseExclusive`) follow from it.
* `LateRunHarmless`: the action property `LateRunChangesNothing`.
* `Refinement`: `QueueSpec => ImplementsTaskLease`. Each action maps, task by task, to a
  step of `TaskLease` or leaves it; one claim statement may bury several rows and grant
  one in a single abstract step.

**Cleanup** (`CleanupAssumption`)
* `CleanupInvariant`: `CleanupSpec => []CleanupInv`. The lease part is as above.
  `DeletedMeansGone` is not inductive: it needs `TaskMeansDeletion`, and `EarlierPhasesDone`:
  what the earlier phases of a run have removed stays removed while the run goes on, although
  others run too, because all of them only remove; and of the assets that have a row in the
  document's workspace only those the run has still listed have an object. Nothing is assumed
  of the rows and objects a deletion begins with but their types and the key of
  `document_assets`.
* `DeletedIsGone`, `NoErrorAfterDeletion`, `CompletedIsDeleted` follow from it.
* `CleanupLosesNoObject`: the action property `RowsOutliveObjects`. Rows are removed in one
  action, by a run in the phase "rows", and for it `EarlierPhasesDone` says that no asset
  with a row in the workspace has an object, also when the run was overtaken meanwhile.
* `CleanupRefinement`: `CleanupSpec => ImplementsTaskLease`. Its lemmas need only the lease
  part, `LeaseInv`, which is inductive by itself (`StepKeepsLease`); so they hold wherever
  something else writes into the stores, and the pipeline takes them over.

**Pipeline** (`PipelineAssumption`)
* `PipelineUsesTheQueue`: `PipelineSpec => QueueSpec`, so every theorem about the queue
  holds of the composition; `LeaseInv` is carried over this way.
* `PipelineInvariant`: `PipelineSpec => []PipelineInv`. It knows what the stages behind
  a run have written as long as the document is not being deleted (`StagesHaveWritten`),
  that cleanup tasks and runs exist only for documents being deleted, and that rows a
  cleanup has removed do not come back before it marks the document (`RowsStayGone`), which
  is what the status condition of the row-writing transactions is for. All of these are
  about documents no publish commit has met. Rows come back under no workspace, so where the
  worker files them does not matter; that the document's own workspace cannot change under a
  cleanup is the status condition of `update_document`. Each action is shown to have a few
  effects (`DeletionStays`, `ContentStays`, `NoNewRows`, `PublishedStays`, `CompletedByRun`; a
  move by `MoveEffects`, a publish commit by `PublishEffects`), and one lemma, `StepKeepsInv`,
  shows that these keep the invariant.
* `DeletedLeavesNoRows` and `DeletionStaysFinal` follow: chunks are gone, and so are the other
  rows in the document's workspace; the upsert of a publish commit is the only step that takes
  a document out of deleting but to deleted, or out of deleted.
* `PipelineKeepsTheQueuesPromises`: `LeaseExclusive`, `LateRunChangesNothing` and
  `ImplementsTaskLease` among all the other writers. `PipelineCleansLikeTheQueue`: the same
  refinement for the cleanup tasks. It is not a run of its own: `cleanup` checks it of the
  queue, and the composition adds only steps that leave the claims alone.
* `DeletionInvariant`: `PipelineSpec => []DeletionInv`, the second layer. `CleanupInv` of the
  queue alone is false here, because late runs write into the stores that look at no
  status; what survives, until a publish commit meets the document, is that a run whose
  phases all went well has marked it, that a completed task means a deleted document and that
  a finished deletion shows no error. `UploadsAreBuried` and `DeletionsEnd` follow.
* `LateWritesBounded`: the action property `LateWritesAreBounded`. A run can write one of
  those stores only with an unused answer (`checked = "yes"`), in the struct stage or
  between the purge and the inserts of Milvus, and every such write uses it up; nobody gets
  a new answer for a document being deleted.
* `CompletedIsWhole`: `[]CompletedHasContent`, under the assumption that clients do not
  PATCH documents to completed, of documents no publish commit has met; the index belongs to
  the content with pgvector only, because Milvus gives it up before it has the new one. The
  document lock is not among the assumptions: what the lock must never do is let a run
  report success for work another run has not done, which is the mutant
  `LockDocumentOrSkip`.

**Orphan scan** (`ScanAssumption`: the three kinds of keys are disjoint)
* `ScanInvariant`: files come after rows, and listed files are known to a deleting scan.
* `LiveFilesSpared`: from it, the action property `ScanSparesLiveFiles`. The argument is
  the order in `maybe_run`: the listing comes first, and a file in it had its row
  committed before; so the paths fetched second contain it unless the row has been
  deleted, and a deleted row never comes back.

**Lock** (`LockAssumption`)
* `LockInvariant`, `EachLockIsExclusive`, `ExclusiveWhileRedisAnswers`. The invariant is
  that at most one call processes under the Redis lock or has its DEL on the way
  (`OneEngaged`) and that the key it set is as old as it (`KeyOutlivesCall`): a DEL
  without a token is harmless exactly as long as it arrives before the key expires.

**Wallet and holds** (`StoreAssumption`, `UsageAssumption`)
* `StoreInvariant` and `Refinement` of `WalletStoreProofs`: whoever holds a wallet row's
  lock has read the present balance, so `apply_ledger_entry` implements `Account`.
* `WalletsAreTotals`: `StoreSpec => []BalancesAreTotals`. A balance that is overwritten
  from a stale read, an entry counted twice or one retried after a lost reply would show
  as a difference between the wallet and its ledger (and `lifetime_paid_topup_fen` and the
  paid top-ups among its entries). It follows step by step from the
  refinement: every commit is a step of `Account`, which adds one entry.
* `HoldInvariant` with `ReleasesFollow`, `TurnsRunUnderHold`, `UsageRefinement`. Beyond
  types `HoldInv` is `ReleasesAreDue` (a release under way or in the ledger has its
  hold in the ledger, and its turn is through or old) and `HoldsAreKnown` (a turn past its
  placement has its hold in the ledger).
* `UsageInvariant`, the second layer, and `HoldsCostNothing`. When a release is committed
  its hold is in the ledger (`HoldInv`) and of the opposite amount, so the sum without the
  two entries is the balance after the release, whatever came between.

**Billing and referral** (`BillingAssumption`, `ReferralAssumption`, `SystemAssumption`,
`AccountAssumption`)
* `SystemInvariant` with `AcknowledgedIsApplied`, `SentIsNotified`, `RewardIsWhole`. The
  first layer, `CommitInv`, adds `HandlersInv` (a handler that goes on has committed what is
  behind it), `OutboxInv` and `RegistrationsInv` (a registration pays in the order of
  `finish_pending`). Since a claim has no token, a slow handler may overwrite another's
  mark; the proof is that whoever writes "processed" has applied the event itself.
* `SystemBalances`, `NothingUnpaid`, `ExpiriesGoUnannounced`, from the rest of `SystemInv`.
  `EntitlementsArePaid` is not inductive: a request could work on an event that never
  happened, or an expiry on a row that does not exist; `EventsAreReal` excludes both.
  `ExpiryFindsPaidRow` holds because the transaction that sets the end of a period also
  inserts the paid row under the key of that end, and the outbox loses no row.

Only model-checked: the liveness properties (`EveryTaskSettles`, `DeletionSettles`,
`OrphansAreDeleted`, `LockComesFree`, `HoldsAreReturned`, `TopUpIsCredited`, `LapsedEnds`,
`OutboxSettles`), which are out of the prover's reach. Every safety property of a passing
run is proved.

## 6. Not modelled, and why

Documents: URL imports (`url_imports.rs`) and the multipart upload; the windowed LLM stage
with summary, profile and `document_toc` (best effort; the table of contents has neither a
status condition nor a deletion in the cleanup, listed as a hazard); the struct line map;
the fields of `document_parse_runs` beyond the workspace they are filed under; the index
beyond one flag per document (search, schema, which vectors of which run); metering of the
pipeline beyond its wallet check; a store request that lands after the task timeout has
dropped its future. S3 assets whose stored path is a presigned URL are skipped by the
cleanup; the model's keys are the local store's. The size and hash check of an upload is one
nondeterministic outcome.

Money: the computation of prices; turns on the user's own keys, which pay nothing;
checkout pages, signatures and wire formats; quota and usage queries; the notifications
that are sent directly after a webhook's commit (best effort, nothing depends on them).
Two replicas running the side jobs at once are excluded by configuration, not by code.

Whole components: the agent loop, tools, RAG, search, guardrails, parsing and OCR are about
what text says or a model answers, and are most of the repository's lines; that is why the
mapped lines are a small share of the whole. Auth and password reset, the rate limiter and
the embedding gate, the share cache, the part uploads and sessions of workspace publish and
the tokens of the relay are protocols and could be modelled; they are listed below.
`PROJECT.json` has every component with its reason.

## 7. Plan

Done: `TaskLease`, both queues, `DocumentPipeline`, `OrphanScan`, `DocumentLock`,
`Account`, `WalletStore`, `UsageHold`, `BillingWebhooks`, `Referral` and `BillingSystem`,
each with its proofs. Left to prove: that `BillingSystem` over `WalletStore` instead of
`Account` (the two steps of a ledger call inside a handler) keeps `SystemInv`. Left to model:

1. A liveness property of documents (no document stays queued or processing with no task
   left), once the exhausted CTE, the two transactions of reindex and the taken key are
   decided to be defects or repairs by the user.
2. `DocumentPipeline` with the windowed LLM stage and `document_toc`.
3. The rate limiter and the embedding gate: takes and refunds by several processes. Worth a
   model because a caller of the gate reads the clock before it waits for a connection
   (`embed_rate_gate.rs`, `try_bucket`), and the script writes that time back as `ts` even
   when it is older than the one there: a late caller lets the same interval refill the
   bucket twice.
4. Share cache: an answer cached while a link is revoked or a document reindexed.
5. One-time tokens of password reset; desktop tokens and their revocation.
6. The part uploads and session states of workspace publish, in front of the commits that
   `DocumentPipeline` has.
7. The Go wallet of `osv7` as a second implementation of `Account`.
