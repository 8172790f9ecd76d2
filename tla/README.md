# Artifact Keeper: a TLA+ verification project

Artifact Keeper is an artifact registry: a Rust backend over PostgreSQL and an
object store, run as one or more replicas, with a web interface, an API
description and infrastructure code beside it. This directory holds TLA+ models
of the parts of the backend whose correctness depends on the order of things:
what keeps stored content alive while it is collected, uploaded in pieces,
replicated, cached, scanned and migrated. TLC checks the models on small instances, TLAPS
proves theorems about them for every instance.

Paths below are relative to `src/artifact-keeper/backend/`.

* [1. Inventory](#1-inventory)
* [2. Modules and code](#2-modules-and-code)
* [3. Runs](#3-runs)
* [4. Bounds, fairness, deadlock](#4-bounds-fairness-deadlock)
* [5. Theorems](#5-theorems)
* [6. What the models found](#6-what-the-models-found)
* [7. What is not modelled](#7-what-is-not-modelled)
* [8. Plan](#8-plan)

To run: `tlc -workers 2 -config StorageOci.cfg MCArtifactStorage`, and likewise
for the table in section 3; `tlapm ArtifactStorageProofs.tla` for the proofs.

## 1. Inventory

Every component keeps its state in PostgreSQL tables and, some of them, in an
object store or on a local disk. There is little shared memory (the proxy's in-flight
map is the exception that matters) and there are few transactions: a handler is a chain of autocommitted statements and storage
calls, each of which can fail, and the process (or the request's future, when
the client hangs up) can stop between any two. Background loops
(`src/services/scheduler_service.rs`, `sync_worker.rs`) run in every replica.
That makes statement-by-statement interleaving the right grain for the models.

| Component | State | Operations | Hard behaviour | What makes it correct |
|---|---|---|---|---|
| Artifact rows and objects (`artifact_service.rs`) | `artifacts` rows, unique per repository and path; objects named by the content's SHA-256 | upload (check, probe, put, upsert), delete (soft) | deduplication: rows share objects; probe-then-insert races | a live row has its object; versions are immutable |
| Storage GC (`storage_gc_service.rs`) | row locks of its transaction | scan for orphans; per object: lock and re-check, delete object, hard-delete rows, commit | stale candidates, runs of two replicas, failure between storage and database | deletes only what nothing refers to; everything orphaned goes eventually |
| OCI registry (`api/handlers/oci_v2.rs`) | `oci_tags`, `oci_manifest_refs`, manifest rows and objects | push manifest, delete manifest, startup backfill | four writes per push, one of them best-effort; index children are protected only indirectly | a tagged manifest, and the children of a tagged index, are stored |
| Lifecycle policies (`lifecycle_service.rs`) | `lifecycle_policies` | soft delete in one transaction, cascade to tags in another | stop between the two; concurrent pushes | no tag of a deleted row remains for good |
| Chunked uploads (`upload_service.rs`, `api/handlers/upload.rs`) | `upload_sessions`, `upload_chunks`, a temp file | create, upload chunk, complete, cancel, hourly expiry sweep | concurrent requests of one session, dropped requests, completion racing everything | what is published has the declared checksum; expired sessions settle |
| Peer replication (`sync_worker.rs`, `peer_instance_service.rs`) | `sync_tasks`, `peer_instances` with slots, backoff, status | queue, tick (select, reset, fetch, spawn), transfer, success, failure, heartbeat, stale detection | several replicas tick; tasks are claimed late; retries; lost answers | completed means delivered; every task settles; limits hold |
| Sync policies (`sync_policy_service.rs`) | `sync_policies` | evaluate, requeue and cancel tasks | acts on tasks whose transfer is running | the tasks queued are those that bring peers to the policy |
| Transfer sessions (`transfer_service.rs`) | `transfer_sessions`, `transfer_chunks` | init, complete, fail and retry chunk, complete session | re-init keeps chunk rows | a completed session has all chunks |
| Scans and quarantine (`scan_result_service.rs`, `scanner_service.rs`, `quarantine_service.rs`) | `scan_results`, findings, the quarantine status of the artifact | placeholder, scan, reuse, copy, convert, complete, fail, reap; hold, release, reject | janitor against a late scanner; content replaced under a scan; several deciders of one status | an artifact's findings and verdict belong to its content; counts are of findings that exist; rejections stand |
| Webhooks (`webhook_producer.rs`, `api/handlers/webhooks.rs`) | `webhook_deliveries`, `webhooks` with their secrets | enqueue, retry loop, manual redelivery, dead letter, auto-disable, secret rotation | retry loops of replicas; attempt counts read and written back; rotation under requests in flight | a delivery settles; a budget is really spent; signatures verify |
| Proxy cache (`proxy_service.rs`, `proxy_hydration.rs`, `api/handlers/proxy_helpers.rs`) | body and sidecar objects, the process's in-flight map | buffered fetch, detecting fetch, streaming fetch, redirect, invalidate | two objects per entry, writers of several processes, broken streams, clients that leave | a hit is one whole response; one fetch per process; an invalidation holds; nobody is stuck |
| Migration (`migration_worker.rs`, `migration_service.rs`, `api/handlers/migration.rs`) | `migration_jobs`, `migration_items` | assess, start, process, pause, resume, cancel | stop at any point, two workers on one job, status written without a look | a completed item is stored; a finished run saw everything; a running job ends |
| Promotion and approval (`api/handlers/approval.rs`, `promotion.rs`) | `promotion_approvals` | request, approve, reject, promote | two reviewers at once | one outcome per request |
| Email (`email_dispatcher.rs`, `email_rate_limiter.rs`) | in-memory counters | admit, send | limits at window boundaries | never above the limit |
| Incus uploads (`api/handlers/incus.rs`) | its own session table and temp files | start, append, finish, sweep | as for chunked uploads | as for chunked uploads |
| Authentication, permissions, repositories, scanners, SBOM, signing, search, plugins, backup, format handlers, storage backends | see `PROJECT.json` | | | not part of the plan; section 7 |

How they interact: uploads (plain, chunked, pushed) and deletes write
`artifacts`; policies soft-delete rows; the collector deletes objects and rows
that all the others may be about to use; an upload or a delete queues
`sync_tasks`, from which the worker pushes to or deletes from peers, where the
push arrives as a plain or chunked upload. Components share tables, never
memory, and call each other only through those tables and the storage trait.

`PROJECT.json` lists the hazards of this code with their lines.

## 2. Modules and code

### Artifact storage

    ArtifactTables            tables, objects, locks, the orphan predicate
      ArtifactService         upload and delete of plain artifacts
      OciRegistry             manifest push, delete, backfill
      LifecyclePolicy         soft delete and cascade
      StorageGc               a collection run
        ArtifactStorage       composes the four; properties
          MCArtifactStorage   instances for TLC
          ArtifactStorageProofs

`artifacts[<<r, p>>]` is the row of repository `r` and path `p`; `tags` is
`oci_tags`; `manifestRefs` is `oci_manifest_refs`; `blobs` the set of stored
objects, each a pair of a location and a key. A location is a storage backend
with its path: repositories of one cloud backend share one, a filesystem
repository has its own (`storage_gc_service.rs:157`). `CloudLocations` are the
locations where deleting a missing object succeeds; on a filesystem it fails.

Every statement is a step. `BeginUpload`, `ProbeContent`, `PutContent`,
`InsertArtifact` are the four awaits of `ArtifactService::upload`; `BeginPush`,
`PutManifest`, `UpsertTag`, `RecordManifestRefs`, `UpsertManifestRow` those of
`handle_put_manifest`; `SelectOrphans`, `LockRows`, `Recheck`, `DeleteObject`,
`HardDeleteRows`, `FinishRun` those of `run_gc`. `UploadFails`,
`OciRequestFails`, `ManifestRefsFail`, `CandidateFails`, `RunCrashes` and
`PolicyRunFails` end a request or a run between two of them.

A row lock blocks `UpsertArtifact` and `SoftDelete` of that row (`Unlocked`),
and `BreakDeadlock` is PostgreSQL failing one of two transactions that wait for
each other. `OrphanPredicate` is the SQL of the same name: all rows of the key
soft-deleted, the manifest not tagged at this location, no tagged index there
that lists it. Two history variables serve the properties: `overlap[w]` says
that an upload or a push of the object was in progress at some moment of the
collector's transaction, `raced` holds the objects deleted while a request
that counted on them was under way, and not stored again.

`LeasedObjects` is what the four together promise, without statements, locks or
transactions: a request leases the object it stores or finds, a name (a row or a
tag) is bound only to an object that is held and leased, and what is collected is
neither named nor leased. `ArtifactStorage!Registry` instantiates it with live rows
and tags as names; objects in `raced` count as held, so that it says exactly what
remains true although the collector does not see the leases.

### Chunked uploads

`UploadSession` is one session: its row, its chunk rows, the bytes of its temp
file, the object under the declared checksum, and what each request is doing.
A byte is *good* (what the declared checksum was computed from), *bad*, *zero*
(pre-allocated) or *none* (past the end), which is all that the size and hash
checks can tell apart. The handlers take any byte range the header may name,
misaligned or overlong, as `parse_content_range` and the handler do. `Abort` is
a dropped future, a failed statement or a dead process, at any step. A second
process, the sweeper, is `cleanup_expired`; it takes the same steps
(`UnlinkTemp`, `MarkCancelled`) as a cancel. `CopyInPlace` tells the filesystem
backend, whose `put_file` copies onto the final name, from backends that replace
the object at once.

`SealedUpload` is what a chunked upload promises, with neither requests nor
chunks nor files: content is open, then sealed good or bad, and only content
sealed good is ever stored and published. `UploadSession!Sealed` instantiates it
with `UploadedContent` (open until every chunk row is completed, then what size
and hash say of the temp file), and `ImplementsSealedUpload` is the refinement,
checked and proved. What it adds to the invariant is the order: nothing a late
or repeated request does changes the content once its last chunk is recorded.

### Peer replication

`SyncWorker` has one task per peer, artifact and task type (the table's unique
key), one row per peer, one tick per replica and a bounded pool of spawned
transfers. The tick is `SelectPeers`, `ResetRetriable`, then per peer
`FetchTasks`, and per task `CompleteFiltered` or `SpawnTransfer`, then
`EndTick`. A transfer is `StartTransfer` (marks the row in_progress),
`CountTransfer` (takes a slot), the request itself, and two statements each for
success (`CompleteTask`, `ReleaseSlot`) and failure (`FailTask`,
`PenalizePeer`). A transfer carries the retry count that was read with its task,
so stale counts and duplicate dispatch are in the model. The request may be
accepted, be refused or lose its answer after the peer has stored the artifact;
`ChunkedInitLost` is the init request of a chunked push that fails
with `?`. `LostSlots(p)` is what `active_transfers` counts beyond the transfers that
hold a slot. `delivered` records what a peer has ever accepted, `held` what it has.

### Webhooks

`WebhookDelivery` has one row per webhook and event. `SelectWebhooks` and
`InsertDeliveries` are the producer; a *sender* is a retry loop of a replica or a
redeliver request. A loop reads up to `Batch` due rows with their attempt counts
(`FetchDue` inside `Retry`), then for each loads the secrets, sends, and records
with the count it read: nothing marks a row as being handled, so loops and
redeliveries overlap, and a count may be lost. Dead-lettering and the disabling of
the webhook are two statements. `SenderFails` ends a sender at any step.
A secret is a number, `accepts[h]` the versions the receiver verifies with; a
rotation generates one (`RotateSecret`), it is installed at the receiver some time later
(`InstallSecret`) and the overlap ends (`OverlapEnds`, `ClearPreviousSecrets`).
`sent[d]` counts the requests really sent.

### Scans and quarantine

`ScanLifecycle` has the artifact with its content and quarantine status, a pool of
`scan_results` rows, and workers, each a trigger (`prepare_artifact_scan`: look up
an existing row per scanner, insert placeholders) and then a scan
(`scan_artifact_inner`: per scanner reuse, copy, convert, or run and store, then
the verdict). A content stands for its checksum; `Vulnerable` says which scanner
finds something in which content. `Owner` is everybody else who touches the
artifact: uploads (which hold it in a second statement), purges, releases and
rejections. `ReapStuckScans` is the janitor. `relabelled` is a history variable: the
checksums of placeholders that an upload overtook, for which the code promises
nothing (section 6).

### Proxy cache

`ProxyCache` is one entry, its two objects, and the requests of several processes.
A buffered request goes through `Arrive`, the check of sidecar and body,
`Acquire` (leader or follower of the process, whom `Wake` or `TimeOut` releases), the fetch, the writes of
body and sidecar with the ETag pin between, and `Release`; `detect` and
`invalidate` delete both objects first; `redirect` probes ETag and presence
(`Probe`, `HeadBody`) and sends the client to storage (`FollowRedirect`); `stream`
tees an upstream stream into the cache and takes no lease. `Cancel` is the drop of
a request's future, which is where `LeaderLease` cleans up; a storage write that
was under way then may still land (`LateWrite`). Bytes are known by upstream
version and extent (whole, a part up to where a client left, cut off by
upstream).

### Migration

`MigrationWorker` is one job, its items, the destination's rows and content, and
the workers. `StartMigration`, `PauseMigration`, `ResumeMigration`,
`CancelMigration` and `RunAssessment` are the handlers, each one conditional UPDATE
and, for three of them, a spawned task. A worker is a record that walks
`process_job` (`BeginRun`, `Provision`, `NextRepository`, `Finish`),
`process_repository_artifacts` (`ListArtifacts`, `NextArtifact`, `Leave`) and, per
artifact, `CheckArtifact`, `Transfer`, `StoreContent`, `InsertRow`,
`FinalizeTransfer`, `UpdateProgress`. Every `?` inside a repository is
`RepositoryFails`, every one outside is `RunFails`. A resume spawns a worker
without waiting for the one of before, so `Workers` are those that may be at work
at once. `cut` marks a run that was interrupted or met a failing listing. The
source lists a sequence of artifacts per repository in pages of `Limit`; one that
ignores the offset is in `Ignores`. `Slots` are the positions of all repositories,
`Extent` their number, and `ListedAtMost(r)` bounds what a run can be given of `r`.

`VerifiedCopy` is what a migration promises of the destination, without workers,
pages or items: content is stored once verified, published once and never replaced,
and recorded as done after it was published. `MigrationWorker!Copy` instantiates it
(`ImplementsVerifiedCopy`).

Time is abstract everywhere: an expiry, a backoff or a heartbeat's age is a flag
that flips.

## 3. Runs

| Run | Instance | Shows |
|---|---|---|
| `storage_packages` | three repositories, two of them at one cloud location and one on a filesystem, two GC runs, one uploader, one key, one failure (531 000 states) | every live row has its object unless an upload overlapped the collection; row locks exclude; a row revived during a collection survives it; the store implements `LeasedObjects` |
| `storage_oci` | an image index and its child, two tags, one client, one GC run, a policy, one failure, cloud location, fair (612 000) | the same for tags; children of tagged indexes are spared; every orphan is collected and every stale tag removed, in spite of the failure |
| `storage_lost_upload` | one key, one uploader, one GC run | **fails**: content lost to a concurrent collection |
| `upload_session` | two one-byte chunks, two concurrent requests and the sweeper, in-place copy, fair (329 000) | nothing unverified is published; the counter never runs ahead of the chunks; the session implements `SealedUpload`; an expired session ends up completed or cancelled for good |
| `sync_safety` | two replicas, one large artifact, two transfers at a time, one slot, two retries, one fault (3.0 million) | `active_transfers` never falls behind, and runs ahead only by a fault or a failed chunked init; completed pushes were delivered |
| `sync_liveness` | push and delete of two artifacts, one of which the filter keeps back, one slot, two retries, fair (382 000) | all four tasks settle |
| `webhook_delivery` | one delivery, two retry loops, a manual redelivery, two attempts, two rotations, one fault, fair (1.3 million) | a webhook is disabled only after its budget was sent; counts are of requests sent; signatures verify; a success stays; every delivery settles |
| `scan_reuse` | two artifacts, two contents, one scanner, two workers, two rows (1.3 million) | counted findings exist and are those of the row's checksum, whatever is reused, copied, converted, reaped or purged |
| `scan_uploads` | one artifact that is uploaded again, two scanners of which one applies, quarantine, three rows, fair (1.4 million) | a verdict is that of the content read; no row stays running |
| `scan_rejected` | two scanners, two workers, an administrator | **fails**: a clean scan overwrites a rejection |
| `proxy_cache` | three requests in two processes in three mixes of all five kinds, two upstream versions, two faults, fair (1.1 million) | one hydration per process; buffered hits are one response; broken bodies are not hits; invalidation holds; every request is answered |
| `migration_job` | a repository of two artifacts in pages of one and an empty one, an artifact that exists, two workers, one pause, one fault, fair (1.3 million) | completed items are stored; corrupt bodies get no row; finished runs counted everything once; progress stays in the job's extent; the job implements `VerifiedCopy`; running jobs end |

Further configurations. These pass and cover a bound the runs do not:

| Configuration | Covers |
|---|---|
| `UploadRanges.cfg` | ranges that reach beyond the end of the file (`MaxOffset` 2) |
| `UploadAtomicBackend.cfg` | a backend that replaces objects at once: a published object is always whole |
| `SyncPeers.cfg` | two peers, of which the replication filter excludes one; `TypeOK` |
| `MigrationPages.cfg` | two repositories, full and short pages of two, a source that ignores the offset in one of them; `TypeOK` |

And these end in a counterexample. They reproduce behaviour that contradicts a
comment or what one would expect, section 6 says which:

| Configuration | Property |
|---|---|
| `StorageStuckOrphan.cfg` | `OrphansAreCollected`, on a filesystem |
| `StorageLeak.cfg` | `RecordsFollowTheirObject` |
| `StorageOverwrite.cfg` | `VersionsAreImmutable` |
| `UploadClaims.cfg` | `CountersFollowChunks`; in its place also `ClaimsAreReleased`, `ReadersSeeWholeObjects` |
| `SyncStuckTask.cfg` | `QueuedTasksSettle`, with chunked pushes |
| `SyncClaims.cfg` | `CompletedPushIsAtItsPeer`; in its place also `DeletedArtifactsLeavePeers`, `TransfersRespectLimit` |
| `SyncSilentPeer.cfg` | `SilentPeersGoOffline` |
| `WebhookUnretried.cfg` | `ScheduledMeansRetried` |
| `ScanUnearned.cfg` | `CleanVerdictsAreEarned` |
| `ProxyClaims.cfg` | `HitsAreWhole`; in its place also `DetectsLatest` |
| `ProxyRedirect.cfg` | `FastPathServesDescribed` |
| `MigrationClaims.cfg` | `CancellationIsTerminal`; in its place also `PausedJobsWait`, `FailedMeansAllFailed`, `CompletedItemsStay`, and `OverwriteReplaces` with `Conflict = "overwrite"` |

## 4. Bounds, fairness, deadlock

**Bounds.** All model bounds are constants that appear in guards. Failures:
`MaxFailures` (failures and crashes of a storage behaviour) and `MaxFaults` (dead
processes and failed statements in replication and webhooks, where failed and lost
requests are not counted; failures, departures and crashes of the proxy; crashes,
lost spawns and failures that could not be recorded in migration, where failed
transfers and statements are not counted). Operators: `MaxRedeliveries`,
`MaxRotations`, `MaxUploads`, `MaxPauses`. Data: `MaxOffset` (the highest byte a
range may name), `MaxRows` (scan rows ever inserted), `MaxVersion` (upstream
versions). `Transfers`, and the sets of workers, loops and requests everywhere,
bound how many tasks are alive. The proofs do not depend on any of them. `Limit`,
`MaxRetries`, `MaxAttempts`, `Batch` and `MaxPages` are constants of the code.

The hazards need few actors. *Storage*: two rows that share an object, a third of
the same key elsewhere, one writer against one collector, two collectors against
each other; two manifests are the smallest index. One failure is enough because
every failure ends its request or run and the state it leaves is then explored
under all others; two tags let a digest lose one tag and keep another. *Uploads*:
two chunks make "all chunks" differ from "this chunk", an offset beyond the end
lets a range be overlong, and two requests plus the sweeper are two writers and
one remover. *Replication*: two replicas and two transfers are what duplicate
dispatch needs, one slot makes the limit bind, two retries distinguish first,
last and no retry. *Webhooks*: two loops read the same count, a redelivery
disturbs both, two attempts distinguish a first failure from the last, two
rotations are what an overlap must exclude. *Scans*: two artifacts are the source
and the target of a reuse, two rows their results; the instance with uploads needs a third
row, for the new content. *Proxy*: two requests of one process are a leader and a
follower, the third is a writer beyond its lease; two versions tell old from new;
two faults let a leader leave and its successor fail. *Migration*: two artifacts in
pages of one make every page full, including the last; the empty repository comes
after it; two workers are the overlap after one pause.

**Fairness.** `ArtifactStorage!Fairness`: a GC run and a policy run keep taking
steps, as the cron loops of `scheduler_service.rs` make them; clients owe
nothing. `UploadSession!Fairness`: a request proceeds or is aborted; time passes;
the hourly sweep runs, and is strongly fair at its two effects because a failed
statement ends one sweep, not the loop. `SyncWorker!Fairness`: the ten-second
tick and the spawned transfers run, a backoff ends, stale detection runs;
`FetchTasks` is strongly fair for each peer because `SkipPeer` stands for a closed
sync window, which reopens. No peer is assumed to answer. `QueuedTasksSettle` has the
assumption that peers are eventually always reachable in the formula, since an
offline peer's tasks rightly wait, and it is checked without faults, since
nothing in the code recovers a task whose transfer's process died.
`OrphansAreCollected` and `StaleTagsAreRemoved` are stated as "again and again
not orphaned": the collector may always find new work. `WebhookDelivery!Fairness`:
the 30-second loops run and backoffs end; receivers, operators and redeliveries
owe nothing. `ScanLifecycle!FairSpec`: the janitor runs; workers may stop
anywhere. `ProxyCache!Fairness`: the runtime polls every live request, and the
timeouts of the HTTP client and the wait slice end every await; the 65-second
deadline is *not* assumed to help, which is the point of `RequestsAreAnswered`.
`MigrationWorker!FairSpec`: a worker keeps taking steps, of which failing is one.
`RunningJobsEnd` excepts, by `faults > 0`, the workers that are lost: nothing takes
a job up again after a crash.

**Environment.** `OverlapEnds` assumes what a rotation's overlap of 24 hours is for:
by its end the receiver has installed the new secret and requests signed only with
the old one are over. Everything else of the environment is free.

**Deadlock** is checked except for uploads, the proxy and migration: when a session
could not be created or is terminal, when every request is answered, or when the
job has ended, the model has nothing left to do, as the system has.

**Symmetry** is used in runs without liveness, over requests, transfers, replicas,
collectors, artifacts and package keys, none of which is mentioned by name elsewhere
in the instance.

## 5. Theorems

Invariants, action properties and three refinements, for every value of the constants
that the named assumptions allow (locations are sets, sizes positive, limits
natural numbers, and what is counted finite: the requests of an upload, the transfers
of the sync workers, the redeliveries; `TurnsRespectLimit` adds the tasks). Every safety property of a
passing run is a theorem.

| Theorem | Says |
|---|---|
| `ArtifactStorageProofs!TypeCorrect` | `TypeOK` |
| `ArtifactStorageProofs!LiveContent` | `LiveRowsHaveContent` |
| `ArtifactStorageProofs!TaggedContent` | `TaggedManifestsHaveContent` |
| `ArtifactStorageProofs!LocksHeld` | `LocksExclude` |
| `ArtifactStorageProofs!OnlyDeletedVanish` | `OnlySoftDeletedRowsVanish`, of every step |
| `ArtifactStorageProofs!IndexChildrenSpared` | `GcSparesIndexChildren`, of every step |
| `ArtifactStorageProofs!LeasesImplemented` | `ImplementsLeases`, the refinement of `LeasedObjects` |
| `UploadSessionProofs!TypeCorrect` | `TypeOK` |
| `UploadSessionProofs!VerifiedContent` | `PublishedContentIsVerified` |
| `UploadSessionProofs!CountersBounded` | `CountersNeverOvertake` |
| `UploadSessionProofs!SealedContent` | `ImplementsSealedUpload`, the refinement |
| `SyncWorkerProofs!TypeCorrect` | `TypeOK`, including that no retry count exceeds its maximum |
| `SyncWorkerProofs!DeliveredPushes` | `CompletedPushesWereDelivered` |
| `SyncWorkerProofs!SlotsCovered` | `SlotsCoverTransfers` |
| `SyncWorkerProofs!LostSlotsExplained` | `SlotsLeakOnlyByFaults`, of every step |
| `WebhookDeliveryProofs!TypeCorrect` | `TypeOK` |
| `WebhookDeliveryProofs!HonestCounts` | `AttemptsWereSent` |
| `WebhookDeliveryProofs!BudgetSpent` | `DisabledOnlyAfterBudget` |
| `WebhookDeliveryProofs!VerifiableSignatures` | `SignaturesVerify` |
| `WebhookDeliveryProofs!SuccessKept` | `SuccessIsKept`, of every step |
| `ScanLifecycleProofs!TypeCorrect` | `TypeOK` |
| `ScanLifecycleProofs!CountedFindings` | `CountedFindingsExist` |
| `ScanLifecycleProofs!HonestResults` | `ResultsMatchChecksum` |
| `ScanLifecycleProofs!HonestVerdicts` | `VerdictsMatchContent` |
| `ProxyCacheProofs!TypeCorrect` | `TypeOK` |
| `ProxyCacheProofs!SingleFlight` | `OneHydrationPerProcess` |
| `ProxyCacheProofs!VerifiedAnswers` | `HitsAreOneResponse` |
| `ProxyCacheProofs!NoBrokenHits` | `BrokenBodiesAreNotHits` |
| `ProxyCacheProofs!InvalidationHolds` | `InvalidationIsKept` |
| `MigrationWorkerProofs!TypeCorrect` | `TypeOK` |
| `MigrationWorkerProofs!CompletedStored` | `CompletedItemsAreStored` |
| `MigrationWorkerProofs!CorruptionKeptOut` | `CorruptionIsNotStored` |
| `MigrationWorkerProofs!FinishedWhole` | `FinishedRunsAreWhole` |
| `MigrationWorkerProofs!ProgressInExtent` | `ProgressStaysInExtent` |
| `MigrationWorkerProofs!VerifiedMigration` | `ImplementsVerifiedCopy`, the refinement of `VerifiedCopy` |

Some claims fail in general (section 6) and hold under a condition. The
condition is the one thing its counterexample needs, so each of these theorems says
what the failure is due to, and that nothing else (crashes, stale reads, any number
of actors) can bring it about:

| Theorem | Says | Condition |
|---|---|---|
| `ArtifactStorageProofs!OneLocationLeaksNothing` | `RecordsFollowTheirObject` | all repositories at one location |
| `ArtifactStorageProofs!OneUploadKeepsVersions` | `VersionsAreImmutable` | one uploader, and tags and package names apart |
| `UploadSessionProofs!AtomicBackendServesWholeObjects` | `ReadersSeeWholeObjects` | `CopyInPlace = FALSE` |
| `UploadSessionProofs!UndroppedCountsFollow` | `CountersFollowChunks` | no request dropped between marking its chunk and counting it |
| `UploadSessionProofs!KeptClaimsAreReleased` | `ClaimsAreReleased` | no request dropped while it holds a claim, none finds the temp file gone |
| `SyncWorkerProofs!UnscoredPushesArrive` | `CompletedPushIsAtItsPeer` | no filter, no scored peer |
| `SyncWorkerProofs!TurnsRespectLimit` | `TransfersRespectLimit` | no tick reads the peers during another tick, or before the spawned transfers have counted themselves |
| `WebhookDeliveryProofs!LoopsRetryScheduled` | `ScheduledMeansRetried` | no manual redelivery |
| `ScanLifecycleProofs!UndisturbedVerdictsAreEarned` | `CleanVerdictsAreEarned` | the janitor fails no row, no content is replaced |
| `ProxyCacheProofs!WholeHits` | `HitsAreWhole` | no client leaves a stream, no stream is empty |
| `ProxyCacheProofs!PinnedRedirectsServeDescribed` | `FastPathServesDescribed` | each writer reads the ETag of the body it put |
| `ProxyCacheProofs!UndisturbedDetectionsAreLatest` | `DetectsLatest` | a detecting request comes when nobody is about to write an older version, and its delete of the sidecar succeeds |
| `MigrationWorkerProofs!LoneRunsKeepCompleted` | `CompletedItemsStay` | no two runs overlap |
| `MigrationWorkerProofs!UnpausedJobsFailWhole` | `FailedMeansAllFailed` | no pause |
| `MigrationWorkerProofs!EarlyCancellationsStand` | a cancellation stands | it comes before the last repository of every run, no assessment is under way, no run ends in an error |

**Storage.** That live rows have content is not inductive: it says nothing of
requests that will insert a row, nor of a collector about to delete. `ContentInv`
adds `TaggedManifestsHaveContent`, `RequestsHaveContent` (a request past its probe
or put has its object, or the object was deleted under overlap) and
`WindowIsQuiet` (between a collector's re-check and its storage delete, unless a
request overlapped, no live row, no tag and no request in progress refers to the
object). The
step that matters is the storage delete: either a request overlapped, and the
object goes to `raced`, or the window was quiet and no live row, tag or request
refers to the object. `LockInv` adds to `LocksExclude` that a locked row is a row of
the run's own object in an open transaction, which is what lets no second run take
it. `IndexInv` says that a run about to delete an object, if nothing overlapped it,
still finds that no tagged index lists it; a push that changes that is in progress
while it does, so the same step records the overlap. The refinement of
`LeasedObjects` is `ContentInv` read as steps: a name is bound by `InsertArtifact`
or `UpsertTag` to what the request's own probe or put made sure of, and the storage
delete maps to a collection when the window was quiet, and to a stutter, the object
being in `raced` instead, when it was not.

**Uploads.** `UploadInv` adds `ClaimsHeld` (two requests never hold one chunk,
a chunk held by a request is 'uploading') and, for each request, `CheckedFile`:
a completion past its check of the chunks finds no chunk still claimable, so no
request can write, and one past its hash has a good file. That is why the claim
must be exclusive and final: a chunk that could be claimed again after completion
would change the file between hash and copy. The refinement rests on the same
invariant: the step that completes the last chunk seals the content, and after it
every write is a stutter because there is none; what is stored is good because
the request that stores it has hashed a file that did not change since. For the
counter, `Missed` is the number of chunks that are marked and neither counted nor on
their way to be: it is never negative, grows by one when a request is dropped between
the two statements and changes in no other step (`MissedStep`), so `CountersBounded`
and `UndroppedCountsFollow` follow from the same lemma. Each step adds one element to a
finite set, or removes one, and the cardinality theorems of the library do the rest.
For `KeptClaimsAreReleased`, `ReleaseInv` says that every claim has its request, and
that the sweeper of expired sessions, which is a request of the model, has none.

**Replication.** `SyncInv` adds `RetriesRemain` (a pending row, a fetched
copy of a row and a running transfer carry a retry count below the maximum, which
bounds the count that a failure writes, however stale the copy is) and `Aimed` (a
transfer past its request had its artifact accepted at the endpoint it was sent to,
which is its task's peer unless scored selection applies). `SlotsCoverTransfers` is
inductive by itself, with cardinalities: one step takes a slot and counts it, and
what decrements the count has given its own slot up in that step. For
`SlotsLeakOnlyByFaults` each action changes count and holders by one and the same,
and `GREATEST(0, ...)` never binds because of the invariant. For `TurnsRespectLimit`,
`BudgetInv` adds up for each peer the transfers spawned for it, the tasks the one
running tick has fetched for it and the slots that tick has still to fill: the sum
never exceeds the limit, because a tick starts from `active_transfers`, which covers
the transfers by `SlotsCoverTransfers`, and each later step moves at most one unit from
slots to tasks to transfers. Slots that were lost only make it smaller.

**Webhooks.** `WebhookInv` adds `WithinBudget`: a row counts no more attempts than
its *allowance*, the requests sent for it less the redeliveries that were sent and
not yet recorded (each will add one to the row as it then is), and a loop's copy of
a row is covered in the same way. Stale copies only lower a count. `SecretsKnown`
says that the receiver knows the current secret, or during an overlap the previous
one; with it, what a sender loaded stays acceptable until the overlap ends.
`SuccessIsKept` needs `InsertedOnce`, that an event whose fan-out has not ended has
not inserted the row it is about to insert.

**Scans.** `ScanInv` has `RowHonest` for every row (its count is of findings it has,
and unless its checksum is overtaken its findings are among those of its label, all
of them once completed) and `WorkerOK` for every worker: the rows it prepared are
labelled with what it is scanning, its target is its own, its source was completed
when it was read. A source may be deleted or aged afterwards but, and this is the
lemma the steps share, a row only ever changes in ways that keep a completed row's
findings or remove the row as a whole. For the verdicts, `OneHolder` says that two
workers share a row only when its findings and count are settled: a placeholder that
the janitor failed, and whose count of zero a conversion returned, is completed by
nobody else. Without the janitor and without uploads (`UndisturbedVerdictsAreEarned`)
no prepared row is ever failed and unsettled (`PlaceholdersIntact`): a scan fails only
the row it works in, which is no longer among those prepared (`TakenOnce`), and a row
that another worker has too is settled by `OneHolder`.

**Proxy.** `CacheInv` has `RequestOK` (what a request has seen and got fits where it
is), `LeaseOK` (a slot belongs to one live leader, and all that fetch and fill for
buffered requests lead) and `FloorOK`: for a detecting request past its
invalidation, nothing that is stored, seen, in flight or at upstream is older than
every version of its floor. `UndisturbedDetectionsAreLatest` adds that the floor is then
the one version upstream had when the request came (`LatestInv`), and
`PinnedRedirectsServeDescribed` that checksum and ETag of every sidecar stored or read
are of the same bytes (`PinnedInv`).

**Migration.** `MigrationInv` has `WorkerOK` for every worker (its page is one the
source gives, a body past the check matches its artifact, past the store is stored,
past the insert has its row) and `RowsAreStored`. That another worker, a crash or a
failed statement does not disturb it follows because rows and content only grow.
For the counts, `CountedInv` says what a run has counted by where it is: a failure
per repository it leaves out, the slots of the repositories before its own, and the
places it has passed in its own (`Whole`, unless `cut`; `InBounds` always). A
repository that was listed to its end has had all its places passed, and `cut` is set
wherever one is left early; the cardinality theorems of the library move a repository
from "its own" to "before". The extent is a cardinality and not a sum for that reason: a sum would be a
recursion, about which nothing can be proved for every source. The refinement of
`VerifiedCopy` follows from `MigrationInv` step by step; a worker's insert publishes
what it checked, and a second worker's insert conflicts and is a stutter.
`LoneRunsKeepCompleted` needs only that a run in the middle of a transfer found the
item open and that nobody else has touched it since; `UnpausedJobsFailWhole` that one
run is all there is, so that its `completed` is not zero once an item is completed.
`EarlyCancellationsStand` follows a run through the rest of its repository: whatever
happens there leads back to the check of the status before the next one
(`InsideRepositories`, `LeavingGoes`), where the run sees the cancellation and stops.

**Only model-checked.** Liveness under fairness, which the prover does not handle:
`OrphansAreCollected`, `StaleTagsAreRemoved`, `ExpiredSessionsSettle`,
`QueuedTasksSettle`, `DeliveriesSettle`, `ScansSettle`, `RequestsAreAnswered` and
`RunningJobsEnd`.

## 6. What the models found

Two of these are runs; the others are reproduced by the configurations of section 3.

*Storage*

1. **Content lost to a concurrent collection** (`storage_lost_upload`,
   `storage_gc_service.rs:181`). The comment there says that a writer inserting a new
   reference is blocked by the row lock. The lock covers existing rows; a new row
   does not touch them. An upload that found its content stored, and inserts its row
   after the collector's delete, is live without an object.
2. **Orphans that cannot be collected** (`StorageStuckOrphan`,
   `storage_gc_service.rs:221`). After a failure between the storage delete and the
   commit, the next run's delete of the missing file fails on a filesystem, which the
   collector treats as a reason to keep the rows, although `storage/filesystem.rs:147`
   maps it to NotFound so that callers can treat it as done. On cloud backends the
   same failure is repaired by the next run, as `storage_oci` shows.
3. **Objects without rows** (`StorageLeak`, `storage_gc_service.rs:254`). The hard delete
   is by key only: with the same soft-deleted content at two locations, collecting one
   removes the rows of both, and the second object is never found again. With one location
   this cannot happen (`OneLocationLeaksNothing`).
4. **Versions replaced** (`StorageOverwrite`, `artifact_service.rs:267`). Two uploads of
   one new version both pass the immutability check; the second replaces the first
   (and with one uploader nothing does: `OneUploadKeepsVersions`).

*Uploads* (`UploadClaims`)

5. A failed write leaves its chunk 'uploading' for ever (`upload_service.rs:367`), although
   migration 089 says that it is set to 'failed'. No statement does; nothing else leaves one behind
   (`KeptClaimsAreReleased`).
6. A request dropped between the chunk's and the counter's UPDATE leaves them apart for
   good; completion does not look at the counter, progress reports do. Nothing else does
   (`UndroppedCountsFollow`).
7. `FilesystemStorage::put_file` copies onto the final name, so a second completion of the
   same content exposes a half-written object.

*Replication*

8. A chunked push whose init request fails skips the failure handling and stays in progress
   (`SyncStuckTask`, `sync_worker.rs:663`).
9. The push of a deleted artifact is still sent, possibly after its delete (`SyncClaims`,
   `sync_worker.rs:444`).
10. Slots are computed when a tick starts and taken when a spawned transfer gets to run;
    consecutive ticks exceed the limit (`SyncClaims`, `sync_worker.rs:545`; ticks that take
    turns do not, `TurnsRespectLimit`).
11. A push is sent to the best-scored peer, which already has the artifact, and recorded as
    completed for another (`SyncClaims`, `sync_worker.rs:495`).
12. A peer that falls silent while syncing is never marked offline (`SyncSilentPeer`,
    `peer_instance_service.rs:527`).

*Webhooks*

13. A manual redelivery counts an attempt and leaves the row scheduled: a row can run out
    of attempts without being retried or dead-lettered (`WebhookUnretried`,
    `api/handlers/webhooks.rs:905`; migration 067 says that NULL, not a time, means no more
    retries).

*Scans*

14. **A rejection overwritten** (`scan_rejected`, `scanner_service.rs:3876`). The conditional
    UPDATE that is to prevent it is used only when the status just read is 'quarantined';
    the other branch is unconditional.
15. A conversion of a placeholder that the janitor has failed meanwhile changes
    nothing and returns the count the row has, zero: a vulnerable content gets a clean
    verdict (`ScanUnearned`).
16. A placeholder overtaken by an upload is completed with the findings of the new content
    under the checksum of the old one, and later reused by that checksum; a scan of the old
    content may write its verdict over the hold of the new. `relabelled` excepts both in the
    properties.

*Proxy cache*

17. A detecting fetch can be answered by a fetch that began before upstream published
    (`ProxyClaims`, `proxy_service.rs:1086`, "This guarantees we observe the latest upstream
    Release"): it joins that fetch, or finds what it wrote after the invalidation.
    `InvalidationIsKept` is what does hold, and without such a fetch or a failed delete the
    promise is kept (`UndisturbedDetectionsAreLatest`).
18. A client that leaves ends the cache writer's stream like an end of file: a truncated body
    is committed with a sidecar that matches it, and is a hit from then on (`ProxyClaims`,
    `proxy_service.rs:277`).
19. The ETag pinned in a sidecar is read after the body was put, and may be that of another
    writer's body: the redirect's fast path then serves bytes the sidecar does not describe
    (`ProxyRedirect`, `proxy_service.rs:503`), and that is the only way to it
    (`PinnedRedirectsServeDescribed`). Streamed hits are not verified at all.

*Migration* (`MigrationClaims`)

20. The worker writes 'running', 'completed' or 'failed', and the assessment 'ready' or
    'failed', without looking at the status: a cancellation
    (`api/handlers/migration.rs:1306`, "a terminal transition") or a pause just before is
    overwritten (an earlier one is not, `EarlyCancellationsStand`). A pause noticed within the last repository ends the job as completed, which
    cannot be resumed.
21. A resume spawns a second worker while the first is still in an artifact and then takes
    the job for running; an item that one completed may be marked failed by the other. The
    cancellation token that would stop a worker is never cancelled.
22. A resumed run counts from zero, and items completed before count as skipped:
    `determine_final_status` ("Returns Failed only when all items failed") says failed for a
    job with completed items.
23. `INSERT ... ON CONFLICT DO NOTHING` is used for every conflict resolution: Overwrite
    completes the item without replacing anything, and Rename does not rename.
24. An error of the handler after its UPDATE, or a crash, leaves a job running with no
    worker (the exception of `RunningJobsEnd`).

## 7. What is not modelled

* In modelled components: hooks, package catalogue and search indexing after an
  upload; layers, pulls and proxying of the OCI registry; which rows each lifecycle
  policy selects; the session's `bytes_received`; peer registration, removal and
  probing; byte and failure counters; package inventories, acknowledgements and scores
  of scans; webhooks without an encrypted secret; the proxy's token exchange,
  conditional requests, cache keys and repair of missing objects; users, groups,
  permissions, metadata, dry runs and the report of a migration, and the deletion of
  its job or of a repository while it runs.
* Sync policies: `evaluate_for_artifact` queues, requeues and cancels tasks by label
  and policy. A task of a running transfer may be set back to pending, and a completed
  push counts as presence although a delete may have followed; queueing a finished
  task from an upload only raises its priority.
* Transfer sessions: the receiving peer drives them with single statements. The
  facts worth a model: `init` inserts its chunk rows outside a transaction and keeps
  those of an earlier init, with another chunk size or completed; a failure is
  accepted for a completed chunk; completion checks, then updates.
* Not yet: the other components of section 8.
* Not planned: authentication and permissions, whose subject is access and not the
  state of artifacts; scanners, SBOM, signing, search, backup and format handlers,
  which parse, generate or call external programs and keep no state whose order
  matters; cloud storage clients, of which only the two differences above reach the
  models; the web interface, infrastructure and generated API code.

The models cover the parts whose correctness depends on the order of steps. They are a
small part of the code by lines: most of it is the request and document handling of
some thirty package formats, on top of the same rows and objects.

## 8. Plan

1. **SyncPolicy**, extending `SyncWorker`: property, at rest, the peers that hold an
   artifact are those the policies want; abstract specification, a set of desired and
   a set of actual copies.
2. **TransferSession**: init, chunks, completion; refinement to "all chunks, once".
3. **Approval** and **RateLimiter**: one outcome per request; never above the limit.
4. **IncusUpload**: the second chunked upload, against `SealedUpload`.
5. Pure algorithms against reference definitions: size-quota eviction
   (`select_size_quota_evictions`), backoff, window limits.
6. An abstract registry with copies, over `LeasedObjects` of each peer.

Theorems next: the same for the deletes of replicated artifacts (`DeletedArtifactsLeavePeers`
when a push and a delete of one artifact are never queued together) and for paused
migrations (`PausedJobsWait`), then the refinements of the modules above.
