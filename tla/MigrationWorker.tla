--------------------------- MODULE MigrationWorker ---------------------------
(***************************************************************************)
(* One registry migration job: the handlers that move its status, and the  *)
(* worker each start and each resume spawns, which lists the artifacts of  *)
(* the source repositories page by page and transfers them one by one.     *)
(*                                                                         *)
(* A worker learns of a pause or a cancellation from the status of the job *)
(* only, between two artifacts or two repositories; its cancellation token *)
(* is never cancelled.  A resume does not wait for the worker of before,   *)
(* so several may be at work.                                              *)
(*                                                                         *)
(* The source does not change while it is migrated and the destination has *)
(* no other writer.  Metadata, sizes, users, groups, permissions, dry runs *)
(* and the report are left out.                                            *)
(***************************************************************************)
EXTENDS Integers, FiniteSets, Sequences

CONSTANTS Workers,
          Artifacts,
          Contents,
          Source,        \* Source[r]: the artifacts of repository r, as listed
          Content,       \* Content[a]: what the source holds
          Advertised,    \* Advertised[a]: the digest the listing gives
          CacheOnly,     \* artifacts of a cache, which may be gone
          Unusable,      \* repositories unknown, unsupported or conflicting
          Existing,      \* Existing[a]: what the destination holds before
          Parsed,        \* artifacts stored under <name>/<version>/<file>
          Conflict,      \* the conflict_resolution of the job
          Ignores,       \* repositories whose source ignores the offset
          Limit,         \* batch_size
          MaxPages,      \* MAX_ARTIFACT_PAGES
          MaxPauses,     \* model bound on pauses
          MaxFaults,     \* model bound on crashes, lost spawns and lost failures
          Garbage,
          None

Repositories == DOMAIN Source
Bodies == Contents \cup {Garbage}

ASSUME SourceAssumption ==
    /\ Source \in Seq(Seq(Artifacts))
    /\ Content \in [Artifacts -> Contents]
    /\ Advertised \in [Artifacts -> {"sha256", "sha1", "none"}]
    /\ CacheOnly \subseteq Artifacts /\ Parsed \subseteq Artifacts
    /\ Unusable \subseteq Repositories /\ Ignores \subseteq Repositories
ASSUME DestinationAssumption ==
    /\ Existing \in [Artifacts -> Bodies \cup {None}]
    /\ None \notin Bodies /\ Garbage \notin Contents
    /\ Conflict \in {"skip", "overwrite", "rename"}
ASSUME BoundsAssumption ==
    /\ Limit \in Nat \ {0} /\ MaxPages \in Nat
    /\ MaxPauses \in Nat /\ MaxFaults \in Nat

VARIABLES job,        \* migration_jobs.status
          progress,   \* the counters of the job row, as one sum
          items,      \* items[a]: status of the migration_items row of a
          rows,       \* rows[a]: content of the live artifacts row of a
          stored,     \* the contents in storage
          assessor,   \* the task of run_assessment
          worker,     \* worker[w]
          pauses, faults

vars == <<job, progress, items, rows, stored, assessor, worker, pauses, faults>>

Idle == [pc |-> "idle", repo |-> 1, offset |-> 0, page |-> 0, at |-> 0, pages |-> 0,
         artifact |-> None, body |-> None, skips |-> {}, cut |-> FALSE,
         completed |-> 0, failed |-> 0, skipped |-> 0]

JobStatuses == {"pending", "assessing", "ready", "running", "paused", "completed",
                "failed", "cancelled"}
InTransfer == {"check", "transfer", "store", "insert", "finalize", "report"}
InRepository == {"list", "artifacts"} \cup InTransfer
OutsideRepositories == {"begin", "provision", "repositories", "finish"}

Worker ==
    [pc : {"idle"} \cup OutsideRepositories \cup InRepository,
     repo : Nat, offset : Nat, page : Nat, at : Nat, pages : Nat,
     artifact : Artifacts \cup {None}, body : Bodies \cup {None},
     skips : SUBSET Repositories, cut : BOOLEAN,
     completed : Nat, failed : Nat, skipped : Nat]

TypeOK ==
    /\ job \in JobStatuses
    /\ progress \in Nat
    /\ items \in [Artifacts -> {"absent", "pending", "completed", "failed", "skipped"}]
    /\ rows \in [Artifacts -> Bodies \cup {None}]
    /\ stored \subseteq Bodies
    /\ assessor \in {"idle", "assessing"}
    /\ worker \in [Workers -> Worker]
    /\ pauses \in 0..MaxPauses
    /\ faults \in 0..MaxFaults

Init ==
    /\ job = "pending"
    /\ progress = 0
    /\ items = [a \in Artifacts |-> "absent"]
    /\ rows = Existing
    /\ stored = {Existing[a] : a \in Artifacts} \ {None}
    /\ assessor = "idle"
    /\ worker = [w \in Workers |-> Idle]
    /\ pauses = 0
    /\ faults = 0

-----------------------------------------------------------------------------
(* Worker w moves to the state q.                                          *)
Goes(w, q) == worker' = [worker EXCEPT ![w] = q]

(* The handlers.  Each starts with one conditional UPDATE of the status;   *)
(* what comes after it may fail, and then the task is not spawned and the  *)
(* status stays.                                                           *)
Spawn(w) ==
    /\ worker[w].pc = "idle"
    /\ Goes(w, [Idle EXCEPT !.pc = "begin"])
    /\ UNCHANGED faults

(* A failure is recorded by a statement whose own failure is ignored.      *)
Record(status) ==
    \/ job' = status /\ UNCHANGED faults
    \/ faults < MaxFaults /\ faults' = faults + 1 /\ UNCHANGED job

LoseSpawn ==
    /\ faults < MaxFaults
    /\ faults' = faults + 1
    /\ UNCHANGED worker

StartMigration(w) ==
    /\ job \in {"pending", "ready"}
    /\ job' = "running"
    /\ Spawn(w) \/ LoseSpawn
    /\ UNCHANGED <<progress, items, rows, stored, assessor, pauses>>

PauseMigration ==
    /\ job = "running"
    /\ pauses < MaxPauses
    /\ job' = "paused"
    /\ pauses' = pauses + 1
    /\ UNCHANGED <<progress, items, rows, stored, assessor, worker, faults>>

ResumeMigration(w) ==
    /\ job = "paused"
    /\ job' = "running"
    /\ Spawn(w) \/ LoseSpawn
    /\ UNCHANGED <<progress, items, rows, stored, assessor, pauses>>

CancelMigration ==
    /\ job \in {"pending", "ready", "running", "paused", "assessing"}
    /\ job' = "cancelled"
    /\ UNCHANGED <<progress, items, rows, stored, assessor, worker, pauses, faults>>

RunAssessment ==
    /\ job = "pending"
    /\ job' = "assessing"
    /\ \/ assessor' = "assessing" /\ UNCHANGED faults
       \/ faults < MaxFaults /\ faults' = faults + 1 /\ UNCHANGED assessor
    /\ UNCHANGED <<progress, items, rows, stored, worker, pauses>>

(* save_assessment and the failure branch: neither looks at the status.    *)
FinishAssessment ==
    /\ assessor = "assessing"
    /\ assessor' = "idle"
    /\ \/ job' = "ready" /\ UNCHANGED faults
       \/ Record("failed")
    /\ UNCHANGED <<progress, items, rows, stored, worker, pauses>>

-----------------------------------------------------------------------------
(* process_job.                                                            *)
Stopped == job \in {"paused", "cancelled"}

(* resume_job reads the counters of before, logs them and drops them.      *)
(* Mutant of CountersOfRun: the run counts on from there.                  *)
CountersOfBefore == progress
CountersOfRun == 0

BeginRun(w) ==
    /\ worker[w].pc = "begin"
    /\ job' = "running"
    /\ Goes(w, [worker[w] EXCEPT !.pc = "provision", !.skipped = CountersOfRun])
    /\ UNCHANGED <<progress, items, rows, stored, assessor, pauses, faults>>

(* The repositories that cannot be used, and any whose creation fails, are *)
(* one failure each and are left out.                                      *)
Provision(w) ==
    /\ worker[w].pc = "provision"
    /\ \E skips \in SUBSET Repositories :
          /\ Unusable \subseteq skips
          /\ Goes(w, [worker[w] EXCEPT !.pc = "repositories", !.skips = skips,
                                       !.failed = Cardinality(skips)])
    /\ UNCHANGED <<job, progress, items, rows, stored, assessor, pauses, faults>>

Remaining(w) == {r \in Repositories : r >= worker[w].repo /\ r \notin worker[w].skips}

NextRepository(w) ==
    /\ worker[w].pc = "repositories"
    /\ \/ /\ Remaining(w) = {}
          /\ Goes(w, [worker[w] EXCEPT !.pc = "finish"])
       \/ \E r \in Remaining(w) :
             /\ \A s \in Remaining(w) : r <= s
             /\ Goes(w, IF Stopped THEN Idle
                        ELSE [worker[w] EXCEPT !.pc = "list", !.repo = r])
    /\ UNCHANGED <<job, progress, items, rows, stored, assessor, pauses, faults>>

FinalStatus(w) ==
    IF worker[w].failed > 0 /\ worker[w].completed = 0 THEN "failed" ELSE "completed"

Finish(w) ==
    /\ worker[w].pc = "finish"
    /\ job' = FinalStatus(w)
    /\ Goes(w, Idle)
    /\ UNCHANGED <<progress, items, rows, stored, assessor, pauses, faults>>

(* An error outside the repositories ends the run; whoever spawned the     *)
(* worker records it.                                                      *)
(* Mutant of StatusAfterError: the error is only logged.                   *)
StatusOfBefore == job
StatusAfterError == "failed"

RunFails(w) ==
    /\ worker[w].pc \in OutsideRepositories
    /\ Record(StatusAfterError)
    /\ Goes(w, Idle)
    /\ UNCHANGED <<progress, items, rows, stored, assessor, pauses>>

-----------------------------------------------------------------------------
(* process_repository_artifacts.                                           *)
Leave(w, cut) ==
    Goes(w, [worker[w] EXCEPT !.pc = "repositories", !.repo = @ + 1, !.offset = 0,
                              !.page = 0, !.at = 0, !.pages = 0, !.artifact = None,
                              !.body = None, !.cut = @ \/ cut])

From(q) == IF q.repo \in Ignores THEN 0 ELSE q.offset
PageSize(q) ==
    LET left == Len(Source[q.repo]) - From(q)
    IN  IF left >= Limit THEN Limit ELSE IF left > 0 THEN left ELSE 0

ListArtifacts(w) ==
    /\ worker[w].pc = "list"
    /\ IF worker[w].pages >= MaxPages THEN Leave(w, TRUE)
       ELSE IF PageSize(worker[w]) = 0 THEN Leave(w, FALSE)
       ELSE Goes(w, [worker[w] EXCEPT !.pc = "artifacts", !.page = PageSize(worker[w]),
                                      !.at = 0, !.pages = @ + 1])
    /\ UNCHANGED <<job, progress, items, rows, stored, assessor, pauses, faults>>

(* should_fetch_next_page: a short page is the last one.                   *)
(* Mutant of FullPage: a page of just the limit is taken for the last.     *)
OverfullPage(size) == size > Limit
FullPage(size) == size >= Limit

NextArtifact(w) ==
    /\ worker[w].pc = "artifacts"
    /\ LET q == worker[w]
       IN  IF q.at < q.page
           THEN IF Stopped THEN Leave(w, TRUE)
                ELSE Goes(w, [q EXCEPT !.pc = "check",
                                       !.artifact = Source[q.repo][From(q) + q.at + 1]])
           ELSE IF FullPage(q.page)
                THEN Goes(w, [q EXCEPT !.pc = "list", !.page = 0, !.at = 0,
                                       !.offset = @ + q.page])
                ELSE Leave(w, FALSE)
    /\ UNCHANGED <<job, progress, items, rows, stored, assessor, pauses, faults>>

(* A failed listing or statement ends the repository, not the run.         *)
RepositoryFails(w) ==
    /\ worker[w].pc \in InRepository
    /\ Leave(w, TRUE)
    /\ UNCHANGED <<job, progress, items, rows, stored, assessor, pauses, faults>>

-----------------------------------------------------------------------------
(* What the loop does for one artifact.                                    *)
Skipped(w) == Goes(w, [worker[w] EXCEPT !.pc = "artifacts", !.at = @ + 1,
                                         !.artifact = None, !.skipped = @ + 1])

(* check_artifact_duplicate looks for a live row whose path is that of the *)
(* source, and compares its SHA-256 with whatever digest there is.         *)
Duplicate(a) ==
    /\ rows[a] # None /\ a \notin Parsed
    /\ Conflict = "skip"
    /\ \/ Advertised[a] = "none"
       \/ Advertised[a] = "sha256" /\ rows[a] = Content[a]

(* add_migration_item leaves the status of an item that is there.          *)
AddedStatus(a) == IF items[a] = "absent" THEN "pending" ELSE items[a]

CheckArtifact(w) ==
    /\ worker[w].pc = "check"
    /\ LET a == worker[w].artifact
       IN  IF items[a] = "completed" \/ Duplicate(a)
           THEN Skipped(w) /\ UNCHANGED items
           ELSE /\ Goes(w, [worker[w] EXCEPT !.pc = "transfer"])
                /\ items' = [items EXCEPT ![a] = AddedStatus(a)]
    /\ UNCHANGED <<job, progress, rows, stored, assessor, pauses, faults>>

SkipItem(w) ==
    /\ items' = [items EXCEPT ![worker[w].artifact] = "skipped"]
    /\ Goes(w, [worker[w] EXCEPT !.pc = "report", !.skipped = @ + 1, !.body = None])

FailItem(w) ==
    /\ items' = [items EXCEPT ![worker[w].artifact] = "failed"]
    /\ Goes(w, [worker[w] EXCEPT !.pc = "report", !.failed = @ + 1, !.body = None])

(* verify_expected_checksums, with verification enabled.                   *)
Matches(a, body) == Advertised[a] = "none" \/ body = Content[a]

(* Mutant of VerifiedOnDisk: the body is only verified once it is stored.  *)
VerifiedOnceStored(a, body) == TRUE
VerifiedOnDisk(a, body) == Matches(a, body)

(* The download, of what the source holds or of something else, and its    *)
(* verification before storage is touched.                                 *)
Transfer(w) ==
    /\ worker[w].pc = "transfer"
    /\ LET a == worker[w].artifact
       IN  IF Duplicate(a) THEN SkipItem(w)
           ELSE \/ FailItem(w)
                \/ a \in CacheOnly /\ SkipItem(w)
                \/ \E body \in {Content[a], Garbage} :
                      /\ VerifiedOnDisk(a, body)
                      /\ Goes(w, [worker[w] EXCEPT !.pc = "store", !.body = body])
                      /\ UNCHANGED items
    /\ UNCHANGED <<job, progress, rows, stored, assessor, pauses, faults>>

(* put_stream, unless the content is there already.                        *)
StoreContent(w) ==
    /\ worker[w].pc = "store"
    /\ \/ /\ stored' = stored \cup {worker[w].body}
          /\ Goes(w, [worker[w] EXCEPT !.pc = "insert"])
          /\ UNCHANGED items
       \/ worker[w].body \notin stored /\ FailItem(w) /\ UNCHANGED stored
    /\ UNCHANGED <<job, progress, rows, assessor, pauses, faults>>

(* Mutant of InsertConflicts: ON CONFLICT DO UPDATE.                       *)
UpdatesOnConflict(a) == FALSE
InsertConflicts(a) == rows[a] # None

(* Mutant of AfterFailedInsert: the error is only logged.                  *)
InsertErrorIgnored(w) ==
    Goes(w, [worker[w] EXCEPT !.pc = "finalize"]) /\ UNCHANGED items
AfterFailedInsert(w) == FailItem(w)

(* INSERT ... ON CONFLICT DO NOTHING, whatever the conflict resolution.    *)
InsertRow(w) ==
    /\ worker[w].pc = "insert"
    /\ LET a == worker[w].artifact
       IN  \/ /\ rows' = IF InsertConflicts(a) THEN rows
                         ELSE [rows EXCEPT ![a] = worker[w].body]
             /\ Goes(w, [worker[w] EXCEPT !.pc = "finalize"])
             /\ UNCHANGED items
           \/ AfterFailedInsert(w) /\ UNCHANGED rows
    /\ UNCHANGED <<job, progress, stored, assessor, pauses, faults>>

(* finalize_transfer verifies once more.  The metadata of the new row,     *)
(* written before it, may fail.                                            *)
FinalizeTransfer(w) ==
    /\ worker[w].pc = "finalize"
    /\ LET a == worker[w].artifact
       IN  \/ /\ Matches(a, worker[w].body)
             /\ items' = [items EXCEPT ![a] = "completed"]
             /\ Goes(w, [worker[w] EXCEPT !.pc = "report", !.body = None,
                                          !.completed = @ + 1])
           \/ FailItem(w)
    /\ UNCHANGED <<job, progress, rows, stored, assessor, pauses, faults>>

Handled(w) == worker[w].completed + worker[w].failed + worker[w].skipped

UpdateProgress(w) ==
    /\ worker[w].pc = "report"
    /\ progress' = Handled(w)
    /\ Goes(w, [worker[w] EXCEPT !.pc = "artifacts", !.at = @ + 1,
                              !.artifact = None])
    /\ UNCHANGED <<job, items, rows, stored, assessor, pauses, faults>>

-----------------------------------------------------------------------------
(* The server stops: nothing takes the job up again.                       *)
Crash ==
    /\ faults < MaxFaults
    /\ faults' = faults + 1
    /\ assessor' = "idle"
    /\ worker' = [w \in Workers |-> Idle]
    /\ UNCHANGED <<job, progress, items, rows, stored, pauses>>

WorkerStep(w) ==
    \/ BeginRun(w) \/ Provision(w) \/ NextRepository(w) \/ Finish(w) \/ RunFails(w)
    \/ ListArtifacts(w) \/ NextArtifact(w) \/ RepositoryFails(w)
    \/ CheckArtifact(w) \/ Transfer(w) \/ StoreContent(w) \/ InsertRow(w)
    \/ FinalizeTransfer(w) \/ UpdateProgress(w)

Next ==
    \/ \E w \in Workers : StartMigration(w) \/ ResumeMigration(w) \/ WorkerStep(w)
    \/ PauseMigration \/ CancelMigration \/ RunAssessment \/ FinishAssessment
    \/ Crash

Spec == Init /\ [][Next]_vars

(* The runtime polls every task, and every await in one ends.              *)
FairSpec == Spec /\ \A w \in Workers : WF_vars(WorkerStep(w))

-----------------------------------------------------------------------------
(* An item is recorded as completed only when the destination has a live   *)
(* row for the artifact and its content is in storage, whichever workers   *)
(* handled it and however often (finalize_transfer).                       *)
CompletedItemsAreStored ==
    \A a \in Artifacts :
        items[a] = "completed" => rows[a] # None /\ rows[a] \in stored

(* A body other than the advertised one never reaches the artifacts table, *)
(* not even for an item that is then failed (transfer_artifact).           *)
CorruptionIsNotStored ==
    \A a \in Artifacts :
        rows[a] = Garbage => Advertised[a] = "none" \/ Existing[a] = Garbage

(* The destination of a job, seen from outside.                            *)
Copy == INSTANCE VerifiedCopy WITH published <- rows,
                                   done <- {a \in Artifacts : items[a] = "completed"},
                                   Verified <- {v \in Artifacts \X Bodies : Matches(v[1], v[2])}

(* Whatever workers, resumes and crashes, every step of a job is one of a  *)
(* verified copy: it stores, publishes or completes by those rules, or it  *)
(* changes nothing at the destination (transfer_artifact).                 *)
ImplementsVerifiedCopy == Copy!Spec

(* What a run that leaves out the repositories of skips has to handle when *)
(* repository r lists size[r] artifacts: one failure for each it leaves    *)
(* out, and every place of a listing.                                      *)
Slots(S, size) == UNION {{r} \X (1..size[r]) : r \in S}
Extent(skips, size) ==
    Cardinality(skips) + Cardinality(Slots(Repositories \ skips, size))

Listed == [r \in Repositories |-> Len(Source[r])]

(* A source that ignores the offset lists its first page over and over, as *)
(* far as MAX_ARTIFACT_PAGES goes, unless that page is short.              *)
ListedAtMost ==
    [r \in Repositories |->
        IF r \in Ignores /\ Len(Source[r]) >= Limit THEN MaxPages * Limit ELSE Len(Source[r])]

(* A run that was not interrupted and met no failing listing has counted   *)
(* every artifact of every repository, once, when it decides on the final  *)
(* status, at every page size (process_repository_artifacts).              *)
FinishedRunsAreWhole ==
    \A w \in Workers :
        worker[w].pc = "finish" /\ ~worker[w].cut
            => Handled(w) = Extent(worker[w].skips, Listed)

(* The progress of the job never runs past its extent, however often it is *)
(* paused, resumed and started over; a source that ignores the offset can  *)
(* only be counted up to the page guard (update_job_progress).             *)
ProgressStaysInExtent ==
    \E skips \in SUBSET Repositories : progress <= Extent(skips, ListedAtMost)

(* A running job does not run for ever unless its worker is lost to a      *)
(* crash, was never spawned or could not record its failure: it finishes,  *)
(* or is paused or cancelled.                                              *)
RunningJobsEnd == job = "running" ~> job # "running" \/ faults > 0

(* handlers/migration.rs: "Cancellation is a terminal transition".         *)
CancellationIsTerminal == [][job = "cancelled" => job' = "cancelled"]_job

(* A paused job waits for a resume or a cancellation.                      *)
PausedJobsWait ==
    [][job = "paused" => job' \in {"cancelled", "running"}]_job

(* determine_final_status: "Returns Failed only when all items failed".    *)
FailedMeansAllFailed ==
    [][\A w \in Workers : Finish(w) /\ job' = "failed"
            => \A a \in Artifacts : items[a] # "completed"]_vars

(* Skip if already completed: what is completed is not handled again.      *)
CompletedItemsStay ==
    [][\A a \in Artifacts : items[a] = "completed" => items'[a] = "completed"]_vars

(* ConflictResolution: "Overwrite existing artifact".                      *)
OverwriteReplaces ==
    Conflict = "overwrite" =>
        \A a \in Artifacts : items[a] = "completed" => rows[a] = Content[a]
=============================================================================
