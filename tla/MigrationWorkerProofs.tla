------------------------ MODULE MigrationWorkerProofs ------------------------
(***************************************************************************)
(* Proofs about MigrationWorker: types, and what the items table, the      *)
(* artifacts table and storage say about one another whatever number of    *)
(* workers is at work on the job.                                          *)
(***************************************************************************)
EXTENDS MigrationWorker, FiniteSetTheorems, TLAPS

(* What the place of a worker says of its page, its artifact and its body. *)
Holding == {"store", "insert", "finalize"}
WorkerOK(q) ==
    /\ q.pc \in InRepository => q.repo \in Repositories
    /\ q.pc \in InTransfer \cup {"artifacts"} => q.page = PageSize(q)
    /\ q.pc \in InTransfer => q.artifact \in Artifacts
    /\ q.pc \in Holding => q.body \in Bodies /\ Matches(q.artifact, q.body)
    /\ q.pc \in {"insert", "finalize"} => q.body \in stored
    /\ q.pc = "finalize" => rows[q.artifact] # None

RowsAreStored == \A a \in Artifacts : rows[a] # None => rows[a] \in stored

(* The inductive invariant: a worker that is about to insert or to         *)
(* complete holds a verified body that is in storage, and what is inserted *)
(* or stored is never taken back.                                          *)
MigrationInv ==
    /\ TypeOK
    /\ \A w \in Workers : WorkerOK(worker[w])
    /\ RowsAreStored
    /\ CompletedItemsAreStored
    /\ CorruptionIsNotStored

-----------------------------------------------------------------------------
(* Pages.                                                                  *)
LEMMA PageSizes ==
  ASSUME NEW q \in Worker, q.repo \in Repositories
  PROVE  /\ From(q) \in Nat /\ PageSize(q) \in Nat
         /\ \A n \in Nat : n < PageSize(q) => Source[q.repo][From(q) + n + 1] \in Artifacts
  <1>1. /\ From(q) \in Nat
        /\ Source[q.repo] \in Seq(Artifacts) /\ Len(Source[q.repo]) \in Nat
    BY SourceAssumption DEF From, Worker, Repositories
  <1>2. PageSize(q) \in Nat
    BY <1>1, BoundsAssumption DEF PageSize
  <1>3. ASSUME NEW n \in Nat, n < PageSize(q)
        PROVE  From(q) + n + 1 \in 1..Len(Source[q.repo])
    BY <1>1, <1>3, BoundsAssumption DEF PageSize
  <1> QED BY <1>1, <1>2, <1>3

LEMMA RepositoriesFinite ==
  /\ IsFiniteSet(Repositories) /\ Repositories \subseteq Nat
  /\ \A S \in SUBSET Repositories : Cardinality(S) \in Nat
  <1>1. Repositories = 1..Len(Source) /\ Len(Source) \in Nat
    BY SourceAssumption DEF Repositories
  <1>2. IsFiniteSet(Repositories)
    BY <1>1, FS_Interval
  <1>3. Repositories \subseteq Nat
    BY <1>1
  <1> QED BY <1>2, <1>3, FS_Subset, FS_CardinalityType

LEMMA IdleWorker == Idle \in Worker /\ WorkerOK(Idle)
  BY DEF Idle, Worker, WorkerOK, InRepository, InTransfer, Holding, OutsideRepositories

-----------------------------------------------------------------------------
(* Rows and storage only grow.                                             *)
Grows ==
    /\ stored \subseteq stored'
    /\ \A a \in Artifacts : rows[a] # None => rows'[a] = rows[a]

LEMMA OthersStayOK ==
  ASSUME MigrationInv, NEW w \in Workers, NEW q \in Worker, Goes(w, q), Grows, WorkerOK(q)'
  PROVE  /\ worker' \in [Workers -> Worker]
         /\ \A v \in Workers : WorkerOK(worker[v])'
  <1>1. worker' \in [Workers -> Worker] /\ worker'[w] = q
    BY DEF Goes, MigrationInv, TypeOK
  <1>2. ASSUME NEW v \in Workers, v # w
        PROVE  WorkerOK(worker[v])'
    <2>1. worker'[v] = worker[v] /\ WorkerOK(worker[v])
      BY <1>2 DEF Goes, MigrationInv, TypeOK
    <2> QED BY <2>1 DEF WorkerOK, Grows, InRepository, InTransfer, Holding, PageSize, From, Matches
  <1> QED BY <1>1, <1>2

(* The records the actions make.                                           *)
LEMMA WorkerTyped ==
  ASSUME TypeOK, NEW w \in Workers
  PROVE  worker[w] \in Worker /\ worker \in [Workers -> Worker]
  BY DEF TypeOK

LEMMA LeaveMoves ==
  ASSUME TypeOK, NEW w \in Workers, NEW cut \in BOOLEAN, Leave(w, cut)
  PROVE  \E q \in Worker : Goes(w, q) /\ q.pc = "repositories"
  <1>1. PICK c \in BOOLEAN : c = (worker[w].cut \/ cut)
    OBVIOUS
  <1> DEFINE q == [worker[w] EXCEPT !.pc = "repositories", !.repo = @ + 1, !.offset = 0,
                     !.page = 0, !.at = 0, !.pages = 0, !.artifact = None, !.body = None,
                     !.cut = c]
  <1>2. worker[w] \in Worker /\ worker[w].repo + 1 \in Nat
    BY WorkerTyped DEF Worker
  <1>3. q \in Worker /\ q.pc = "repositories"
    BY <1>2 DEF Worker, OutsideRepositories
  <1>4. Goes(w, q)
    BY <1>1 DEF Leave, Goes
  <1> QED BY <1>3, <1>4

-----------------------------------------------------------------------------
(* A step that neither inserts a row nor stores content nor completes an   *)
(* item.                                                                   *)
Counters == /\ job' \in JobStatuses /\ progress' \in Nat
            /\ assessor' \in {"idle", "assessing"}
            /\ pauses' \in 0..MaxPauses /\ faults' \in 0..MaxFaults

Uncompleted ==
    /\ items' \in [Artifacts -> {"absent", "pending", "completed", "failed", "skipped"}]
    /\ \A a \in Artifacts : items'[a] = "completed" => items[a] = "completed"

LEMMA UnchangedItems == ASSUME MigrationInv, UNCHANGED items PROVE Uncompleted
  BY DEF Uncompleted, MigrationInv, TypeOK

LEMMA QuietMove ==
  ASSUME MigrationInv, NEW w \in Workers, NEW q \in Worker, Goes(w, q), WorkerOK(q),
         Counters, Uncompleted, UNCHANGED <<rows, stored>>
  PROVE  MigrationInv'
  <1>1. Grows /\ WorkerOK(q)'
    BY DEF Grows, WorkerOK, InRepository, InTransfer, Holding, PageSize, From, Matches
  <1>2. worker' \in [Workers -> Worker] /\ \A v \in Workers : WorkerOK(worker[v])'
    BY <1>1, OthersStayOK
  <1>3. TypeOK'
    BY <1>2 DEF MigrationInv, TypeOK, Counters, Uncompleted
  <1>4. RowsAreStored' /\ CompletedItemsAreStored' /\ CorruptionIsNotStored'
    BY DEF MigrationInv, RowsAreStored, CompletedItemsAreStored, CorruptionIsNotStored,
           Uncompleted
  <1> QED BY <1>2, <1>3, <1>4 DEF MigrationInv

LEMMA LeavingKeeps ==
  ASSUME MigrationInv, NEW w \in Workers, NEW cut \in BOOLEAN, Leave(w, cut),
         UNCHANGED <<job, progress, items, rows, stored, assessor, pauses, faults>>
  PROVE  MigrationInv'
  <1>1. PICK q \in Worker : Goes(w, q) /\ q.pc = "repositories"
    BY LeaveMoves DEF MigrationInv
  <1>2. WorkerOK(q)
    BY <1>1 DEF WorkerOK, InRepository, InTransfer, Holding
  <1>3. Counters
    BY DEF Counters, MigrationInv, TypeOK
  <1> QED BY <1>1, <1>2, <1>3, UnchangedItems, QuietMove

-----------------------------------------------------------------------------
(* The handlers.                                                           *)
LEMMA SpawningKeeps ==
  ASSUME MigrationInv, NEW w \in Workers, job' = "running", Spawn(w) \/ LoseSpawn,
         UNCHANGED <<progress, items, rows, stored, assessor, pauses>>
  PROVE  MigrationInv'
  <1>1. CASE Spawn(w)
    <2> DEFINE q == [Idle EXCEPT !.pc = "begin"]
    <2>1. q \in Worker
      BY IdleWorker DEF Worker, OutsideRepositories
    <2>2. q.pc = "begin"
      BY DEF Idle
    <2>3. q \in Worker /\ WorkerOK(q)
      BY <2>1, <2>2 DEF WorkerOK, InRepository, InTransfer, Holding
    <2>4. Counters /\ Goes(w, q)
      BY <1>1 DEF Spawn, Counters, MigrationInv, TypeOK, JobStatuses
    <2> HIDE DEF q
    <2> QED BY <2>3, <2>4, UnchangedItems, QuietMove
  <1>2. CASE LoseSpawn
    <2>1. Goes(w, worker[w]) /\ worker[w] \in Worker /\ WorkerOK(worker[w])
      BY <1>2 DEF LoseSpawn, Goes, MigrationInv, TypeOK
    <2>2. Counters
      BY <1>2, BoundsAssumption DEF LoseSpawn, Counters, MigrationInv, TypeOK, JobStatuses
    <2>3. PICK q \in Worker : q = worker[w]
      BY <2>1
    <2> QED BY <2>1, <2>2, <2>3, UnchangedItems, QuietMove
  <1> QED BY <1>1, <1>2

LEMMA HandlersKeep ==
  ASSUME MigrationInv, UNCHANGED <<progress, items, rows, stored, worker>>,
         job' \in JobStatuses, assessor' \in {"idle", "assessing"},
         pauses' \in 0..MaxPauses, faults' \in 0..MaxFaults
  PROVE  MigrationInv'
  <1>1. TypeOK'
    BY DEF MigrationInv, TypeOK
  <1>2. \A w \in Workers : WorkerOK(worker[w])'
    BY DEF MigrationInv, WorkerOK, InRepository, InTransfer, Holding, PageSize, From, Matches
  <1>3. RowsAreStored' /\ CompletedItemsAreStored' /\ CorruptionIsNotStored'
    BY DEF MigrationInv, RowsAreStored, CompletedItemsAreStored, CorruptionIsNotStored
  <1> QED BY <1>1, <1>2, <1>3 DEF MigrationInv

-----------------------------------------------------------------------------
(* The steps of a run.                                                     *)
LEMMA CountersKept ==
  ASSUME MigrationInv, UNCHANGED <<job, progress, assessor, pauses, faults>>
  PROVE  Counters
  BY DEF Counters, MigrationInv, TypeOK

LEMMA AtRest ==
  ASSUME NEW q \in Worker, q.pc \in {"idle"} \cup OutsideRepositories
  PROVE  WorkerOK(q)
  BY DEF WorkerOK, OutsideRepositories, InRepository, InTransfer, Holding

LEMMA RunKeeps ==
  ASSUME MigrationInv, NEW w \in Workers,
         BeginRun(w) \/ Provision(w) \/ Finish(w) \/ RunFails(w)
  PROVE  MigrationInv'
  <1>1. worker[w] \in Worker
    BY DEF MigrationInv, TypeOK
  <1>2. CASE BeginRun(w)
    <2> DEFINE q == [worker[w] EXCEPT !.pc = "provision", !.skipped = CountersOfRun]
    <2>1. q \in Worker /\ q.pc = "provision"
      BY <1>1 DEF Worker, OutsideRepositories, CountersOfRun
    <2>2. Goes(w, q) /\ Counters /\ UNCHANGED <<items, rows, stored>>
      BY <1>2 DEF BeginRun, Counters, MigrationInv, TypeOK, JobStatuses
    <2> HIDE DEF q
    <2>3. WorkerOK(q)
      BY <2>1, AtRest DEF OutsideRepositories
    <2> QED BY <2>1, <2>2, <2>3, UnchangedItems, QuietMove
  <1>3. CASE Provision(w)
    <2>1. PICK skips \in SUBSET Repositories :
            Goes(w, [worker[w] EXCEPT !.pc = "repositories", !.skips = skips,
                                      !.failed = Cardinality(skips)])
      BY <1>3 DEF Provision
    <2> DEFINE q == [worker[w] EXCEPT !.pc = "repositories", !.skips = skips,
                                      !.failed = Cardinality(skips)]
    <2>2. q \in Worker
      BY <1>1, RepositoriesFinite DEF Worker, OutsideRepositories
    <2>3. q.pc = "repositories"
      BY <1>1 DEF Worker
    <2>4. Goes(w, q) /\ Counters /\ UNCHANGED <<items, rows, stored>>
      BY <1>3, <2>1, CountersKept DEF Provision
    <2> HIDE DEF q
    <2>5. WorkerOK(q)
      BY <2>2, <2>3, AtRest DEF OutsideRepositories
    <2> QED BY <2>2, <2>4, <2>5, UnchangedItems, QuietMove
  <1>4. CASE Finish(w) \/ RunFails(w)
    <2>1. Goes(w, Idle) /\ UNCHANGED <<items, rows, stored>>
      BY <1>4 DEF Finish, RunFails
    <2>2. Counters
      BY <1>4, BoundsAssumption
         DEF Finish, RunFails, Record, FinalStatus, StatusAfterError, Counters, MigrationInv,
             TypeOK, JobStatuses
    <2> QED BY <2>1, <2>2, IdleWorker, UnchangedItems, QuietMove
  <1> QED BY <1>2, <1>3, <1>4

LEMMA NextRepositoryKeeps ==
  ASSUME MigrationInv, NEW w \in Workers, NextRepository(w)
  PROVE  MigrationInv'
  <1>1. worker[w] \in Worker
    BY DEF MigrationInv, TypeOK
  <1>2. Counters /\ Uncompleted /\ UNCHANGED <<rows, stored>>
    BY CountersKept, UnchangedItems DEF NextRepository
  <1>3. CASE Goes(w, [worker[w] EXCEPT !.pc = "finish"])
    <2> DEFINE q == [worker[w] EXCEPT !.pc = "finish"]
    <2>1. q \in Worker /\ q.pc = "finish"
      BY <1>1 DEF Worker, OutsideRepositories
    <2>2. Goes(w, q)
      BY <1>3
    <2> HIDE DEF q
    <2>3. WorkerOK(q)
      BY <2>1, AtRest DEF OutsideRepositories
    <2> QED BY <1>2, <2>1, <2>2, <2>3, QuietMove
  <1>4. CASE Goes(w, Idle)
    BY <1>2, <1>4, IdleWorker, QuietMove
  <1>5. ASSUME NEW r \in Repositories, Goes(w, [worker[w] EXCEPT !.pc = "list", !.repo = r])
        PROVE  MigrationInv'
    <2> DEFINE q == [worker[w] EXCEPT !.pc = "list", !.repo = r]
    <2>1. q \in Worker
      BY <1>1, RepositoriesFinite DEF Worker, InRepository
    <2>2. q.pc = "list" /\ q.repo = r
      BY <1>1 DEF Worker
    <2>3. Goes(w, q)
      BY <1>5
    <2> HIDE DEF q
    <2>4. WorkerOK(q)
      BY <2>2 DEF WorkerOK, InRepository, InTransfer, Holding
    <2> QED BY <1>2, <2>1, <2>3, <2>4, QuietMove
  <1> QED BY <1>3, <1>4, <1>5 DEF NextRepository, Remaining

LEMMA ListArtifactsKeeps ==
  ASSUME MigrationInv, NEW w \in Workers, ListArtifacts(w)
  PROVE  MigrationInv'
  <1>1. CASE Leave(w, TRUE) \/ Leave(w, FALSE)
    BY <1>1, LeavingKeeps DEF ListArtifacts
  <1>2. ASSUME ~(Leave(w, TRUE) \/ Leave(w, FALSE))
        PROVE  MigrationInv'
    <2> DEFINE q == [worker[w] EXCEPT !.pc = "artifacts", !.page = PageSize(worker[w]),
                                      !.at = 0, !.pages = @ + 1]
    <2>1. worker[w] \in Worker /\ worker[w].repo \in Repositories
      BY DEF MigrationInv, TypeOK, ListArtifacts, WorkerOK, InRepository
    <2>2. PageSize(worker[w]) \in Nat /\ worker[w].pages + 1 \in Nat
      BY <2>1, PageSizes DEF Worker
    <2>3. q \in Worker
      BY <2>1, <2>2 DEF Worker, InRepository
    <2>4. /\ q.pc = "artifacts" /\ q.repo = worker[w].repo
          /\ q.offset = worker[w].offset /\ q.page = PageSize(worker[w])
      BY <2>1 DEF Worker
    <2>5. Goes(w, q) /\ Counters /\ UNCHANGED <<items, rows, stored>>
      BY <1>2, CountersKept DEF ListArtifacts
    <2> HIDE DEF q
    <2>6. WorkerOK(q)
      BY <2>1, <2>4 DEF WorkerOK, InRepository, InTransfer, Holding, PageSize, From
    <2> QED BY <2>3, <2>5, <2>6, UnchangedItems, QuietMove
  <1> QED BY <1>1, <1>2

-----------------------------------------------------------------------------
(* The loop over the artifacts.                                            *)
LEMMA NextArtifactKeeps ==
  ASSUME MigrationInv, NEW w \in Workers, NextArtifact(w)
  PROVE  MigrationInv'
  <1>1. /\ worker[w] \in Worker /\ worker[w].repo \in Repositories
        /\ worker[w].page = PageSize(worker[w])
    BY DEF MigrationInv, TypeOK, NextArtifact, WorkerOK, InRepository, InTransfer
  <1>2. Counters /\ Uncompleted /\ UNCHANGED <<rows, stored>>
    BY CountersKept, UnchangedItems DEF NextArtifact
  <1>3. CASE Leave(w, TRUE) \/ Leave(w, FALSE)
    BY <1>3, LeavingKeeps DEF NextArtifact
  <1>4. ASSUME worker[w].at < worker[w].page,
               Goes(w, [worker[w] EXCEPT !.pc = "check", !.artifact =
                   Source[worker[w].repo][From(worker[w]) + worker[w].at + 1]])
        PROVE  MigrationInv'
    <2> DEFINE a == Source[worker[w].repo][From(worker[w]) + worker[w].at + 1]
               q == [worker[w] EXCEPT !.pc = "check", !.artifact = a]
    <2>1. a \in Artifacts
      BY <1>1, <1>4, PageSizes DEF Worker
    <2> HIDE DEF a
    <2>2. q \in Worker
      BY <1>1, <2>1 DEF Worker, InRepository, InTransfer
    <2>3. /\ q.pc = "check" /\ q.repo = worker[w].repo /\ q.offset = worker[w].offset
          /\ q.page = worker[w].page /\ q.artifact = a
      BY <1>1 DEF Worker
    <2>4. Goes(w, q)
      BY <1>4 DEF a
    <2> HIDE DEF q
    <2>5. WorkerOK(q)
      BY <1>1, <2>1, <2>3 DEF WorkerOK, InRepository, InTransfer, Holding, PageSize, From
    <2> QED BY <1>2, <2>2, <2>4, <2>5, QuietMove
  <1>5. ASSUME Goes(w, [worker[w] EXCEPT !.pc = "list", !.page = 0, !.at = 0,
                                         !.offset = @ + worker[w].page])
        PROVE  MigrationInv'
    <2> DEFINE q == [worker[w] EXCEPT !.pc = "list", !.page = 0, !.at = 0,
                                      !.offset = @ + worker[w].page]
    <2>1. worker[w].offset + worker[w].page \in Nat
      BY <1>1 DEF Worker
    <2>2. q \in Worker
      <3>1. \A k \in Nat : [worker[w] EXCEPT !.pc = "list", !.page = 0, !.at = 0, !.offset = k]
                              \in Worker
        BY <1>1 DEF Worker, InRepository
      <3> QED BY <2>1, <3>1
    <2>3. q.pc = "list" /\ q.repo = worker[w].repo
      BY <1>1 DEF Worker
    <2>4. Goes(w, q)
      BY <1>5
    <2> HIDE DEF q
    <2>5. WorkerOK(q)
      BY <1>1, <2>3 DEF WorkerOK, InRepository, InTransfer, Holding
    <2> QED BY <1>2, <2>2, <2>4, <2>5, QuietMove
  <1> QED BY <1>3, <1>4, <1>5 DEF NextArtifact

(* A worker that goes on with the same artifact, or is done with it.       *)
LEMMA SamePage ==
  ASSUME MigrationInv, NEW w \in Workers, worker[w].pc \in InTransfer, NEW q \in Worker,
         q.repo = worker[w].repo, q.offset = worker[w].offset, q.page = worker[w].page,
         \/ q.pc = "artifacts"
         \/ q.pc \in InTransfer \ Holding /\ q.artifact = worker[w].artifact
  PROVE  WorkerOK(q)
  BY DEF MigrationInv, WorkerOK, InRepository, InTransfer, Holding, PageSize, From

LEMMA Transferring ==
  ASSUME MigrationInv, NEW w \in Workers, worker[w].pc \in InTransfer
  PROVE  worker[w] \in Worker /\ worker[w].artifact \in Artifacts
  BY DEF MigrationInv, TypeOK, WorkerOK

LEMMA SkippedKeeps ==
  ASSUME MigrationInv, NEW w \in Workers, worker[w].pc \in InTransfer, Skipped(w),
         UNCHANGED <<job, progress, items, rows, stored, assessor, pauses, faults>>
  PROVE  MigrationInv'
  <1> DEFINE q == [worker[w] EXCEPT !.pc = "artifacts", !.at = @ + 1, !.artifact = None,
                                    !.skipped = @ + 1]
  <1>1. worker[w] \in Worker /\ worker[w].at + 1 \in Nat /\ worker[w].skipped + 1 \in Nat
    BY Transferring DEF Worker
  <1>2. q \in Worker
    BY <1>1 DEF Worker, InRepository
  <1>3. /\ q.pc = "artifacts" /\ q.repo = worker[w].repo /\ q.offset = worker[w].offset
        /\ q.page = worker[w].page
    BY <1>1 DEF Worker
  <1>4. Goes(w, q)
    BY DEF Skipped
  <1> HIDE DEF q
  <1>5. WorkerOK(q)
    BY <1>2, <1>3, SamePage
  <1> QED BY <1>2, <1>4, <1>5, CountersKept, UnchangedItems, QuietMove

LEMMA ItemEndsKeeps ==
  ASSUME MigrationInv, NEW w \in Workers, worker[w].pc \in InTransfer,
         FailItem(w) \/ SkipItem(w),
         UNCHANGED <<job, progress, rows, stored, assessor, pauses, faults>>
  PROVE  MigrationInv'
  <1>1. /\ worker[w] \in Worker /\ worker[w].artifact \in Artifacts
        /\ worker[w].failed + 1 \in Nat /\ worker[w].skipped + 1 \in Nat
    BY Transferring DEF Worker
  <1>2. Counters /\ Uncompleted
    BY <1>1, CountersKept DEF FailItem, SkipItem, Uncompleted, MigrationInv, TypeOK
  <1>3. CASE FailItem(w)
    <2> DEFINE q == [worker[w] EXCEPT !.pc = "report", !.failed = @ + 1, !.body = None]
    <2>1. q \in Worker
      BY <1>1 DEF Worker, InRepository, InTransfer
    <2>2. /\ q.pc = "report" /\ q.repo = worker[w].repo /\ q.offset = worker[w].offset
          /\ q.page = worker[w].page /\ q.artifact = worker[w].artifact
      BY <1>1 DEF Worker
    <2>3. Goes(w, q)
      BY <1>3 DEF FailItem
    <2> HIDE DEF q
    <2>4. WorkerOK(q)
      BY <2>1, <2>2, SamePage DEF InTransfer, Holding
    <2> QED BY <1>2, <2>1, <2>3, <2>4, QuietMove
  <1>4. CASE SkipItem(w)
    <2> DEFINE q == [worker[w] EXCEPT !.pc = "report", !.skipped = @ + 1, !.body = None]
    <2>1. q \in Worker
      BY <1>1 DEF Worker, InRepository, InTransfer
    <2>2. /\ q.pc = "report" /\ q.repo = worker[w].repo /\ q.offset = worker[w].offset
          /\ q.page = worker[w].page /\ q.artifact = worker[w].artifact
      BY <1>1 DEF Worker
    <2>3. Goes(w, q)
      BY <1>4 DEF SkipItem
    <2> HIDE DEF q
    <2>4. WorkerOK(q)
      BY <2>1, <2>2, SamePage DEF InTransfer, Holding
    <2> QED BY <1>2, <2>1, <2>3, <2>4, QuietMove
  <1> QED BY <1>3, <1>4

LEMMA CheckArtifactKeeps ==
  ASSUME MigrationInv, NEW w \in Workers, CheckArtifact(w)
  PROVE  MigrationInv'
  <1>1. worker[w].pc \in InTransfer
    BY DEF CheckArtifact, InTransfer
  <1>2. CASE Skipped(w) /\ UNCHANGED items
    BY <1>1, <1>2, SkippedKeeps DEF CheckArtifact
  <1>3. ASSUME Goes(w, [worker[w] EXCEPT !.pc = "transfer"]),
               items' = [items EXCEPT ![worker[w].artifact] = AddedStatus(worker[w].artifact)]
        PROVE  MigrationInv'
    <2> DEFINE q == [worker[w] EXCEPT !.pc = "transfer"]
    <2>1. worker[w] \in Worker /\ worker[w].artifact \in Artifacts
      BY <1>1, Transferring
    <2>2. Counters /\ Uncompleted
      BY <1>3, <2>1, CountersKept
         DEF CheckArtifact, Uncompleted, AddedStatus, MigrationInv, TypeOK
    <2>3. q \in Worker
      BY <2>1 DEF Worker, InRepository, InTransfer
    <2>4. /\ q.pc = "transfer" /\ q.repo = worker[w].repo /\ q.offset = worker[w].offset
          /\ q.page = worker[w].page /\ q.artifact = worker[w].artifact
      BY <2>1 DEF Worker
    <2>5. Goes(w, q)
      BY <1>3
    <2> HIDE DEF q
    <2>6. WorkerOK(q)
      BY <1>1, <2>3, <2>4, SamePage DEF InTransfer, Holding
    <2> QED BY <2>2, <2>3, <2>5, <2>6, QuietMove DEF CheckArtifact
  <1> QED BY <1>2, <1>3 DEF CheckArtifact

LEMMA TransferKeeps ==
  ASSUME MigrationInv, NEW w \in Workers, Transfer(w)
  PROVE  MigrationInv'
  <1>1. /\ worker[w].pc \in InTransfer
        /\ worker[w] \in Worker /\ worker[w].artifact \in Artifacts
    BY Transferring DEF Transfer, InTransfer
  <1>2. CASE FailItem(w) \/ SkipItem(w)
    BY <1>1, <1>2, ItemEndsKeeps DEF Transfer
  <1>3. ASSUME NEW body \in {Content[worker[w].artifact], Garbage},
               Matches(worker[w].artifact, body), UNCHANGED items,
               Goes(w, [worker[w] EXCEPT !.pc = "store", !.body = body])
        PROVE  MigrationInv'
    <2> DEFINE q == [worker[w] EXCEPT !.pc = "store", !.body = body]
    <2>1. body \in Bodies
      BY <1>1, SourceAssumption DEF Bodies
    <2>2. q \in Worker
      BY <1>1, <2>1 DEF Worker, InRepository, InTransfer
    <2>3. /\ q.pc = "store" /\ q.repo = worker[w].repo /\ q.offset = worker[w].offset
          /\ q.page = worker[w].page /\ q.artifact = worker[w].artifact /\ q.body = body
      BY <1>1 DEF Worker
    <2>4. Goes(w, q)
      BY <1>3
    <2> HIDE DEF q
    <2>5. WorkerOK(q)
      BY <1>1, <1>3, <2>1, <2>3
         DEF MigrationInv, WorkerOK, InRepository, InTransfer, Holding, PageSize, From
    <2> QED BY <1>3, <2>2, <2>4, <2>5, CountersKept, UnchangedItems, QuietMove DEF Transfer
  <1> QED BY <1>2, <1>3 DEF Transfer, VerifiedOnDisk

(* Content comes to storage, a row to the table: both only grow.           *)
LEMMA GrowingKeeps ==
  ASSUME MigrationInv, NEW w \in Workers, worker[w].pc \in {"store", "insert"},
         NEW p \in {"insert", "finalize"}, Goes(w, [worker[w] EXCEPT !.pc = p]),
         Grows, stored' \subseteq Bodies, rows' \in [Artifacts -> Bodies \cup {None}],
         RowsAreStored', CorruptionIsNotStored',
         worker[w].body \in stored', p = "finalize" => rows'[worker[w].artifact] # None,
         UNCHANGED <<job, progress, items, assessor, pauses, faults>>
  PROVE  MigrationInv'
  <1> DEFINE q == [worker[w] EXCEPT !.pc = p]
  <1>1. worker[w] \in Worker /\ p \in InTransfer
    BY DEF MigrationInv, TypeOK, InTransfer
  <1>2. q \in Worker
    BY <1>1 DEF Worker, InRepository
  <1>3. /\ q.pc = p /\ q.repo = worker[w].repo /\ q.offset = worker[w].offset
        /\ q.page = worker[w].page /\ q.artifact = worker[w].artifact
        /\ q.body = worker[w].body
    BY <1>1 DEF Worker
  <1>4. Goes(w, q)
    OBVIOUS
  <1> HIDE DEF q
  <1>5. PICK r \in Worker : /\ Goes(w, r) /\ r.pc = p /\ r.repo = worker[w].repo
                            /\ r.offset = worker[w].offset /\ r.page = worker[w].page
                            /\ r.artifact = worker[w].artifact /\ r.body = worker[w].body
    BY <1>2, <1>3, <1>4
  <1>6. WorkerOK(r)'
    BY <1>5 DEF MigrationInv, WorkerOK, InRepository, InTransfer, Holding, PageSize, From, Matches
  <1>7. /\ worker' \in [Workers -> Worker] /\ \A v \in Workers : WorkerOK(worker[v])'
        /\ TypeOK'
    BY <1>5, <1>6, OthersStayOK DEF MigrationInv, TypeOK
  <1>8. CompletedItemsAreStored'
    BY DEF MigrationInv, TypeOK, CompletedItemsAreStored, Grows
  <1> QED BY <1>7, <1>8 DEF MigrationInv

LEMMA StoreContentKeeps ==
  ASSUME MigrationInv, NEW w \in Workers, StoreContent(w)
  PROVE  MigrationInv'
  <1>1. worker[w].pc = "store" /\ worker[w].pc \in InTransfer
    BY DEF StoreContent, InTransfer
  <1>2. CASE FailItem(w) /\ UNCHANGED stored
    BY <1>1, <1>2, ItemEndsKeeps DEF StoreContent
  <1>3. ASSUME stored' = stored \cup {worker[w].body}, UNCHANGED items,
               Goes(w, [worker[w] EXCEPT !.pc = "insert"])
        PROVE  MigrationInv'
    <2>1. worker[w].body \in Bodies
      BY <1>1 DEF MigrationInv, WorkerOK, Holding
    <2>2. /\ Grows /\ stored' \subseteq Bodies /\ worker[w].body \in stored'
          /\ rows' \in [Artifacts -> Bodies \cup {None}]
          /\ RowsAreStored' /\ CorruptionIsNotStored'
      BY <1>3, <2>1 DEF StoreContent, Grows, MigrationInv, TypeOK, RowsAreStored,
                        CorruptionIsNotStored
    <2> QED BY <1>1, <1>3, <2>2, GrowingKeeps DEF StoreContent
  <1> QED BY <1>2, <1>3 DEF StoreContent

LEMMA InsertRowKeeps ==
  ASSUME MigrationInv, NEW w \in Workers, InsertRow(w)
  PROVE  MigrationInv'
  <1>1. /\ worker[w].pc = "insert" /\ worker[w].pc \in InTransfer
        /\ worker[w].artifact \in Artifacts
    BY Transferring DEF InsertRow, InTransfer
  <1>2. CASE FailItem(w) /\ UNCHANGED rows
    BY <1>1, <1>2, ItemEndsKeeps DEF InsertRow
  <1>3. ASSUME Goes(w, [worker[w] EXCEPT !.pc = "finalize"]), UNCHANGED items,
               rows' = IF rows[worker[w].artifact] = None
                       THEN [rows EXCEPT ![worker[w].artifact] = worker[w].body] ELSE rows
        PROVE  MigrationInv'
    <2>1. /\ worker[w].body \in Bodies /\ worker[w].body \in stored
          /\ Matches(worker[w].artifact, worker[w].body)
      BY <1>1 DEF MigrationInv, WorkerOK, Holding
    <2>2. stored' = stored /\ rows \in [Artifacts -> Bodies \cup {None}] /\ stored \subseteq Bodies
      BY DEF InsertRow, MigrationInv, TypeOK
    <2>3. /\ rows' \in [Artifacts -> Bodies \cup {None}] /\ Grows
          /\ rows'[worker[w].artifact] # None
      BY <1>1, <1>3, <2>1, <2>2, DestinationAssumption DEF Grows
    <2>4. RowsAreStored'
      BY <1>1, <1>3, <2>1, <2>2 DEF MigrationInv, RowsAreStored
    <2>5. CorruptionIsNotStored'
      <3>1. ASSUME NEW a \in Artifacts, rows'[a] = Garbage
            PROVE  Advertised[a] = "none" \/ Existing[a] = Garbage \/ Content[a] = Garbage
        BY <1>1, <1>3, <2>1, <2>2, <3>1 DEF MigrationInv, CorruptionIsNotStored, Matches
      <3> QED BY <3>1, SourceAssumption, DestinationAssumption DEF CorruptionIsNotStored
    <2> QED BY <1>1, <1>3, <2>1, <2>2, <2>3, <2>4, <2>5, GrowingKeeps DEF InsertRow
  <1> QED BY <1>2, <1>3 DEF InsertRow, AfterFailedInsert, InsertConflicts

LEMMA FinalizeTransferKeeps ==
  ASSUME MigrationInv, NEW w \in Workers, FinalizeTransfer(w)
  PROVE  MigrationInv'
  <1>1. /\ worker[w].pc = "finalize" /\ worker[w].pc \in InTransfer
        /\ worker[w] \in Worker /\ worker[w].artifact \in Artifacts
    BY Transferring DEF FinalizeTransfer, InTransfer
  <1>2. CASE FailItem(w)
    BY <1>1, <1>2, ItemEndsKeeps DEF FinalizeTransfer
  <1>3. ASSUME items' = [items EXCEPT ![worker[w].artifact] = "completed"],
               Goes(w, [worker[w] EXCEPT !.pc = "report", !.body = None, !.completed = @ + 1])
        PROVE  MigrationInv'
    <2> DEFINE q == [worker[w] EXCEPT !.pc = "report", !.body = None, !.completed = @ + 1]
    <2>1. worker[w].completed + 1 \in Nat
      BY <1>1 DEF Worker
    <2>2. q \in Worker
      BY <1>1, <2>1 DEF Worker, InRepository, InTransfer
    <2>3. /\ q.pc = "report" /\ q.repo = worker[w].repo /\ q.offset = worker[w].offset
          /\ q.page = worker[w].page /\ q.artifact = worker[w].artifact
      BY <1>1 DEF Worker
    <2>4. Goes(w, q)
      BY <1>3
    <2> HIDE DEF q
    <2>5. PICK r \in Worker : Goes(w, r) /\ WorkerOK(r) /\ r.pc = "report"
      BY <1>1, <2>2, <2>3, <2>4, SamePage DEF InTransfer, Holding
    <2>6. Grows /\ WorkerOK(r)'
      BY <2>5 DEF FinalizeTransfer, Grows, WorkerOK, InRepository, InTransfer, Holding,
                  PageSize, From
    <2>7. /\ worker' \in [Workers -> Worker] /\ \A v \in Workers : WorkerOK(worker[v])'
      BY <2>5, <2>6, OthersStayOK
    <2>8. rows[worker[w].artifact] # None /\ rows[worker[w].artifact] \in stored
      BY <1>1 DEF MigrationInv, WorkerOK, RowsAreStored
    <2>9. CompletedItemsAreStored'
      BY <1>1, <1>3, <2>8 DEF FinalizeTransfer, MigrationInv, TypeOK, CompletedItemsAreStored
    <2>10. TypeOK' /\ RowsAreStored' /\ CorruptionIsNotStored'
      BY <1>1, <1>3, <2>7 DEF FinalizeTransfer, MigrationInv, TypeOK, RowsAreStored,
                              CorruptionIsNotStored
    <2> QED BY <2>7, <2>9, <2>10 DEF MigrationInv
  <1> QED BY <1>2, <1>3 DEF FinalizeTransfer

LEMMA UpdateProgressKeeps ==
  ASSUME MigrationInv, NEW w \in Workers, UpdateProgress(w)
  PROVE  MigrationInv'
  <1> DEFINE q == [worker[w] EXCEPT !.pc = "artifacts", !.at = @ + 1, !.artifact = None]
  <1>1. /\ worker[w].pc \in InTransfer /\ worker[w] \in Worker
        /\ worker[w].at + 1 \in Nat /\ Handled(w) \in Nat
    BY Transferring DEF UpdateProgress, InTransfer, Worker, Handled
  <1>2. q \in Worker
    BY <1>1 DEF Worker, InRepository
  <1>3. /\ q.pc = "artifacts" /\ q.repo = worker[w].repo /\ q.offset = worker[w].offset
        /\ q.page = worker[w].page
    BY <1>1 DEF Worker
  <1>4. Goes(w, q)
    BY DEF UpdateProgress
  <1> HIDE DEF q
  <1>5. WorkerOK(q)
    BY <1>1, <1>2, <1>3, SamePage
  <1>6. Counters
    BY <1>1 DEF UpdateProgress, Counters, MigrationInv, TypeOK
  <1> QED BY <1>2, <1>4, <1>5, <1>6, UnchangedItems, QuietMove DEF UpdateProgress

LEMMA CrashKeeps ==
  ASSUME MigrationInv, Crash
  PROVE  MigrationInv'
  <1>1. TypeOK'
    BY IdleWorker, BoundsAssumption DEF Crash, MigrationInv, TypeOK
  <1>2. ASSUME NEW w \in Workers
        PROVE  WorkerOK(worker[w])'
    <2>1. worker'[w] = Idle
      BY DEF Crash
    <2> QED BY <2>1 DEF WorkerOK, Idle, InRepository, InTransfer, Holding
  <1>3. RowsAreStored' /\ CompletedItemsAreStored' /\ CorruptionIsNotStored'
    BY DEF Crash, MigrationInv, RowsAreStored, CompletedItemsAreStored, CorruptionIsNotStored
  <1> QED BY <1>1, <1>2, <1>3 DEF MigrationInv

-----------------------------------------------------------------------------
LEMMA InitMigration == Init => MigrationInv
  <1> SUFFICES ASSUME Init PROVE MigrationInv
    OBVIOUS
  <1>1. TypeOK
    BY IdleWorker, BoundsAssumption, DestinationAssumption DEF Init, TypeOK, JobStatuses
  <1>2. \A w \in Workers : WorkerOK(worker[w])
    BY IdleWorker DEF Init
  <1>3. RowsAreStored /\ CompletedItemsAreStored /\ CorruptionIsNotStored
    BY DestinationAssumption DEF Init, RowsAreStored, CompletedItemsAreStored, CorruptionIsNotStored
  <1> QED BY <1>1, <1>2, <1>3 DEF MigrationInv

LEMMA StepKeepsMigration == MigrationInv /\ [Next]_vars => MigrationInv'
  <1> SUFFICES ASSUME MigrationInv, [Next]_vars PROVE MigrationInv'
    OBVIOUS
  <1>1. ASSUME NEW w \in Workers, StartMigration(w) \/ ResumeMigration(w)
        PROVE  MigrationInv'
    BY <1>1, SpawningKeeps DEF StartMigration, ResumeMigration
  <1>2. ASSUME NEW w \in Workers, WorkerStep(w)
        PROVE  MigrationInv'
    <2>1. CASE BeginRun(w) \/ Provision(w) \/ Finish(w) \/ RunFails(w)
      BY <2>1, RunKeeps
    <2>2. CASE NextRepository(w)
      BY <2>2, NextRepositoryKeeps
    <2>3. CASE ListArtifacts(w)
      BY <2>3, ListArtifactsKeeps
    <2>4. CASE NextArtifact(w)
      BY <2>4, NextArtifactKeeps
    <2>5. CASE RepositoryFails(w)
      BY <2>5, LeavingKeeps DEF RepositoryFails
    <2>6. CASE CheckArtifact(w)
      BY <2>6, CheckArtifactKeeps
    <2>7. CASE Transfer(w)
      BY <2>7, TransferKeeps
    <2>8. CASE StoreContent(w)
      BY <2>8, StoreContentKeeps
    <2>9. CASE InsertRow(w)
      BY <2>9, InsertRowKeeps
    <2>10. CASE FinalizeTransfer(w)
      BY <2>10, FinalizeTransferKeeps
    <2>11. CASE UpdateProgress(w)
      BY <2>11, UpdateProgressKeeps
    <2> QED BY <1>2, <2>1, <2>2, <2>3, <2>4, <2>5, <2>6, <2>7, <2>8, <2>9, <2>10, <2>11
            DEF WorkerStep
  <1>3. CASE PauseMigration
    BY <1>3, BoundsAssumption, HandlersKeep DEF PauseMigration, MigrationInv, TypeOK, JobStatuses
  <1>4. CASE CancelMigration
    BY <1>4, HandlersKeep DEF CancelMigration, MigrationInv, TypeOK, JobStatuses
  <1>5. CASE RunAssessment
    BY <1>5, BoundsAssumption, HandlersKeep DEF RunAssessment, MigrationInv, TypeOK, JobStatuses
  <1>6. CASE FinishAssessment
    BY <1>6, BoundsAssumption, HandlersKeep
       DEF FinishAssessment, Record, MigrationInv, TypeOK, JobStatuses
  <1>7. CASE Crash
    BY <1>7, CrashKeeps
  <1>8. CASE UNCHANGED vars
    BY <1>8, HandlersKeep DEF vars, MigrationInv, TypeOK
  <1> QED BY <1>1, <1>2, <1>3, <1>4, <1>5, <1>6, <1>7, <1>8 DEF Next

(* Whatever the source, the destination and the number of workers, the     *)
(* status of the job and the place and page of every worker are those the  *)
(* code can be in (process_job, process_repository_artifacts).             *)
THEOREM TypeCorrect == Spec => []TypeOK
  <1>1. MigrationInv => TypeOK
    BY DEF MigrationInv
  <1> QED BY <1>1, InitMigration, StepKeepsMigration, PTL DEF Spec

(* An item is completed only with a live row whose content is in storage:  *)
(* complete_item comes after the insert, and neither rows nor content are  *)
(* taken back by any worker on the job (transfer_artifact).                *)
THEOREM CompletedStored == Spec => []CompletedItemsAreStored
  <1>1. MigrationInv => CompletedItemsAreStored
    BY DEF MigrationInv
  <1> QED BY <1>1, InitMigration, StepKeepsMigration, PTL DEF Spec

(* A body that does not match the advertised digest is inserted by no      *)
(* worker, since every one verifies before it stores (transfer_artifact).  *)
THEOREM CorruptionKeptOut == Spec => []CorruptionIsNotStored
  <1>1. MigrationInv => CorruptionIsNotStored
    BY DEF MigrationInv
  <1> QED BY <1>1, InitMigration, StepKeepsMigration, PTL DEF Spec

-----------------------------------------------------------------------------
(* Counting the listings.                                                  *)
LEMMA SizesTyped == Listed \in [Repositories -> Nat] /\ ListedAtMost \in [Repositories -> Nat]
  <1>1. \A r \in Repositories : Len(Source[r]) \in Nat
    BY SourceAssumption DEF Repositories
  <1>2. MaxPages * Limit \in Nat
    BY BoundsAssumption
  <1> QED BY <1>1, <1>2 DEF Listed, ListedAtMost

LEMMA SlotsOfOne ==
  ASSUME NEW size \in [Repositories -> Nat], NEW r \in Repositories
  PROVE  IsFiniteSet({r} \X (1..size[r])) /\ Cardinality({r} \X (1..size[r])) = size[r]
  <1>1. size[r] \in Nat
    OBVIOUS
  <1>2. IsFiniteSet(1..size[r]) /\ Cardinality(1..size[r]) = size[r]
    BY <1>1, FS_Interval
  <1>3. IsFiniteSet({r}) /\ Cardinality({r}) = 1
    BY FS_Singleton
  <1>4. /\ IsFiniteSet({r} \X (1..size[r]))
        /\ Cardinality({r} \X (1..size[r])) = 1 * size[r]
    BY <1>2, <1>3, FS_Product
  <1> QED BY <1>1, <1>4

LEMMA SlotsFinite ==
  ASSUME NEW size \in [Repositories -> Nat], NEW S \in SUBSET Repositories
  PROVE  IsFiniteSet(Slots(S, size)) /\ Cardinality(Slots(S, size)) \in Nat
  <1> DEFINE listing == [r \in S |-> {r} \X (1..size[r])]
             T == {{r} \X (1..size[r]) : r \in S}
  <1>1. IsFiniteSet(S)
    BY RepositoriesFinite, FS_Subset
  <1>2. listing \in Surjection(S, T)
    BY DEF Surjection
  <1>3. IsFiniteSet(T)
    <2> HIDE DEF listing, T
    <2> QED BY <1>1, <1>2, FS_Surjection
  <1>4. \A U \in T : IsFiniteSet(U)
    BY SlotsOfOne
  <1>5. IsFiniteSet(UNION T)
    <2> HIDE DEF T
    <2> QED BY <1>3, <1>4, FS_UNION
  <1> QED BY <1>5, FS_CardinalityType DEF Slots

LEMMA SlotsAdded ==
  ASSUME NEW size \in [Repositories -> Nat], NEW S \in SUBSET Repositories,
         NEW r \in Repositories \ S
  PROVE  Cardinality(Slots(S \cup {r}, size)) = Cardinality(Slots(S, size)) + size[r]
  <1> DEFINE A == Slots(S, size)
             B == {r} \X (1..size[r])
  <1>1. Slots(S \cup {r}, size) = A \cup B /\ A \cap B = {}
    BY DEF Slots
  <1>2. IsFiniteSet(A) /\ IsFiniteSet(B) /\ Cardinality(A) \in Nat /\ Cardinality(B) = size[r]
    BY SlotsFinite, SlotsOfOne
  <1>3. Cardinality(A \cup B) = Cardinality(A) + Cardinality(B) - Cardinality(A \cap B)
    <2> HIDE DEF A, B
    <2> QED BY <1>2, FS_Union
  <1>4. Cardinality(A \cap B) = 0
    BY <1>1, FS_EmptySet
  <1>5. size[r] \in Nat
    OBVIOUS
  <1> HIDE DEF A, B
  <1>6. Cardinality(A \cup B) = Cardinality(A) + size[r]
    BY <1>2, <1>3, <1>4, <1>5
  <1> QED BY <1>1, <1>6 DEF A

LEMMA SlotsGrow ==
  ASSUME NEW size \in [Repositories -> Nat], NEW T \in SUBSET Repositories, NEW S \in SUBSET T
  PROVE  Cardinality(Slots(S, size)) <= Cardinality(Slots(T, size))
  <1>1. Slots(S, size) \subseteq Slots(T, size)
    BY DEF Slots
  <1> QED BY <1>1, SlotsFinite, FS_Subset

LEMMA NoSlots == ASSUME NEW size PROVE Cardinality(Slots({}, size)) = 0
  <1>1. Slots({}, size) = {}
    BY DEF Slots
  <1> QED BY <1>1, FS_EmptySet

-----------------------------------------------------------------------------
(* What a worker has counted, by where it is: one failure for every        *)
(* repository it leaves out, the listings of the repositories before its   *)
(* own, and the artifacts it passed in its own.                            *)
Kept(q) == Repositories \ q.skips
Before(q) == {r \in Kept(q) : r < q.repo}
Passed(q) == q.offset + q.at + (IF q.pc = "report" THEN 1 ELSE 0)
Counted(q) == q.completed + q.failed + q.skipped

(* The pages of a source that minds the offset never overlap nor run past  *)
(* its listing; those of one that does not are as many as the worker read. *)
PagesOK(q) ==
    /\ q.pages <= MaxPages
    /\ q.pc = "list" => q.page = 0 /\ q.at = 0
    /\ q.pc = "artifacts" => q.at <= q.page
    /\ q.pc \in InTransfer => q.at < q.page
    /\ q.repo \notin Ignores => q.offset + q.page <= Len(Source[q.repo])
    /\ q.repo \in Ignores /\ Len(Source[q.repo]) < Limit => q.offset = 0
    /\ q.repo \in Ignores /\ Len(Source[q.repo]) >= Limit
          => q.offset + q.page = q.pages * Limit

Whole(q) ==
    Counted(q) = Cardinality(q.skips) + Cardinality(Slots(Before(q), Listed)) + Passed(q)
InBounds(q) ==
    Counted(q) <= Cardinality(q.skips) + Cardinality(Slots(Before(q), ListedAtMost)) + Passed(q)

CountOK(q) ==
    /\ q.pc \in {"begin", "provision"} =>
          q.repo = 1 /\ q.completed = 0 /\ q.failed = 0 /\ q.skipped = 0
    /\ q.pc \in OutsideRepositories =>
          q.offset = 0 /\ q.page = 0 /\ q.at = 0 /\ q.pages = 0
    /\ q.pc = "finish" => Before(q) = Kept(q)
    /\ q.pc \in InRepository => q.repo \in Kept(q) /\ PagesOK(q)
    /\ q.pc \in {"repositories", "finish"} \cup InRepository =>
          (q.cut \/ Whole(q)) /\ InBounds(q)

CountInv == (\A w \in Workers : CountOK(worker[w])) /\ ProgressStaysInExtent

(* The inductive invariant of the counters.                                *)
CountedInv == MigrationInv /\ CountInv

LEMMA CountsTyped ==
  ASSUME NEW q \in Worker
  PROVE  /\ Passed(q) \in Nat /\ Counted(q) \in Nat /\ Cardinality(q.skips) \in Nat
         /\ Before(q) \in SUBSET Repositories
         /\ Cardinality(Slots(Before(q), Listed)) \in Nat
         /\ Cardinality(Slots(Before(q), ListedAtMost)) \in Nat
  <1>1. Before(q) \in SUBSET Repositories
    BY DEF Before, Kept
  <1> QED BY <1>1, SizesTyped, SlotsFinite, RepositoriesFinite DEF Passed, Counted, Worker

LEMMA PassedBounded ==
  ASSUME NEW q \in Worker, q.pc \in InRepository, q.repo \in Repositories, WorkerOK(q), PagesOK(q)
  PROVE  Passed(q) <= ListedAtMost[q.repo]
  <1>1. /\ q.offset \in Nat /\ q.page \in Nat /\ q.at \in Nat /\ q.pages \in Nat
        /\ Len(Source[q.repo]) \in Nat /\ Passed(q) \in Nat
    BY SourceAssumption, CountsTyped DEF Worker, Repositories
  <1>2. Passed(q) <= q.offset + q.page
    BY <1>1 DEF Passed, PagesOK, InRepository, InTransfer
  <1>3. CASE q.repo \notin Ignores
    BY <1>1, <1>2, <1>3 DEF PagesOK, ListedAtMost
  <1>4. CASE q.repo \in Ignores /\ Len(Source[q.repo]) < Limit
    <2>1. q.pc # "list" => q.page = PageSize(q)
      BY DEF WorkerOK, InRepository
    <2>2. PageSize(q) <= Len(Source[q.repo])
      BY <1>1, <1>4, BoundsAssumption DEF PageSize, From
    <2> QED BY <1>1, <1>2, <1>4, <2>1, <2>2, BoundsAssumption DEF PagesOK, ListedAtMost
  <1>5. CASE q.repo \in Ignores /\ Len(Source[q.repo]) >= Limit
    <2>1. q.pages * Limit <= MaxPages * Limit
      BY <1>1, BoundsAssumption DEF PagesOK
    <2>2. q.pages * Limit \in Nat /\ MaxPages * Limit \in Nat
      BY <1>1, BoundsAssumption
    <2>3. q.offset + q.page = q.pages * Limit /\ ListedAtMost[q.repo] = MaxPages * Limit
      BY <1>5 DEF PagesOK, ListedAtMost
    <2>4. \A x, y, z \in Nat : x <= y /\ y <= z => x <= z
      OBVIOUS
    <2>5. q.offset + q.page \in Nat
      BY <1>1
    <2> QED BY <1>1, <1>2, <2>1, <2>2, <2>3, <2>4, <2>5
  <1>6. Len(Source[q.repo]) \in Int /\ Limit \in Int
    BY <1>1, BoundsAssumption
  <1> QED BY <1>3, <1>4, <1>5, <1>6

(* A move inside a repository counts what it passes.                       *)
LEMMA InsideCounts ==
  ASSUME NEW q \in Worker, NEW n \in Worker, CountOK(q),
         q.pc \in InRepository, n.pc \in InRepository,
         n.repo = q.repo, n.skips = q.skips, n.cut = q.cut, PagesOK(n),
         Counted(n) + Passed(q) = Counted(q) + Passed(n)
  PROVE  CountOK(n)
  <1>1. Before(n) = Before(q) /\ Kept(n) = Kept(q)
    BY DEF Before, Kept
  <1>2. n.pc \notin OutsideRepositories
    BY DEF InRepository, InTransfer, OutsideRepositories
  <1>3. (q.cut \/ Whole(q)) /\ InBounds(q) /\ q.repo \in Kept(q)
    BY DEF CountOK
  <1>4. (n.cut \/ Whole(n)) /\ InBounds(n)
    BY <1>1, <1>3, CountsTyped DEF Whole, InBounds
  <1> QED BY <1>1, <1>2, <1>3, <1>4 DEF CountOK, OutsideRepositories

LEMMA LeavingCounts ==
  ASSUME CountedInv, NEW w \in Workers, NEW cut \in BOOLEAN, Leave(w, cut),
         worker[w].pc \in InRepository,
         cut \/ Passed(worker[w]) = Len(Source[worker[w].repo])
  PROVE  CountOK(worker'[w])
  <1>1. PICK q \in Worker : q = worker[w]
    BY WorkerTyped DEF CountedInv, MigrationInv
  <1>2. CountOK(q) /\ WorkerOK(q) /\ q.repo \in Kept(q) /\ PagesOK(q)
    BY <1>1 DEF CountedInv, CountInv, MigrationInv, CountOK
  <1>3. PICK n : n = [q EXCEPT !.pc = "repositories", !.repo = @ + 1, !.offset = 0,
                               !.page = 0, !.at = 0, !.pages = 0, !.artifact = None,
                               !.body = None, !.cut = @ \/ cut]
    OBVIOUS
  <1>4. /\ n.pc = "repositories" /\ n.repo = q.repo + 1 /\ n.offset = 0 /\ n.page = 0
        /\ n.at = 0 /\ n.pages = 0 /\ n.cut = (q.cut \/ cut) /\ n.skips = q.skips
        /\ n.completed = q.completed /\ n.failed = q.failed /\ n.skipped = q.skipped
    BY <1>1, <1>3 DEF Worker
  <1>5. worker'[w] = n
    BY <1>1, <1>3 DEF Leave, Goes, CountedInv, MigrationInv, TypeOK
  <1>6. Before(n) = Before(q) \cup {q.repo} /\ q.repo \in Repositories \ Before(q)
    <2>1. Repositories \subseteq Nat /\ q.repo \in Nat
      BY RepositoriesFinite DEF Worker
    <2>2. Kept(n) = Kept(q) /\ Kept(q) \subseteq Nat
      BY <1>4, <2>1 DEF Kept
    <2>3. \A r \in Nat : r < q.repo + 1 <=> r < q.repo \/ r = q.repo
      BY <2>1
    <2>4. Before(n) = {r \in Kept(q) : r < q.repo \/ r = q.repo}
      BY <1>4, <2>2, <2>3 DEF Before
    <2>5. q.repo \notin Before(q) /\ q.repo \in Repositories
      BY <1>2, <2>1 DEF Before, Kept
    <2> QED BY <1>2, <2>4, <2>5 DEF Before
  <1>7. Passed(n) = 0 /\ Counted(n) = Counted(q)
    BY <1>4 DEF Passed, Counted
  <1>8. Passed(q) <= ListedAtMost[q.repo]
    BY <1>1, <1>2, PassedBounded DEF Kept
  <1>9. /\ Cardinality(Slots(Before(n), Listed))
              = Cardinality(Slots(Before(q), Listed)) + Len(Source[q.repo])
        /\ Cardinality(Slots(Before(n), ListedAtMost))
              = Cardinality(Slots(Before(q), ListedAtMost)) + ListedAtMost[q.repo]
    <2>1. Listed[q.repo] = Len(Source[q.repo])
      BY <1>6 DEF Listed
    <2> QED BY <1>6, <2>1, SlotsAdded, SizesTyped, CountsTyped
  <1>10. (q.cut \/ Whole(q)) /\ InBounds(q)
    BY <1>1, <1>2 DEF CountOK
  <1>11. ListedAtMost[q.repo] \in Nat /\ Len(Source[q.repo]) \in Nat
    BY <1>6, SizesTyped DEF Listed
  <1>12. /\ Passed(q) \in Nat /\ Counted(q) \in Nat /\ Cardinality(q.skips) \in Nat
         /\ Cardinality(Slots(Before(q), Listed)) \in Nat
         /\ Cardinality(Slots(Before(q), ListedAtMost)) \in Nat
    BY CountsTyped
  <1>13. ASSUME ~n.cut PROVE Whole(n)
    <2>1. Whole(q) /\ Passed(q) = Len(Source[q.repo])
      BY <1>1, <1>4, <1>10, <1>13
    <2> QED BY <1>4, <1>7, <1>9, <1>11, <1>12, <2>1 DEF Whole
  <1>14. InBounds(n)
    BY <1>4, <1>7, <1>8, <1>9, <1>10, <1>11, <1>12 DEF InBounds
  <1> QED BY <1>4, <1>5, <1>13, <1>14 DEF CountOK, InRepository, InTransfer

-----------------------------------------------------------------------------
(* The steps of a run, for the worker that takes them.                     *)
LEMMA WorkerCounts ==
  ASSUME CountedInv, NEW w \in Workers
  PROVE  worker[w] \in Worker /\ CountOK(worker[w]) /\ WorkerOK(worker[w])
  BY DEF CountedInv, MigrationInv, CountInv, TypeOK

LEMMA IdleCounts == CountOK(Idle)
  BY DEF Idle, CountOK, InRepository, InTransfer, OutsideRepositories

LEMMA GoesThere ==
  ASSUME CountedInv, NEW w \in Workers, NEW q, Goes(w, q)
  PROVE  worker'[w] = q
  BY DEF Goes, CountedInv, MigrationInv, TypeOK

LEMMA RunCounts ==
  ASSUME CountedInv, NEW w \in Workers,
         BeginRun(w) \/ Provision(w) \/ Finish(w) \/ RunFails(w)
  PROVE  CountOK(worker'[w])
  <1>1. PICK q \in Worker : q = worker[w] /\ CountOK(q)
    BY WorkerCounts
  <1>2. CASE BeginRun(w)
    <2>1. PICK n : n = [q EXCEPT !.pc = "provision", !.skipped = CountersOfRun]
      OBVIOUS
    <2>2. /\ n.pc = "provision" /\ n.skipped = 0 /\ n.repo = q.repo
          /\ n.completed = q.completed /\ n.failed = q.failed
          /\ n.offset = q.offset /\ n.page = q.page /\ n.at = q.at /\ n.pages = q.pages
      BY <2>1 DEF Worker, CountersOfRun
    <2>3. worker'[w] = n /\ q.pc = "begin"
      BY <1>1, <1>2, <2>1, GoesThere DEF BeginRun
    <2> QED BY <1>1, <2>2, <2>3 DEF CountOK, OutsideRepositories, InRepository, InTransfer
  <1>3. CASE Provision(w)
    <2>1. PICK skips \in SUBSET Repositories :
            Goes(w, [worker[w] EXCEPT !.pc = "repositories", !.skips = skips,
                                      !.failed = Cardinality(skips)])
      BY <1>3 DEF Provision
    <2>2. PICK n : n = [q EXCEPT !.pc = "repositories", !.skips = skips,
                                 !.failed = Cardinality(skips)]
      OBVIOUS
    <2>3. /\ n.pc = "repositories" /\ n.skips = skips /\ n.failed = Cardinality(skips)
          /\ n.repo = q.repo /\ n.completed = q.completed /\ n.skipped = q.skipped
          /\ n.offset = q.offset /\ n.page = q.page /\ n.at = q.at /\ n.pages = q.pages
      BY <2>2 DEF Worker
    <2>4. worker'[w] = n /\ q.pc = "provision"
      BY <1>1, <1>3, <2>1, <2>2, GoesThere DEF Provision
    <2>5. /\ q.repo = 1 /\ q.completed = 0 /\ q.skipped = 0
          /\ q.offset = 0 /\ q.page = 0 /\ q.at = 0 /\ q.pages = 0
      BY <1>1, <2>4 DEF CountOK, OutsideRepositories
    <2>6. Before(n) = {}
      <3>1. Repositories = 1..Len(Source) /\ Len(Source) \in Nat
        BY SourceAssumption DEF Repositories
      <3> QED BY <2>3, <2>5, <3>1 DEF Before, Kept
    <2>7. Counted(n) = Cardinality(skips) /\ Passed(n) = 0 /\ Cardinality(skips) \in Nat
      BY <2>3, <2>5, RepositoriesFinite DEF Counted, Passed
    <2>8. Whole(n) /\ InBounds(n)
      BY <2>3, <2>6, <2>7, NoSlots DEF Whole, InBounds
    <2> QED BY <2>3, <2>4, <2>5, <2>8 DEF CountOK, InRepository, InTransfer
  <1>4. CASE Finish(w) \/ RunFails(w)
    BY <1>4, IdleCounts, GoesThere DEF Finish, RunFails
  <1> QED BY <1>2, <1>3, <1>4

(* The next repository is the first of those that are left.                *)
LEMMA NextRepositoryCounts ==
  ASSUME CountedInv, NEW w \in Workers, NextRepository(w)
  PROVE  CountOK(worker'[w])
  <1>1. PICK q \in Worker : q = worker[w] /\ CountOK(q)
    BY WorkerCounts
  <1>2. /\ q.pc = "repositories" /\ (q.cut \/ Whole(q)) /\ InBounds(q)
        /\ q.offset = 0 /\ q.page = 0 /\ q.at = 0 /\ q.pages = 0
    BY <1>1 DEF NextRepository, CountOK, OutsideRepositories
  <1>3. Repositories \subseteq Nat /\ q.repo \in Nat
    BY RepositoriesFinite DEF Worker
  <1>4. Remaining(w) = Kept(q) \ Before(q)
    <2>1. Remaining(w) = {r \in Repositories : r >= q.repo /\ r \notin q.skips}
      BY <1>1 DEF Remaining
    <2>2. \A r \in Repositories : r >= q.repo <=> ~(r < q.repo)
      BY <1>3
    <2> QED BY <2>1, <2>2 DEF Kept, Before
  <1>5. CASE Goes(w, Idle)
    BY <1>5, IdleCounts, GoesThere
  <1>6. ASSUME Remaining(w) = {}, Goes(w, [worker[w] EXCEPT !.pc = "finish"])
        PROVE  CountOK(worker'[w])
    <2>1. PICK n : n = [q EXCEPT !.pc = "finish"]
      OBVIOUS
    <2>2. /\ n.pc = "finish" /\ n.repo = q.repo /\ n.skips = q.skips /\ n.cut = q.cut
          /\ n.offset = 0 /\ n.page = 0 /\ n.at = 0 /\ n.pages = 0
          /\ n.completed = q.completed /\ n.failed = q.failed /\ n.skipped = q.skipped
      BY <1>2, <2>1 DEF Worker
    <2>3. worker'[w] = n
      BY <1>1, <1>6, <2>1, GoesThere
    <2>4. Before(n) = Before(q) /\ Kept(n) = Kept(q) /\ Before(n) = Kept(n)
      BY <1>4, <1>6, <2>2 DEF Before, Kept
    <2>5. Passed(n) = Passed(q) /\ Counted(n) = Counted(q)
      BY <1>2, <2>2 DEF Passed, Counted
    <2>6. (n.cut \/ Whole(n)) /\ InBounds(n)
      BY <1>2, <2>2, <2>4, <2>5 DEF Whole, InBounds
    <2> QED BY <2>2, <2>3, <2>4, <2>6 DEF CountOK, InRepository, InTransfer
  <1>7. ASSUME NEW r \in Remaining(w), \A s \in Remaining(w) : r <= s,
               Goes(w, [worker[w] EXCEPT !.pc = "list", !.repo = r])
        PROVE  CountOK(worker'[w])
    <2>1. PICK n : n = [q EXCEPT !.pc = "list", !.repo = r]
      OBVIOUS
    <2>2. /\ n.pc = "list" /\ n.repo = r /\ n.skips = q.skips /\ n.cut = q.cut
          /\ n.offset = 0 /\ n.page = 0 /\ n.at = 0 /\ n.pages = 0
          /\ n.completed = q.completed /\ n.failed = q.failed /\ n.skipped = q.skipped
      BY <1>2, <2>1 DEF Worker
    <2>3. worker'[w] = n
      BY <1>1, <1>7, <2>1, GoesThere
    <2>4. r \in Kept(q) /\ r \in Repositories /\ r \in Nat /\ q.repo <= r
      BY <1>1, <1>3, <1>7 DEF Remaining, Kept
    <2>5. \A s \in Kept(q) : s < r <=> s < q.repo
      BY <1>1, <1>3, <1>7, <2>4 DEF Remaining, Kept
    <2>6. Kept(n) = Kept(q) /\ Before(n) = Before(q)
      BY <2>2, <2>5 DEF Kept, Before
    <2>7. Passed(n) = Passed(q) /\ Counted(n) = Counted(q)
      BY <1>2, <2>2 DEF Passed, Counted
    <2>8. (n.cut \/ Whole(n)) /\ InBounds(n)
      BY <1>2, <2>2, <2>6, <2>7 DEF Whole, InBounds
    <2>9. PagesOK(n)
      <3>1. Len(Source[r]) \in Nat
        BY <2>4, SourceAssumption DEF Repositories
      <3> QED BY <2>2, <3>1, BoundsAssumption DEF PagesOK, InTransfer
    <2> QED BY <2>2, <2>3, <2>4, <2>6, <2>8, <2>9
            DEF CountOK, InRepository, InTransfer, OutsideRepositories
  <1> QED BY <1>5, <1>6, <1>7 DEF NextRepository

(* A worker in a repository.                                               *)
LEMMA InRepositoryCounts ==
  ASSUME CountedInv, NEW w \in Workers, worker[w].pc \in InRepository
  PROVE  \E q \in Worker :
            /\ q = worker[w] /\ CountOK(q) /\ WorkerOK(q)
            /\ q.repo \in Repositories /\ PagesOK(q)
            /\ From(q) \in Nat /\ PageSize(q) \in Nat
            /\ PageSize(q) <= Limit /\ Len(Source[q.repo]) \in Nat
            /\ q.offset \in Nat /\ q.page \in Nat /\ q.at \in Nat /\ q.pages \in Nat
  <1>1. PICK q \in Worker : q = worker[w] /\ CountOK(q) /\ WorkerOK(q)
    BY WorkerCounts
  <1>2. q.repo \in Repositories /\ PagesOK(q)
    BY <1>1 DEF CountOK, Kept
  <1>3. From(q) \in Nat /\ PageSize(q) \in Nat
    BY <1>2, PageSizes
  <1>4. Len(Source[q.repo]) \in Nat
    BY <1>2, SourceAssumption DEF Repositories
  <1>5. PageSize(q) <= Limit
    BY <1>3, <1>4, BoundsAssumption DEF PageSize
  <1>6. q.offset \in Nat /\ q.page \in Nat /\ q.at \in Nat /\ q.pages \in Nat
    BY DEF Worker
  <1> QED BY <1>1, <1>2, <1>3, <1>4, <1>5, <1>6

LEMMA RepositoryFailsCounts ==
  ASSUME CountedInv, NEW w \in Workers, RepositoryFails(w)
  PROVE  CountOK(worker'[w])
  BY LeavingCounts DEF RepositoryFails

LEMMA ListArtifactsCounts ==
  ASSUME CountedInv, NEW w \in Workers, ListArtifacts(w)
  PROVE  CountOK(worker'[w])
  <1>1. worker[w].pc = "list" /\ worker[w].pc \in InRepository
    BY DEF ListArtifacts, InRepository
  <1>2. PICK q \in Worker :
            /\ q = worker[w] /\ CountOK(q) /\ WorkerOK(q)
            /\ q.repo \in Repositories /\ PagesOK(q)
            /\ From(q) \in Nat /\ PageSize(q) \in Nat
            /\ PageSize(q) <= Limit /\ Len(Source[q.repo]) \in Nat
            /\ q.offset \in Nat /\ q.page \in Nat /\ q.at \in Nat /\ q.pages \in Nat
    BY <1>1, InRepositoryCounts
  <1>3. q.pc = "list" /\ q.page = 0 /\ q.at = 0 /\ Passed(q) = q.offset
    BY <1>1, <1>2 DEF PagesOK, Passed
  <1>4. CASE Leave(w, TRUE)
    BY <1>1, <1>4, LeavingCounts
  <1>5. ASSUME Leave(w, FALSE), PageSize(q) = 0
        PROVE  CountOK(worker'[w])
    <2>1. Len(Source[q.repo]) <= From(q)
      BY <1>2, <1>5, BoundsAssumption DEF PageSize
    <2>2. ASSUME q.repo \in Ignores PROVE q.offset = Len(Source[q.repo])
      BY <1>2, <1>3, <2>1, <2>2, BoundsAssumption DEF From, PagesOK
    <2>3. ASSUME q.repo \notin Ignores PROVE q.offset = Len(Source[q.repo])
      BY <1>2, <1>3, <2>1, <2>3 DEF From, PagesOK
    <2>4. Passed(worker[w]) = Len(Source[worker[w].repo])
      BY <1>2, <1>3, <2>2, <2>3
    <2> QED BY <1>1, <1>5, <2>4, LeavingCounts
  <1>6. ASSUME q.pages < MaxPages, PageSize(q) # 0,
               Goes(w, [worker[w] EXCEPT !.pc = "artifacts", !.page = PageSize(worker[w]),
                                         !.at = 0, !.pages = @ + 1])
        PROVE  CountOK(worker'[w])
    <2>1. PICK n : n = [q EXCEPT !.pc = "artifacts", !.page = PageSize(q),
                                 !.at = 0, !.pages = @ + 1]
      OBVIOUS
    <2>2. /\ n.pc = "artifacts" /\ n.page = PageSize(q) /\ n.at = 0 /\ n.pages = q.pages + 1
          /\ n.repo = q.repo /\ n.skips = q.skips /\ n.cut = q.cut /\ n.offset = q.offset
          /\ n.completed = q.completed /\ n.failed = q.failed /\ n.skipped = q.skipped
      BY <2>1 DEF Worker
    <2>3. worker'[w] = n /\ n \in Worker
      <3>1. q.pages + 1 \in Nat
        BY <1>2
      <3>2. n \in Worker
        BY <1>2, <2>1, <3>1 DEF Worker, InRepository
      <3> QED BY <1>2, <1>6, <2>1, <3>2, GoesThere
    <2>4. PagesOK(n)
      <3>1. n.pages <= MaxPages
        BY <1>2, <1>6, <2>2, BoundsAssumption
      <3>2. q.repo \notin Ignores => n.offset + n.page <= Len(Source[q.repo])
        <4>1. q.repo \notin Ignores => From(q) = q.offset
          BY DEF From
        <4>2. q.repo \notin Ignores => PageSize(q) <= Len(Source[q.repo]) - q.offset
          BY <1>2, <1>6, <4>1, BoundsAssumption DEF PageSize
        <4> QED BY <1>2, <2>2, <4>2
      <3>3. q.repo \in Ignores /\ Len(Source[q.repo]) < Limit => n.offset = 0
        BY <1>2, <2>2 DEF PagesOK
      <3>4. ASSUME q.repo \in Ignores, Len(Source[q.repo]) >= Limit
            PROVE  n.offset + n.page = n.pages * Limit
        <4>1. n.page = Limit
          BY <1>2, <2>2, <3>4, BoundsAssumption DEF PageSize, From
        <4>2. q.offset = q.pages * Limit
          BY <1>2, <1>3, <3>4 DEF PagesOK
        <4>3. (q.pages + 1) * Limit = q.pages * Limit + Limit
          BY <1>2, BoundsAssumption
        <4> QED BY <2>2, <4>1, <4>2, <4>3
      <3> QED BY <1>2, <2>2, <3>1, <3>2, <3>3, <3>4 DEF PagesOK, InTransfer
    <2>5. Passed(n) = Passed(q) /\ Counted(n) = Counted(q)
      BY <1>2, <1>3, <2>2 DEF Passed, Counted
    <2> QED BY <1>1, <1>2, <2>2, <2>3, <2>4, <2>5, InsideCounts, CountsTyped DEF InRepository
  <1>7. q.pages < MaxPages \/ worker[w].pages >= MaxPages
    BY <1>2, BoundsAssumption
  <1>8. \/ Leave(w, TRUE)
        \/ Leave(w, FALSE) /\ PageSize(worker[w]) = 0
        \/ /\ ~(worker[w].pages >= MaxPages) /\ PageSize(worker[w]) # 0
           /\ Goes(w, [worker[w] EXCEPT !.pc = "artifacts", !.page = PageSize(worker[w]),
                                         !.at = 0, !.pages = @ + 1])
    BY DEF ListArtifacts
  <1> QED BY <1>2, <1>4, <1>5, <1>6, <1>7, <1>8

LEMMA NextArtifactCounts ==
  ASSUME CountedInv, NEW w \in Workers, NextArtifact(w)
  PROVE  CountOK(worker'[w])
  <1>1. worker[w].pc = "artifacts" /\ worker[w].pc \in InRepository
    BY DEF NextArtifact, InRepository
  <1>2. PICK q \in Worker :
            /\ q = worker[w] /\ CountOK(q) /\ WorkerOK(q)
            /\ q.repo \in Repositories /\ PagesOK(q)
            /\ From(q) \in Nat /\ PageSize(q) \in Nat
            /\ PageSize(q) <= Limit /\ Len(Source[q.repo]) \in Nat
            /\ q.offset \in Nat /\ q.page \in Nat /\ q.at \in Nat /\ q.pages \in Nat
    BY <1>1, InRepositoryCounts
  <1>3. /\ q.pc = "artifacts" /\ q.page = PageSize(q) /\ q.at <= q.page
        /\ Passed(q) = q.offset + q.at
    BY <1>1, <1>2 DEF PagesOK, Passed, WorkerOK
  <1>4. CASE Leave(w, TRUE)
    BY <1>1, <1>4, LeavingCounts
  <1>5. ASSUME q.at < q.page, NEW a \in Artifacts,
               Goes(w, [worker[w] EXCEPT !.pc = "check", !.artifact = a])
        PROVE  CountOK(worker'[w])
    <2>1. PICK n : n = [q EXCEPT !.pc = "check", !.artifact = a]
      OBVIOUS
    <2>2. /\ n.pc = "check" /\ n.page = q.page /\ n.at = q.at /\ n.pages = q.pages
          /\ n.repo = q.repo /\ n.skips = q.skips /\ n.cut = q.cut /\ n.offset = q.offset
          /\ n.completed = q.completed /\ n.failed = q.failed /\ n.skipped = q.skipped
      BY <2>1 DEF Worker
    <2>3. n \in Worker /\ worker'[w] = n
      BY <1>2, <1>5, <2>1, GoesThere DEF Worker, InRepository, InTransfer
    <2>4. PagesOK(n)
      BY <1>2, <1>3, <1>5, <2>2 DEF PagesOK, InTransfer
    <2>5. Passed(n) = Passed(q) /\ Counted(n) = Counted(q)
      BY <1>3, <2>2 DEF Passed, Counted
    <2> QED BY <1>1, <1>2, <2>2, <2>3, <2>4, <2>5, InsideCounts, CountsTyped
            DEF InRepository, InTransfer
  <1>6. ASSUME ~(q.at < q.page), FullPage(q.page),
               Goes(w, [worker[w] EXCEPT !.pc = "list", !.page = 0, !.at = 0,
                                         !.offset = @ + worker[w].page])
        PROVE  CountOK(worker'[w])
    <2>1. PICK n : n = [q EXCEPT !.pc = "list", !.page = 0, !.at = 0, !.offset = @ + q.page]
      OBVIOUS
    <2>2. /\ n.pc = "list" /\ n.page = 0 /\ n.at = 0 /\ n.pages = q.pages
          /\ n.repo = q.repo /\ n.skips = q.skips /\ n.cut = q.cut
          /\ n.offset = q.offset + q.page
          /\ n.completed = q.completed /\ n.failed = q.failed /\ n.skipped = q.skipped
      BY <2>1 DEF Worker
    <2>3. n \in Worker /\ worker'[w] = n
      <3>1. q.offset + q.page \in Nat
        BY <1>2
      <3>2. n \in Worker
        BY <1>2, <2>1, <3>1 DEF Worker, InRepository
      <3> QED BY <1>2, <1>6, <2>1, <3>2, GoesThere
    <2>4. q.at = q.page /\ q.page = Limit
      BY <1>2, <1>3, <1>6, BoundsAssumption DEF FullPage
    <2>5. PagesOK(n)
      <3>1. ~(q.repo \in Ignores /\ Len(Source[q.repo]) < Limit)
        BY <1>2, <1>3, <2>4, BoundsAssumption DEF PageSize, From
      <3>2. n.offset + n.page = q.offset + q.page
        BY <1>2, <2>2
      <3> QED BY <1>2, <2>2, <3>1, <3>2 DEF PagesOK, InTransfer
    <2>6. Passed(n) = Passed(q) /\ Counted(n) = Counted(q)
      BY <1>2, <1>3, <2>2, <2>4 DEF Passed, Counted
    <2> QED BY <1>1, <1>2, <2>2, <2>3, <2>5, <2>6, InsideCounts, CountsTyped
            DEF InRepository
  <1>7. ASSUME ~(q.at < q.page), ~FullPage(q.page), Leave(w, FALSE)
        PROVE  CountOK(worker'[w])
    <2>1. q.at = q.page /\ PageSize(q) < Limit
      BY <1>2, <1>3, <1>7, BoundsAssumption DEF FullPage
    <2>2. From(q) + q.page >= Len(Source[q.repo])
      BY <1>2, <1>3, <2>1, BoundsAssumption DEF PageSize
    <2>3. ASSUME q.repo \in Ignores PROVE q.offset + q.page = Len(Source[q.repo])
      <3>1. Len(Source[q.repo]) < Limit
        BY <1>2, <2>1, <2>3, BoundsAssumption DEF PageSize, From
      <3>2. q.offset = 0 /\ From(q) = 0
        BY <1>2, <2>3, <3>1 DEF PagesOK, From
      <3>3. q.page <= Len(Source[q.repo])
        BY <1>2, <1>3, <3>2, BoundsAssumption DEF PageSize
      <3> QED BY <1>2, <2>2, <3>2, <3>3
    <2>4. ASSUME q.repo \notin Ignores PROVE q.offset + q.page = Len(Source[q.repo])
      BY <1>2, <2>2, <2>4 DEF PagesOK, From
    <2>5. Passed(worker[w]) = Len(Source[worker[w].repo])
      BY <1>2, <1>3, <2>1, <2>3, <2>4
    <2> QED BY <1>1, <1>7, <2>5, LeavingCounts
  <1>8. q.at < q.page => Source[q.repo][From(q) + q.at + 1] \in Artifacts
    BY <1>2, <1>3, PageSizes
  <1> QED BY <1>2, <1>4, <1>5, <1>6, <1>7, <1>8 DEF NextArtifact

(* A move of the loop body keeps the place and counts at its end.          *)
LEMMA TransferCounts ==
  ASSUME CountedInv, NEW w \in Workers, worker[w].pc \in InTransfer \ {"report"},
         NEW n \in Worker, worker'[w] = n, n.pc \in InTransfer,
         n.repo = worker[w].repo, n.offset = worker[w].offset, n.page = worker[w].page,
         n.at = worker[w].at, n.pages = worker[w].pages, n.skips = worker[w].skips,
         n.cut = worker[w].cut,
         Counted(n) = Counted(worker[w]) + (IF n.pc = "report" THEN 1 ELSE 0)
  PROVE  CountOK(worker'[w])
  <1>1. worker[w].pc \in InRepository /\ n.pc \in InRepository
    BY DEF InRepository
  <1>2. PICK q \in Worker : q = worker[w] /\ CountOK(q) /\ PagesOK(q)
    BY <1>1, InRepositoryCounts
  <1>3. PagesOK(n)
    BY <1>2 DEF PagesOK, InTransfer
  <1>4. Passed(n) = Passed(q) + (IF n.pc = "report" THEN 1 ELSE 0)
    BY <1>2 DEF Passed, Worker
  <1>5. Counted(n) + Passed(q) = Counted(q) + Passed(n)
    BY <1>2, <1>4, CountsTyped
  <1> QED BY <1>1, <1>2, <1>3, <1>5, InsideCounts

LEMMA MovingCounts ==
  ASSUME CountedInv, NEW w \in Workers, worker[w].pc \in InTransfer \ {"report"},
         NEW p \in InTransfer \ {"report"}, NEW b \in Bodies \cup {None},
         Goes(w, [worker[w] EXCEPT !.pc = p, !.body = b])
  PROVE  CountOK(worker'[w])
  <1>1. PICK n : n = [worker[w] EXCEPT !.pc = p, !.body = b]
    OBVIOUS
  <1>2. worker[w] \in Worker /\ worker'[w] = n
    BY <1>1, WorkerCounts, GoesThere
  <1>3. n \in Worker
    BY <1>1, <1>2 DEF Worker, InRepository
  <1>4. /\ n.pc = p /\ n.repo = worker[w].repo /\ n.offset = worker[w].offset
        /\ n.page = worker[w].page /\ n.at = worker[w].at /\ n.pages = worker[w].pages
        /\ n.skips = worker[w].skips /\ n.cut = worker[w].cut
        /\ n.completed = worker[w].completed /\ n.failed = worker[w].failed
        /\ n.skipped = worker[w].skipped
    BY <1>1, <1>2 DEF Worker
  <1>5. Counted(n) = Counted(worker[w]) + (IF n.pc = "report" THEN 1 ELSE 0)
    BY <1>2, <1>4, CountsTyped DEF Counted
  <1> QED BY <1>2, <1>3, <1>4, <1>5, TransferCounts

(* The body stays.                                                         *)
LEMMA StayingBodyCounts ==
  ASSUME CountedInv, NEW w \in Workers, worker[w].pc \in InTransfer \ {"report"},
         NEW p \in InTransfer \ {"report"}, Goes(w, [worker[w] EXCEPT !.pc = p])
  PROVE  CountOK(worker'[w])
  <1>1. worker[w] \in Worker /\ worker[w].body \in Bodies \cup {None}
    BY WorkerCounts DEF Worker
  <1>2. [worker[w] EXCEPT !.pc = p] = [worker[w] EXCEPT !.pc = p, !.body = worker[w].body]
    BY <1>1 DEF Worker
  <1> QED BY <1>1, <1>2, MovingCounts

SameStop(q, n) ==
    /\ n.pc = "report" /\ n.repo = q.repo /\ n.offset = q.offset /\ n.page = q.page
    /\ n.at = q.at /\ n.pages = q.pages /\ n.skips = q.skips /\ n.cut = q.cut

LEMMA EndingCounts ==
  ASSUME CountedInv, NEW w \in Workers, worker[w].pc \in InTransfer \ {"report"},
         \/ SkipItem(w) \/ FailItem(w)
         \/ Goes(w, [worker[w] EXCEPT !.pc = "report", !.body = None, !.completed = @ + 1])
  PROVE  CountOK(worker'[w])
  <1>1. PICK q \in Worker : q = worker[w]
    BY WorkerCounts
  <1>2. q.completed \in Nat /\ q.failed \in Nat /\ q.skipped \in Nat
    BY DEF Worker
  <1>3. ASSUME NEW n \in Worker, worker'[w] = n, SameStop(q, n), Counted(n) = Counted(q) + 1
        PROVE  CountOK(worker'[w])
    <2>1. n.pc \in InTransfer /\ n.pc = "report"
      BY <1>3 DEF SameStop, InTransfer
    <2>2. Counted(n) = Counted(q) + (IF n.pc = "report" THEN 1 ELSE 0)
      BY <1>3, <2>1
    <2> QED BY <1>1, <1>3, <2>1, <2>2, TransferCounts DEF SameStop
  <1>4. CASE SkipItem(w)
    <2>1. PICK n : n = [q EXCEPT !.pc = "report", !.skipped = @ + 1, !.body = None]
      OBVIOUS
    <2>2. SameStop(q, n) /\ n.completed = q.completed /\ n.failed = q.failed /\ n.skipped = q.skipped + 1
      BY <2>1 DEF Worker, SameStop
    <2>3. worker'[w] = n /\ n \in Worker
      <3>1. q.skipped + 1 \in Nat
        BY <1>2
      <3>2. n \in Worker
        BY <2>1, <3>1 DEF Worker, InRepository, InTransfer
      <3> QED BY <1>1, <1>4, <2>1, <3>2, GoesThere DEF SkipItem
    <2>4. Counted(n) = Counted(q) + 1
      BY <1>2, <2>2 DEF Counted
    <2> QED BY <1>3, <2>2, <2>3, <2>4
  <1>5. CASE FailItem(w)
    <2>1. PICK n : n = [q EXCEPT !.pc = "report", !.failed = @ + 1, !.body = None]
      OBVIOUS
    <2>2. SameStop(q, n) /\ n.completed = q.completed /\ n.failed = q.failed + 1 /\ n.skipped = q.skipped
      BY <2>1 DEF Worker, SameStop
    <2>3. worker'[w] = n /\ n \in Worker
      <3>1. q.failed + 1 \in Nat
        BY <1>2
      <3>2. n \in Worker
        BY <2>1, <3>1 DEF Worker, InRepository, InTransfer
      <3> QED BY <1>1, <1>5, <2>1, <3>2, GoesThere DEF FailItem
    <2>4. Counted(n) = Counted(q) + 1
      BY <1>2, <2>2 DEF Counted
    <2> QED BY <1>3, <2>2, <2>3, <2>4
  <1>6. CASE Goes(w, [worker[w] EXCEPT !.pc = "report", !.body = None, !.completed = @ + 1])
    <2>1. PICK n : n = [q EXCEPT !.pc = "report", !.body = None, !.completed = @ + 1]
      OBVIOUS
    <2>2. SameStop(q, n) /\ n.completed = q.completed + 1 /\ n.failed = q.failed /\ n.skipped = q.skipped
      BY <2>1 DEF Worker, SameStop
    <2>3. worker'[w] = n /\ n \in Worker
      <3>1. q.completed + 1 \in Nat
        BY <1>2
      <3>2. n \in Worker
        BY <2>1, <3>1 DEF Worker, InRepository, InTransfer
      <3> QED BY <1>1, <1>6, <2>1, <3>2, GoesThere
    <2>4. Counted(n) = Counted(q) + 1
      BY <1>2, <2>2 DEF Counted
    <2> QED BY <1>3, <2>2, <2>3, <2>4
  <1> QED BY <1>4, <1>5, <1>6

(* The artifact a worker is done with is passed.                           *)
LEMMA PassingCounts ==
  ASSUME CountedInv, NEW w \in Workers, worker[w].pc \in {"check", "report"},
         \/ worker[w].pc = "check" /\ Skipped(w)
         \/ /\ worker[w].pc = "report"
            /\ Goes(w, [worker[w] EXCEPT !.pc = "artifacts", !.at = @ + 1, !.artifact = None])
  PROVE  CountOK(worker'[w])
  <1>1. worker[w].pc \in InRepository /\ worker[w].pc \in InTransfer
    BY DEF InRepository, InTransfer
  <1>2. PICK q \in Worker :
            /\ q = worker[w] /\ CountOK(q) /\ PagesOK(q) /\ q.page \in Nat
            /\ q.at + 1 \in Nat /\ q.offset \in Nat /\ q.at < q.page
    BY <1>1, InRepositoryCounts DEF PagesOK
  <1>3. q.completed \in Nat /\ q.failed \in Nat /\ q.skipped \in Nat /\ q.at \in Nat
    BY DEF Worker
  <1>4. PICK s \in Nat : s = IF q.pc = "check" THEN q.skipped + 1 ELSE q.skipped
    BY <1>3
  <1>5. PICK n : n = [q EXCEPT !.pc = "artifacts", !.at = @ + 1, !.artifact = None,
                               !.skipped = s]
    OBVIOUS
  <1>6. n \in Worker
    BY <1>2, <1>5 DEF Worker, InRepository
  <1>7. worker'[w] = n
    <2>1. CASE q.pc = "check"
      <3>1. n = [q EXCEPT !.pc = "artifacts", !.at = @ + 1, !.artifact = None, !.skipped = @ + 1]
        BY <1>4, <1>5, <2>1 DEF Worker
      <3> QED BY <1>2, <2>1, <3>1, GoesThere DEF Skipped
    <2>2. CASE q.pc = "report"
      <3>1. n = [q EXCEPT !.pc = "artifacts", !.at = @ + 1, !.artifact = None]
        BY <1>4, <1>5, <2>2 DEF Worker
      <3> QED BY <1>2, <2>2, <3>1, GoesThere
    <2> QED BY <1>2, <2>1, <2>2
  <1>8. /\ n.pc = "artifacts" /\ n.at = q.at + 1 /\ n.page = q.page /\ n.pages = q.pages
        /\ n.repo = q.repo /\ n.offset = q.offset /\ n.skips = q.skips /\ n.cut = q.cut
        /\ n.completed = q.completed /\ n.failed = q.failed /\ n.skipped = s
    BY <1>5 DEF Worker
  <1>9. PagesOK(n)
    <2>1. n.at <= n.page
      BY <1>2, <1>3, <1>8
    <2> QED BY <1>2, <1>8, <2>1 DEF PagesOK, InTransfer
  <1>10. Counted(n) + Passed(q) = Counted(q) + Passed(n)
    BY <1>2, <1>3, <1>4, <1>8 DEF Counted, Passed
  <1> QED BY <1>1, <1>2, <1>6, <1>7, <1>8, <1>9, <1>10, InsideCounts DEF InRepository

LEMMA StepCounts ==
  ASSUME CountedInv, NEW w \in Workers, WorkerStep(w)
  PROVE  CountOK(worker'[w])
  <1>1. CASE BeginRun(w) \/ Provision(w) \/ Finish(w) \/ RunFails(w)
    BY <1>1, RunCounts
  <1>2. CASE NextRepository(w)
    BY <1>2, NextRepositoryCounts
  <1>3. CASE ListArtifacts(w)
    BY <1>3, ListArtifactsCounts
  <1>4. CASE NextArtifact(w)
    BY <1>4, NextArtifactCounts
  <1>5. CASE RepositoryFails(w)
    BY <1>5, RepositoryFailsCounts
  <1>6. CASE CheckArtifact(w)
    <2>1. "transfer" \in InTransfer \ {"report"} /\ "check" \in InTransfer \ {"report"}
      BY DEF InTransfer
    <2>2. CASE Skipped(w)
      BY <1>6, <2>2, PassingCounts DEF CheckArtifact
    <2>3. CASE Goes(w, [worker[w] EXCEPT !.pc = "transfer"])
      BY <1>6, <2>1, <2>3, StayingBodyCounts DEF CheckArtifact
    <2> QED BY <1>6, <2>2, <2>3 DEF CheckArtifact
  <1>7. CASE Transfer(w)
    <2>1. "transfer" \in InTransfer \ {"report"} /\ "store" \in InTransfer \ {"report"}
      BY DEF InTransfer
    <2>2. CASE SkipItem(w) \/ FailItem(w)
      BY <1>7, <2>1, <2>2, EndingCounts DEF Transfer
    <2>3. ASSUME NEW body \in {Content[worker[w].artifact], Garbage},
                 Goes(w, [worker[w] EXCEPT !.pc = "store", !.body = body])
          PROVE  CountOK(worker'[w])
      <3>1. worker[w].artifact \in Artifacts
        BY <1>7, <2>1, WorkerCounts DEF Transfer, WorkerOK
      <3>2. body \in Bodies \cup {None}
        BY <3>1, SourceAssumption DEF Bodies
      <3> QED BY <1>7, <2>1, <2>3, <3>2, MovingCounts DEF Transfer
    <2> QED BY <1>7, <2>2, <2>3 DEF Transfer
  <1>8. CASE StoreContent(w)
    <2>1. "store" \in InTransfer \ {"report"} /\ "insert" \in InTransfer \ {"report"}
      BY DEF InTransfer
    <2> QED BY <1>8, <2>1, StayingBodyCounts, EndingCounts DEF StoreContent
  <1>9. CASE InsertRow(w)
    <2>1. "insert" \in InTransfer \ {"report"} /\ "finalize" \in InTransfer \ {"report"}
      BY DEF InTransfer
    <2> QED BY <1>9, <2>1, StayingBodyCounts, EndingCounts DEF InsertRow, AfterFailedInsert
  <1>10. CASE FinalizeTransfer(w)
    <2>1. "finalize" \in InTransfer \ {"report"}
      BY DEF InTransfer
    <2> QED BY <1>10, <2>1, EndingCounts DEF FinalizeTransfer
  <1>11. CASE UpdateProgress(w)
    BY <1>11, PassingCounts DEF UpdateProgress
  <1> QED BY <1>1, <1>2, <1>3, <1>4, <1>5, <1>6, <1>7, <1>8, <1>9, <1>10, <1>11 DEF WorkerStep

LEMMA WorkersCount ==
  ASSUME CountedInv, NEW w \in Workers, WorkerStep(w)
  PROVE  \A v \in Workers : CountOK(worker'[v])
  <1>1. \E q : Goes(w, q)
    BY DEF WorkerStep, BeginRun, Provision, Finish, RunFails, NextRepository, ListArtifacts,
           NextArtifact, RepositoryFails, CheckArtifact, Transfer, StoreContent, InsertRow,
           FinalizeTransfer, UpdateProgress, Leave, Skipped, SkipItem, FailItem,
           AfterFailedInsert
  <1>2. \A v \in Workers : v # w => worker'[v] = worker[v]
    BY <1>1 DEF Goes, CountedInv, MigrationInv, TypeOK
  <1> QED BY <1>2, StepCounts, WorkerCounts

(* What a worker reports is in the extent of its own run.                  *)
LEMMA ReportsStayInExtent ==
  ASSUME CountedInv, NEW w \in Workers, UpdateProgress(w)
  PROVE  ProgressStaysInExtent'
  <1>1. PICK q \in Worker : q = worker[w] /\ CountOK(q) /\ WorkerOK(q)
    BY WorkerCounts
  <1>2. /\ q.pc \in InRepository /\ q.repo \in Kept(q) /\ PagesOK(q) /\ InBounds(q)
        /\ progress' = Counted(q)
    BY <1>1 DEF UpdateProgress, CountOK, InRepository, InTransfer, Handled, Counted
  <1>3. Passed(q) <= ListedAtMost[q.repo]
    BY <1>1, <1>2, PassedBounded DEF Kept
  <1>4. q.repo \in Repositories \ Before(q) /\ Before(q) \cup {q.repo} \subseteq Kept(q)
    <2>1. q.repo \in Nat
      BY DEF Worker
    <2> QED BY <1>2, <2>1 DEF Before, Kept
  <1>5. /\ Kept(q) \in SUBSET Repositories
        /\ Cardinality(Slots(Before(q), ListedAtMost)) + ListedAtMost[q.repo]
              <= Cardinality(Slots(Kept(q), ListedAtMost))
    <2>1. Kept(q) \in SUBSET Repositories
      BY DEF Kept
    <2>2. Cardinality(Slots(Before(q) \cup {q.repo}, ListedAtMost))
            = Cardinality(Slots(Before(q), ListedAtMost)) + ListedAtMost[q.repo]
      BY <1>4, SlotsAdded, SizesTyped, CountsTyped
    <2>3. Cardinality(Slots(Before(q) \cup {q.repo}, ListedAtMost))
            <= Cardinality(Slots(Kept(q), ListedAtMost))
      BY <1>4, <2>1, SlotsGrow, SizesTyped
    <2> QED BY <2>1, <2>2, <2>3
  <1>6. Cardinality(Slots(Kept(q), ListedAtMost)) \in Nat /\ ListedAtMost[q.repo] \in Nat
    BY <1>4, <1>5, SlotsFinite, SizesTyped
  <1>7. progress' <= Extent(q.skips, ListedAtMost)
    BY <1>2, <1>3, <1>5, <1>6, CountsTyped DEF InBounds, Extent, Kept
  <1>8. q.skips \in SUBSET Repositories
    BY DEF Worker
  <1> QED BY <1>7, <1>8 DEF ProgressStaysInExtent

LEMMA UnchangedProgress ==
  ASSUME CountedInv, UNCHANGED progress
  PROVE  ProgressStaysInExtent'
  BY DEF CountedInv, CountInv, ProgressStaysInExtent

LEMMA SpawnedCounts ==
  ASSUME CountedInv, NEW w \in Workers, Spawn(w) \/ LoseSpawn
  PROVE  \A v \in Workers : CountOK(worker'[v])
  <1>1. CASE Spawn(w)
    <2>1. PICK n : n = [Idle EXCEPT !.pc = "begin"]
      OBVIOUS
    <2>2. CountOK(n)
      BY <2>1 DEF Idle, CountOK, InRepository, InTransfer, OutsideRepositories
    <2>3. Goes(w, n)
      BY <1>1, <2>1 DEF Spawn
    <2>4. \A v \in Workers : v # w => worker'[v] = worker[v]
      BY <2>3 DEF Goes, CountedInv, MigrationInv, TypeOK
    <2> QED BY <2>2, <2>3, <2>4, GoesThere, WorkerCounts
  <1>2. CASE LoseSpawn
    BY <1>2, WorkerCounts DEF LoseSpawn
  <1> QED BY <1>1, <1>2

LEMMA InitCounted == Init => CountedInv
  <1> SUFFICES ASSUME Init PROVE CountedInv
    OBVIOUS
  <1>1. \A w \in Workers : CountOK(worker[w])
    BY IdleCounts DEF Init
  <1>2. ProgressStaysInExtent
    <2>1. {} \in SUBSET Repositories /\ Repositories \ {} \in SUBSET Repositories
      OBVIOUS
    <2>2. Cardinality({}) = 0
      BY FS_EmptySet
    <2>3. Cardinality(Slots(Repositories \ {}, ListedAtMost)) \in Nat
      BY <2>1, SlotsFinite, SizesTyped
    <2>4. progress <= Extent({}, ListedAtMost)
      BY <2>2, <2>3 DEF Init, Extent
    <2> QED BY <2>1, <2>4 DEF ProgressStaysInExtent
  <1> QED BY <1>1, <1>2, InitMigration DEF CountedInv, CountInv

LEMMA StepKeepsCounted == CountedInv /\ [Next]_vars => CountedInv'
  <1> SUFFICES ASSUME CountedInv, [Next]_vars PROVE CountedInv'
    OBVIOUS
  <1>1. MigrationInv'
    BY StepKeepsMigration DEF CountedInv
  <1>2. ASSUME \A v \in Workers : CountOK(worker'[v]) PROVE \A v \in Workers : CountOK(worker[v])'
    BY <1>2 DEF CountOK, Whole, InBounds, PagesOK, Before, Kept, Passed, Counted, Slots
  <1>3. ASSUME NEW w \in Workers, StartMigration(w) \/ ResumeMigration(w)
        PROVE  (\A v \in Workers : CountOK(worker[v])') /\ ProgressStaysInExtent'
    BY <1>2, <1>3, SpawnedCounts, UnchangedProgress DEF StartMigration, ResumeMigration
  <1>4. ASSUME NEW w \in Workers, WorkerStep(w)
        PROVE  (\A v \in Workers : CountOK(worker[v])') /\ ProgressStaysInExtent'
    <2>1. UpdateProgress(w) \/ UNCHANGED progress
      BY <1>4 DEF WorkerStep, BeginRun, Provision, Finish, RunFails, NextRepository,
                  ListArtifacts, NextArtifact, RepositoryFails, CheckArtifact, Transfer,
                  StoreContent, InsertRow, FinalizeTransfer
    <2> QED BY <1>2, <1>4, <2>1, WorkersCount, ReportsStayInExtent, UnchangedProgress
  <1>5. ASSUME UNCHANGED <<progress, worker>>
        PROVE  (\A v \in Workers : CountOK(worker[v])') /\ ProgressStaysInExtent'
    BY <1>2, <1>5, UnchangedProgress DEF CountedInv, CountInv
  <1>6. ASSUME Crash
        PROVE  (\A v \in Workers : CountOK(worker[v])') /\ ProgressStaysInExtent'
    BY <1>2, <1>6, IdleCounts, UnchangedProgress DEF Crash
  <1>7. ASSUME \/ PauseMigration \/ CancelMigration \/ RunAssessment \/ FinishAssessment
               \/ UNCHANGED vars
        PROVE  (\A v \in Workers : CountOK(worker[v])') /\ ProgressStaysInExtent'
    BY <1>5, <1>7 DEF PauseMigration, CancelMigration, RunAssessment, FinishAssessment, vars
  <1>8. (\A v \in Workers : CountOK(worker[v])') /\ ProgressStaysInExtent'
    BY <1>3, <1>4, <1>6, <1>7 DEF Next
  <1> QED BY <1>1, <1>8 DEF CountedInv, CountInv

(* A run that decides on the final status uncut has counted every artifact *)
(* of every repository it did not leave out once, at every batch size, for *)
(* every source and page guard: pages meet end to end, and only a short or *)
(* an empty one ends a repository (process_repository_artifacts).          *)
THEOREM FinishedWhole == Spec => []FinishedRunsAreWhole
  <1>1. ASSUME CountedInv PROVE FinishedRunsAreWhole
    <2> SUFFICES ASSUME NEW w \in Workers, worker[w].pc = "finish", ~worker[w].cut
                 PROVE  Handled(w) = Extent(worker[w].skips, Listed)
      BY DEF FinishedRunsAreWhole
    <2>1. PICK q \in Worker : q = worker[w] /\ CountOK(q)
      BY <1>1, WorkerCounts
    <2>2. Before(q) = Kept(q) /\ Whole(q) /\ q.offset = 0 /\ q.at = 0 /\ q.pc = "finish"
      BY <2>1 DEF CountOK, OutsideRepositories
    <2>3. Passed(q) = 0 /\ Handled(w) = Counted(q)
      BY <2>1, <2>2 DEF Passed, Handled, Counted
    <2> QED BY <2>1, <2>2, <2>3, CountsTyped DEF Whole, Extent, Kept
  <1> QED BY <1>1, InitCounted, StepKeepsCounted, PTL DEF Spec

(* Every report of every worker is within the extent of its own run, so    *)
(* the row of the job is, however the reports of several workers replace   *)
(* one another, even when a source ignores the offset and the page guard   *)
(* alone ends the listing (update_job_progress).                           *)
THEOREM ProgressInExtent == Spec => []ProgressStaysInExtent
  <1>1. CountedInv => ProgressStaysInExtent
    BY DEF CountedInv, CountInv
  <1> QED BY <1>1, InitCounted, StepKeepsCounted, PTL DEF Spec

-----------------------------------------------------------------------------
(* The verified copy.                                                      *)
VerifiedPairs == {v \in Artifacts \X Bodies : Matches(v[1], v[2])}

LEMMA InitCopies == Init => Copy!Init
  <1> SUFFICES ASSUME Init PROVE Copy!Init
    OBVIOUS
  <1>1. {a \in Artifacts : items[a] = "completed"} = {}
    BY DEF Init
  <1> QED BY <1>1, DestinationAssumption DEF Init, Copy!Init

(* A step that leaves rows and content alone, and at most takes an item    *)
(* out of those that are completed.                                        *)
LEMMA QuietCopies ==
  ASSUME UNCHANGED <<items, rows, stored>>
  PROVE  UNCHANGED Copy!vars
  BY DEF Copy!vars

LEMMA ItemCopies ==
  ASSUME MigrationInv, NEW a \in Artifacts, NEW status, status # "completed",
         items' = [items EXCEPT ![a] = status], UNCHANGED <<rows, stored>>
  PROVE  Copy!Reopen(a)
  <1>1. {b \in Artifacts : items'[b] = "completed"} = {b \in Artifacts : items[b] = "completed"} \ {a}
    BY DEF MigrationInv, TypeOK
  <1> QED BY <1>1 DEF Copy!Reopen

LEMMA EndingCopies ==
  ASSUME MigrationInv, NEW w \in Workers, worker[w].artifact \in Artifacts,
         SkipItem(w) \/ FailItem(w), UNCHANGED <<rows, stored>>
  PROVE  \E a \in Artifacts : Copy!Reopen(a)
  BY ItemCopies DEF SkipItem, FailItem

LEMMA TransfersCopy ==
  ASSUME MigrationInv, NEW w \in Workers,
         \/ CheckArtifact(w) \/ Transfer(w) \/ StoreContent(w) \/ InsertRow(w)
         \/ FinalizeTransfer(w)
  PROVE  [Copy!Next]_(Copy!vars)
  <1>1. PICK a \in Artifacts : a = worker[w].artifact
    BY Transferring DEF CheckArtifact, Transfer, StoreContent, InsertRow, FinalizeTransfer,
                        InTransfer
  <1>2. ASSUME SkipItem(w) \/ FailItem(w), UNCHANGED <<rows, stored>>
        PROVE  Copy!Next
    BY <1>1, <1>2, EndingCopies DEF Copy!Next
  <1>3. CASE CheckArtifact(w)
    <2>1. CASE UNCHANGED items
      BY <1>3, <2>1, QuietCopies DEF CheckArtifact
    <2>2. CASE items[a] # "completed" /\ items' = [items EXCEPT ![a] = AddedStatus(a)]
      BY <1>3, <2>2, ItemCopies DEF CheckArtifact, AddedStatus, Copy!Next
    <2> QED BY <1>1, <1>3, <2>1, <2>2 DEF CheckArtifact
  <1>4. CASE Transfer(w)
    BY <1>2, <1>4, QuietCopies DEF Transfer
  <1>5. CASE StoreContent(w)
    <2>1. CASE stored' = stored \cup {worker[w].body} /\ UNCHANGED items
      <3>1. worker[w].body \in Bodies /\ Matches(a, worker[w].body)
        BY <1>1, <1>5 DEF StoreContent, MigrationInv, WorkerOK, Holding
      <3>2. <<a, worker[w].body>> \in VerifiedPairs
        BY <3>1 DEF VerifiedPairs
      <3>3. Copy!Store(a, worker[w].body)
        BY <1>5, <2>1, <3>2 DEF StoreContent, Copy!Store, VerifiedPairs
      <3> QED BY <3>1, <3>3 DEF Copy!Next
    <2> QED BY <1>2, <1>5, <2>1 DEF StoreContent
  <1>6. CASE InsertRow(w)
    <2>1. CASE /\ UNCHANGED items
               /\ rows' = IF rows[a] = None THEN [rows EXCEPT ![a] = worker[w].body] ELSE rows
      <3>1. /\ worker[w].body \in Bodies /\ Matches(a, worker[w].body)
            /\ worker[w].body \in stored
        BY <1>1, <1>6 DEF InsertRow, MigrationInv, WorkerOK, Holding
      <3>2. <<a, worker[w].body>> \in VerifiedPairs
        BY <3>1 DEF VerifiedPairs
      <3>3. CASE rows[a] = None
        <4>1. Copy!Publish(a, worker[w].body)
          BY <1>6, <2>1, <3>1, <3>2, <3>3 DEF InsertRow, Copy!Publish, VerifiedPairs
        <4> QED BY <3>1, <4>1 DEF Copy!Next
      <3>4. CASE rows[a] # None
        BY <1>6, <2>1, <3>4, QuietCopies DEF InsertRow
      <3> QED BY <3>3, <3>4
    <2> QED BY <1>1, <1>2, <1>6, <2>1 DEF InsertRow, AfterFailedInsert, InsertConflicts
  <1>7. CASE FinalizeTransfer(w)
    <2>1. CASE items' = [items EXCEPT ![a] = "completed"]
      <3>1. rows[a] # None
        BY <1>1, <1>7 DEF FinalizeTransfer, MigrationInv, WorkerOK
      <3>2. {b \in Artifacts : items'[b] = "completed"}
              = {b \in Artifacts : items[b] = "completed"} \cup {a}
        BY <2>1 DEF MigrationInv, TypeOK
      <3>3. Copy!Complete(a)
        BY <1>7, <3>1, <3>2 DEF FinalizeTransfer, Copy!Complete
      <3> QED BY <3>3 DEF Copy!Next
    <2> QED BY <1>1, <1>2, <1>7, <2>1 DEF FinalizeTransfer
  <1> QED BY <1>3, <1>4, <1>5, <1>6, <1>7

LEMMA StepCopies == MigrationInv /\ [Next]_vars => [Copy!Next]_(Copy!vars)
  <1> SUFFICES ASSUME MigrationInv, [Next]_vars PROVE [Copy!Next]_(Copy!vars)
    OBVIOUS
  <1>1. ASSUME NEW w \in Workers, WorkerStep(w)
        PROVE  [Copy!Next]_(Copy!vars)
    <2>1. CASE \/ BeginRun(w) \/ Provision(w) \/ NextRepository(w) \/ Finish(w) \/ RunFails(w)
               \/ ListArtifacts(w) \/ NextArtifact(w) \/ RepositoryFails(w) \/ UpdateProgress(w)
      BY <2>1, QuietCopies
         DEF BeginRun, Provision, NextRepository, Finish, RunFails, ListArtifacts,
             NextArtifact, RepositoryFails, UpdateProgress
    <2> QED BY <1>1, <2>1, TransfersCopy DEF WorkerStep
  <1>2. ASSUME \/ \E w \in Workers : StartMigration(w) \/ ResumeMigration(w)
               \/ PauseMigration \/ CancelMigration \/ RunAssessment \/ FinishAssessment
               \/ Crash \/ UNCHANGED vars
        PROVE  UNCHANGED Copy!vars
    BY <1>2, QuietCopies
       DEF StartMigration, ResumeMigration, PauseMigration, CancelMigration, RunAssessment,
           FinishAssessment, Crash, vars
  <1> QED BY <1>1, <1>2 DEF Next

(* A migration is a verified copy, for every source, destination and       *)
(* number of workers: content is stored and a row inserted only for a body *)
(* that passed verification, an item completed only with its row, and      *)
(* neither rows nor content are replaced or removed (transfer_artifact).   *)
THEOREM VerifiedMigration == Spec => ImplementsVerifiedCopy
  BY InitMigration, StepKeepsMigration, InitCopies, StepCopies, PTL
     DEF Spec, ImplementsVerifiedCopy, Copy!Spec

-----------------------------------------------------------------------------
(* Runs that do not overlap: the worker of before has ended when another   *)
(* one is spawned.                                                         *)
Open == {"transfer", "store", "insert", "finalize"}
RunsDoNotOverlap ==
    \A v, w \in Workers : worker[v].pc # "idle" /\ worker[w].pc # "idle" => v = w
OpenItems ==
    \A w \in Workers : worker[w].pc \in Open => items[worker[w].artifact] # "completed"

LEMMA Moves ==
  ASSUME MigrationInv, NEW w \in Workers, NEW n, Goes(w, n)
  PROVE  worker'[w] = n /\ \A v \in Workers \ {w} : worker'[v] = worker[v]
  BY DEF Goes, MigrationInv, TypeOK

(* A step outside the transfer of an artifact opens no item.               *)
LEMMA OutsideStaysOutside ==
  ASSUME MigrationInv, NEW w \in Workers,
         \/ BeginRun(w) \/ Provision(w) \/ Finish(w) \/ RunFails(w) \/ NextRepository(w)
         \/ ListArtifacts(w) \/ NextArtifact(w) \/ RepositoryFails(w) \/ UpdateProgress(w)
  PROVE  /\ worker[w].pc # "idle" /\ worker'[w].pc \notin Open
         /\ UNCHANGED items
         /\ \A v \in Workers \ {w} : worker'[v] = worker[v]
  <1>t. PICK q \in Worker : q = worker[w]
    BY DEF MigrationInv, TypeOK
  <1>i. Idle.pc = "idle"
    BY DEF Idle
  <1>l. ASSUME NEW cut \in BOOLEAN, Leave(w, cut)
        PROVE  worker'[w].pc = "repositories" /\ \A v \in Workers \ {w} : worker'[v] = worker[v]
    BY <1>l, LeaveMoves, Moves DEF MigrationInv
  <1>1. CASE BeginRun(w)
    <2>1. PICK n : n = [q EXCEPT !.pc = "provision", !.skipped = CountersOfRun]
      OBVIOUS
    <2>2. n.pc = "provision"
      BY <2>1 DEF Worker
    <2> QED BY <1>t, <1>1, <2>1, <2>2, Moves DEF BeginRun, Open
  <1>2. CASE Provision(w)
    <2>1. PICK skips \in SUBSET Repositories :
             Goes(w, [q EXCEPT !.pc = "repositories", !.skips = skips, !.failed = Cardinality(skips)])
      BY <1>t, <1>2 DEF Provision
    <2>2. PICK n : n = [q EXCEPT !.pc = "repositories", !.skips = skips,
                                 !.failed = Cardinality(skips)]
      OBVIOUS
    <2>3. n.pc = "repositories"
      BY <2>2 DEF Worker
    <2> QED BY <1>2, <2>1, <2>2, <2>3, Moves DEF Provision, Open
  <1>3. CASE Finish(w) \/ RunFails(w)
    BY <1>3, <1>i, Moves DEF Finish, RunFails, Open, OutsideRepositories
  <1>4. CASE NextRepository(w)
    <2>1. PICK m : m = [q EXCEPT !.pc = "finish"]
      OBVIOUS
    <2>2. \/ Goes(w, Idle) \/ Goes(w, m)
          \/ \E r \in Repositories : Goes(w, [q EXCEPT !.pc = "list", !.repo = r])
      BY <1>t, <1>4, <2>1 DEF NextRepository, Remaining
    <2>3. ASSUME NEW r \in Repositories, Goes(w, [q EXCEPT !.pc = "list", !.repo = r])
          PROVE  worker'[w].pc = "list" /\ \A v \in Workers \ {w} : worker'[v] = worker[v]
      <3>1. PICK n : n = [q EXCEPT !.pc = "list", !.repo = r]
        OBVIOUS
      <3>2. n.pc = "list"
        BY <3>1 DEF Worker
      <3> QED BY <2>3, <3>1, <3>2, Moves
    <2>4. m.pc = "finish"
      BY <2>1 DEF Worker
    <2> QED BY <1>4, <1>i, <2>2, <2>3, <2>4, Moves DEF NextRepository, Open
  <1>5. CASE ListArtifacts(w)
    <2>1. PICK n : n = [q EXCEPT !.pc = "artifacts", !.page = PageSize(q), !.at = 0, !.pages = @ + 1]
      OBVIOUS
    <2>2. n.pc = "artifacts"
      BY <2>1 DEF Worker
    <2>3. Leave(w, TRUE) \/ Leave(w, FALSE) \/ Goes(w, n)
      BY <1>t, <1>5, <2>1 DEF ListArtifacts
    <2> QED BY <1>5, <1>l, <2>2, <2>3, Moves DEF ListArtifacts, Open
  <1>6. CASE NextArtifact(w)
    <2>1. PICK n : n = [q EXCEPT !.pc = "check", !.artifact = Source[q.repo][From(q) + q.at + 1]]
      OBVIOUS
    <2>2. PICK m : m = [q EXCEPT !.pc = "list", !.page = 0, !.at = 0, !.offset = @ + q.page]
      OBVIOUS
    <2>3. n.pc = "check" /\ m.pc = "list"
      BY <2>1, <2>2 DEF Worker
    <2>4. Leave(w, TRUE) \/ Leave(w, FALSE) \/ Goes(w, n) \/ Goes(w, m)
      BY <1>t, <1>6, <2>1, <2>2 DEF NextArtifact
    <2> QED BY <1>6, <1>l, <2>3, <2>4, Moves DEF NextArtifact, Open
  <1>7. CASE RepositoryFails(w)
    BY <1>7, <1>l DEF RepositoryFails, Open, InRepository, InTransfer
  <1>8. CASE UpdateProgress(w)
    <2>1. PICK n : n = [q EXCEPT !.pc = "artifacts", !.at = @ + 1, !.artifact = None]
      OBVIOUS
    <2>2. n.pc = "artifacts"
      BY <2>1 DEF Worker
    <2> QED BY <1>t, <1>8, <2>1, <2>2, Moves DEF UpdateProgress, Open
  <1> QED BY <1>1, <1>2, <1>3, <1>4, <1>5, <1>6, <1>7, <1>8

LEMMA ItemEnds ==
  ASSUME MigrationInv, NEW w \in Workers, SkipItem(w) \/ FailItem(w)
  PROVE  /\ worker'[w].pc = "report"
         /\ \A v \in Workers \ {w} : worker'[v] = worker[v]
         /\ \E status : items' = [items EXCEPT ![worker[w].artifact] = status]
  <1>t. PICK q \in Worker : q = worker[w]
    BY DEF MigrationInv, TypeOK
  <1>1. PICK n : n = [q EXCEPT !.pc = "report", !.skipped = @ + 1, !.body = None]
    OBVIOUS
  <1>2. PICK m : m = [q EXCEPT !.pc = "report", !.failed = @ + 1, !.body = None]
    OBVIOUS
  <1>3. n.pc = "report" /\ m.pc = "report"
    BY <1>1, <1>2 DEF Worker
  <1>4. Goes(w, n) \/ Goes(w, m)
    BY <1>t, <1>1, <1>2 DEF SkipItem, FailItem
  <1> QED BY <1>3, <1>4, Moves DEF SkipItem, FailItem

(* What a step of worker w does to the items: nothing, or it takes up or   *)
(* settles the item of its artifact.                                       *)
LEMMA ItemsOfStep ==
  ASSUME MigrationInv, NEW w \in Workers, WorkerStep(w)
  PROVE  /\ worker[w].pc # "idle"
         /\ \A v \in Workers \ {w} : worker'[v] = worker[v]
         /\ \/ UNCHANGED items /\ (worker'[w].pc \in Open =>
                  worker[w].pc \in Open /\ worker'[w].artifact = worker[w].artifact)
            \/ /\ worker[w].pc = "check" /\ items[worker[w].artifact] # "completed"
               /\ items' = [items EXCEPT ![worker[w].artifact] = AddedStatus(worker[w].artifact)]
               /\ worker'[w].artifact = worker[w].artifact
            \/ /\ worker[w].pc \in Open /\ worker'[w].pc = "report"
               /\ \E status : items' = [items EXCEPT ![worker[w].artifact] = status]
  <1>t. PICK q \in Worker : q = worker[w]
    BY DEF MigrationInv, TypeOK
  <1>1. CASE \/ BeginRun(w) \/ Provision(w) \/ Finish(w) \/ RunFails(w) \/ NextRepository(w)
             \/ ListArtifacts(w) \/ NextArtifact(w) \/ RepositoryFails(w) \/ UpdateProgress(w)
    BY <1>1, OutsideStaysOutside
  <1>2. CASE CheckArtifact(w)
    <2>1. PICK n : n = [q EXCEPT !.pc = "artifacts", !.at = @ + 1, !.artifact = None,
                                 !.skipped = @ + 1]
      OBVIOUS
    <2>2. PICK m : m = [q EXCEPT !.pc = "transfer"]
      OBVIOUS
    <2>3. n.pc = "artifacts" /\ m.pc = "transfer" /\ m.artifact = q.artifact
      BY <2>1, <2>2 DEF Worker
    <2>4. \/ Goes(w, n) /\ UNCHANGED items
          \/ /\ Goes(w, m) /\ items[q.artifact] # "completed"
             /\ items' = [items EXCEPT ![q.artifact] = AddedStatus(q.artifact)]
      BY <1>t, <1>2, <2>1, <2>2 DEF CheckArtifact, Skipped
    <2> QED BY <1>t, <1>2, <2>3, <2>4, Moves DEF CheckArtifact, Open
  <1>3. ASSUME worker[w].pc \in Open, NEW body, NEW pc \in Open, UNCHANGED items,
               \/ Goes(w, [q EXCEPT !.pc = pc]) \/ Goes(w, [q EXCEPT !.pc = pc, !.body = body])
        PROVE  worker'[w].artifact = worker[w].artifact
               /\ \A v \in Workers \ {w} : worker'[v] = worker[v]
    <2>1. PICK n : n = [q EXCEPT !.pc = pc]
      OBVIOUS
    <2>2. PICK m : m = [q EXCEPT !.pc = pc, !.body = body]
      OBVIOUS
    <2>3. n.artifact = q.artifact /\ m.artifact = q.artifact
      BY <2>1, <2>2 DEF Worker
    <2> QED BY <1>t, <1>3, <2>1, <2>2, <2>3, Moves
  <1>4. CASE Transfer(w)
    <2>1. worker[w].pc \in Open
      BY <1>4 DEF Transfer, Open
    <2>2. \/ SkipItem(w) \/ FailItem(w)
          \/ UNCHANGED items /\ \E body : Goes(w, [q EXCEPT !.pc = "store", !.body = body])
      BY <1>t, <1>4 DEF Transfer
    <2> QED BY <1>3, <2>1, <2>2, ItemEnds DEF Open
  <1>5. CASE StoreContent(w) \/ InsertRow(w)
    <2>1. worker[w].pc \in Open
      BY <1>5 DEF StoreContent, InsertRow, Open
    <2>2. \/ SkipItem(w) \/ FailItem(w)
          \/ UNCHANGED items /\ \E pc \in {"insert", "finalize"} : Goes(w, [q EXCEPT !.pc = pc])
      BY <1>t, <1>5 DEF StoreContent, InsertRow, AfterFailedInsert
    <2> QED BY <1>3, <2>1, <2>2, ItemEnds DEF Open
  <1>6. CASE FinalizeTransfer(w)
    <2>1. worker[w].pc \in Open
      BY <1>6 DEF FinalizeTransfer, Open
    <2>2. PICK n : n = [q EXCEPT !.pc = "report", !.body = None, !.completed = @ + 1]
      OBVIOUS
    <2>3. n.pc = "report"
      BY <2>2 DEF Worker
    <2>4. \/ FailItem(w)
          \/ items' = [items EXCEPT ![worker[w].artifact] = "completed"] /\ Goes(w, n)
      BY <1>t, <1>6, <2>2 DEF FinalizeTransfer
    <2> QED BY <2>1, <2>3, <2>4, ItemEnds, Moves DEF Open
  <1> QED BY <1>1, <1>2, <1>4, <1>5, <1>6 DEF WorkerStep

LEMMA NoItemsOutsideRuns ==
  ASSUME MigrationInv, [Next]_vars, ~(\E w \in Workers : WorkerStep(w))
  PROVE  /\ UNCHANGED items
         /\ \A w \in Workers : worker'[w].pc \in {"idle", "begin"} \/ worker'[w] = worker[w]
  <1>1. ASSUME NEW w \in Workers, StartMigration(w) \/ ResumeMigration(w)
        PROVE  /\ UNCHANGED items
               /\ \A v \in Workers : worker'[v].pc = "begin" \/ worker'[v] = worker[v]
    BY <1>1 DEF StartMigration, ResumeMigration, Spawn, LoseSpawn, Goes, Idle, MigrationInv, TypeOK
  <1>2. CASE Crash
    BY <1>2 DEF Crash, Idle
  <1>3. CASE \/ PauseMigration \/ CancelMigration \/ RunAssessment \/ FinishAssessment
             \/ UNCHANGED vars
    BY <1>3 DEF PauseMigration, CancelMigration, RunAssessment, FinishAssessment, vars
  <1> QED BY <1>1, <1>2, <1>3 DEF Next

LEMMA OpenStep ==
  ASSUME MigrationInv, MigrationInv', RunsDoNotOverlap, OpenItems, [Next]_vars
  PROVE  /\ OpenItems'
         /\ \A a \in Artifacts : items[a] = "completed" => items'[a] = "completed"
  <1>t. /\ items \in [Artifacts -> {"absent", "pending", "completed", "failed", "skipped"}]
        /\ \A w \in Workers : worker[w].pc \in InTransfer => worker[w].artifact \in Artifacts
        /\ \A w \in Workers : worker'[w].pc \in InTransfer => worker'[w].artifact \in Artifacts
    BY DEF MigrationInv, TypeOK, WorkerOK
  <1>1. ASSUME NEW w \in Workers, WorkerStep(w)
        PROVE  /\ OpenItems'
               /\ \A a \in Artifacts : items[a] = "completed" => items'[a] = "completed"
    <2>1. \A v \in Workers \ {w} : worker'[v].pc = "idle"
      BY <1>1, ItemsOfStep DEF RunsDoNotOverlap
    <2>2. CASE UNCHANGED items
      BY <1>1, <2>1, <2>2, ItemsOfStep DEF OpenItems, Open
    <2>3. CASE items' # items
      <3>1. worker[w].artifact \in Artifacts /\ items[worker[w].artifact] # "completed"
        BY <1>t, <1>1, <2>3, ItemsOfStep DEF OpenItems, Open, InTransfer
      <3>2. \E status : items' = [items EXCEPT ![worker[w].artifact] = status]
        BY <1>1, <2>3, ItemsOfStep
      <3>3. worker'[w].pc \in Open => items'[worker'[w].artifact] # "completed"
        BY <1>t, <1>1, <2>3, <3>1, ItemsOfStep DEF Open, AddedStatus
      <3> QED BY <1>t, <2>1, <3>1, <3>2, <3>3 DEF OpenItems, Open
    <2> QED BY <2>2, <2>3
  <1>2. CASE ~(\E w \in Workers : WorkerStep(w))
    BY <1>2, NoItemsOutsideRuns DEF OpenItems, Open
  <1> QED BY <1>1, <1>2

(* What is completed is not handled again as long as the runs of a job do  *)
(* not overlap: the check at the head of the transfer reads the status     *)
(* that the run itself is the only one to change (transfer_artifact).      *)
THEOREM LoneRunsKeepCompleted == Spec /\ []RunsDoNotOverlap => CompletedItemsStay
  <1>1. Init => OpenItems
    BY DEF Init, OpenItems, Open, Idle
  <1>2. MigrationInv /\ MigrationInv' /\ RunsDoNotOverlap /\ OpenItems /\ [Next]_vars =>
           /\ OpenItems'
           /\ [\A a \in Artifacts : items[a] = "completed" => items'[a] = "completed"]_vars
    BY OpenStep
  <1> QED BY <1>1, <1>2, InitMigration, StepKeepsMigration, PTL DEF Spec, CompletedItemsStay

-----------------------------------------------------------------------------
(* A job that is never paused has one run.  Before it no worker is spawned *)
(* and nothing is completed; its worker counts what it completes.          *)
Unstarted == job \in {"pending", "assessing", "ready"} \/ assessor = "assessing"
SingleRun ==
    /\ job # "paused"
    /\ assessor = "assessing" => job \in {"assessing", "cancelled"}
    /\ Unstarted => /\ \A w \in Workers : worker[w].pc = "idle"
                    /\ \A a \in Artifacts : items[a] # "completed"
    /\ RunsDoNotOverlap
    /\ \A w \in Workers : worker[w].pc # "idle" =>
          \A a \in Artifacts : items[a] = "completed" => worker[w].completed > 0

(* What a step of a worker does to its count.                              *)
LEMMA CountOfStep ==
  ASSUME MigrationInv, NEW w \in Workers, WorkerStep(w)
  PROVE  \/ worker'[w].pc = "idle"
         \/ /\ worker'[w].completed >= worker[w].completed
            /\ FinalizeTransfer(w) /\ ~FailItem(w) => worker'[w].completed > 0
  <1>t. PICK q \in Worker : q = worker[w]
    BY DEF MigrationInv, TypeOK
  <1>n. q.completed \in Nat
    BY DEF Worker
  <1>i. Idle.pc = "idle"
    BY DEF Idle
  <1>l. ASSUME NEW cut \in BOOLEAN, Leave(w, cut) PROVE worker'[w].completed = q.completed
    <2>1. PICK n : n = [q EXCEPT !.pc = "repositories", !.repo = @ + 1, !.offset = 0,
                          !.page = 0, !.at = 0, !.pages = 0, !.artifact = None, !.body = None,
                          !.cut = @ \/ cut]
      OBVIOUS
    <2>2. n.completed = q.completed
      BY <2>1 DEF Worker
    <2> QED BY <1>t, <1>l, <2>1, <2>2, Moves DEF Leave
  <1>f. ASSUME SkipItem(w) \/ FailItem(w) PROVE worker'[w].completed = q.completed
    <2>1. PICK n : n = [q EXCEPT !.pc = "report", !.skipped = @ + 1, !.body = None]
      OBVIOUS
    <2>2. PICK m : m = [q EXCEPT !.pc = "report", !.failed = @ + 1, !.body = None]
      OBVIOUS
    <2>3. n.completed = q.completed /\ m.completed = q.completed
      BY <2>1, <2>2 DEF Worker
    <2>4. Goes(w, n) \/ Goes(w, m)
      BY <1>t, <1>f, <2>1, <2>2 DEF SkipItem, FailItem
    <2> QED BY <2>3, <2>4, Moves
  <1>1. CASE BeginRun(w) \/ Provision(w) \/ NextRepository(w) \/ Finish(w) \/ RunFails(w)
    <2>3. \/ Goes(w, Idle)
          \/ \E pc : Goes(w, [q EXCEPT !.pc = pc])
          \/ \E pc, m : Goes(w, [q EXCEPT !.pc = pc, !.skipped = m])
          \/ \E pc, m, r : Goes(w, [q EXCEPT !.pc = pc, !.skips = r, !.failed = m])
          \/ \E pc, r : Goes(w, [q EXCEPT !.pc = pc, !.repo = r])
      BY <1>t, <1>1 DEF BeginRun, Provision, NextRepository, Finish, RunFails
    <2>4. ~FinalizeTransfer(w)
      BY <1>1 DEF BeginRun, Provision, NextRepository, Finish, RunFails, FinalizeTransfer,
                  OutsideRepositories
    <2>5. worker'[w].pc = "idle" \/ worker'[w].completed = q.completed
      <3>1. ASSUME NEW pc, Goes(w, [q EXCEPT !.pc = pc])
            PROVE  worker'[w].completed = q.completed
        <4>1. PICK n : n = [q EXCEPT !.pc = pc]
          OBVIOUS
        <4>2. n.completed = q.completed
          BY <4>1 DEF Worker
        <4> QED BY <3>1, <4>1, <4>2, Moves
      <3>2. ASSUME NEW pc, NEW m, Goes(w, [q EXCEPT !.pc = pc, !.skipped = m])
            PROVE  worker'[w].completed = q.completed
        <4>1. PICK n : n = [q EXCEPT !.pc = pc, !.skipped = m]
          OBVIOUS
        <4>2. n.completed = q.completed
          BY <4>1 DEF Worker
        <4> QED BY <3>2, <4>1, <4>2, Moves
      <3>3. ASSUME NEW pc, NEW m, NEW r, Goes(w, [q EXCEPT !.pc = pc, !.skips = r, !.failed = m])
            PROVE  worker'[w].completed = q.completed
        <4>1. PICK n : n = [q EXCEPT !.pc = pc, !.skips = r, !.failed = m]
          OBVIOUS
        <4>2. n.completed = q.completed
          BY <4>1 DEF Worker
        <4> QED BY <3>3, <4>1, <4>2, Moves
      <3>4. ASSUME NEW pc, NEW r, Goes(w, [q EXCEPT !.pc = pc, !.repo = r])
            PROVE  worker'[w].completed = q.completed
        <4>1. PICK n : n = [q EXCEPT !.pc = pc, !.repo = r]
          OBVIOUS
        <4>2. n.completed = q.completed
          BY <4>1 DEF Worker
        <4> QED BY <3>4, <4>1, <4>2, Moves
      <3> QED BY <1>i, <2>3, <3>1, <3>2, <3>3, <3>4, Moves
    <2> QED BY <1>t, <1>n, <2>4, <2>5
  <1>2. CASE ListArtifacts(w) \/ NextArtifact(w) \/ RepositoryFails(w)
    <2>1. PICK n : n = [q EXCEPT !.pc = "artifacts", !.page = PageSize(q), !.at = 0, !.pages = @ + 1]
      OBVIOUS
    <2>2. PICK m : m = [q EXCEPT !.pc = "check", !.artifact = Source[q.repo][From(q) + q.at + 1]]
      OBVIOUS
    <2>3. PICK k : k = [q EXCEPT !.pc = "list", !.page = 0, !.at = 0, !.offset = @ + q.page]
      OBVIOUS
    <2>4. n.completed = q.completed /\ m.completed = q.completed /\ k.completed = q.completed
      BY <2>1, <2>2, <2>3 DEF Worker
    <2>5. Leave(w, TRUE) \/ Leave(w, FALSE) \/ Goes(w, n) \/ Goes(w, m) \/ Goes(w, k)
      BY <1>t, <1>2, <2>1, <2>2, <2>3 DEF ListArtifacts, NextArtifact, RepositoryFails
    <2>6. worker'[w].completed = q.completed
      BY <1>l, <2>4, <2>5, Moves
    <2>7. FinalizeTransfer(w) => RepositoryFails(w)
      BY <1>2 DEF ListArtifacts, NextArtifact, FinalizeTransfer
    <2>8. FinalizeTransfer(w) => worker'[w].pc \in {"report", "idle"}
      <3>1. PICK j : j = [q EXCEPT !.pc = "report", !.body = None, !.completed = @ + 1]
        OBVIOUS
      <3>2. j.pc = "report"
        BY <3>1 DEF Worker
      <3>3. FinalizeTransfer(w) => FailItem(w) \/ Goes(w, j)
        BY <1>t, <3>1 DEF FinalizeTransfer
      <3>4. Goes(w, j) => worker'[w].pc = "report"
        BY <3>2, Moves
      <3>5. FailItem(w) => worker'[w].pc = "report"
        BY ItemEnds
      <3> QED BY <3>3, <3>4, <3>5
    <2>9. RepositoryFails(w) => worker'[w].pc = "repositories"
      <3>1. RepositoryFails(w) => Leave(w, TRUE)
        BY DEF RepositoryFails
      <3>2. Leave(w, TRUE) => \E k1 \in Worker : Goes(w, k1) /\ k1.pc = "repositories"
        BY LeaveMoves DEF MigrationInv
      <3> QED BY <3>1, <3>2, Moves
    <2> QED BY <1>t, <1>n, <2>6, <2>7, <2>8, <2>9
  <1>3. CASE CheckArtifact(w) \/ UpdateProgress(w)
    <2>1. PICK n : n = [q EXCEPT !.pc = "artifacts", !.at = @ + 1, !.artifact = None,
                                 !.skipped = @ + 1]
      OBVIOUS
    <2>2. PICK m : m = [q EXCEPT !.pc = "transfer"]
      OBVIOUS
    <2>3. PICK k : k = [q EXCEPT !.pc = "artifacts", !.at = @ + 1, !.artifact = None]
      OBVIOUS
    <2>4. n.completed = q.completed /\ m.completed = q.completed /\ k.completed = q.completed
      BY <2>1, <2>2, <2>3 DEF Worker
    <2>5. Goes(w, n) \/ Goes(w, m) \/ Goes(w, k)
      BY <1>t, <1>3, <2>1, <2>2, <2>3 DEF CheckArtifact, Skipped, UpdateProgress
    <2>6. ~FinalizeTransfer(w)
      BY <1>3 DEF CheckArtifact, UpdateProgress, FinalizeTransfer
    <2> QED BY <1>t, <1>n, <2>4, <2>5, <2>6, Moves
  <1>4. CASE Transfer(w) \/ StoreContent(w) \/ InsertRow(w)
    <2>2. \/ SkipItem(w) \/ FailItem(w)
          \/ \E pc, body : Goes(w, [q EXCEPT !.pc = pc, !.body = body])
          \/ \E pc : Goes(w, [q EXCEPT !.pc = pc])
      BY <1>t, <1>4 DEF Transfer, StoreContent, InsertRow, AfterFailedInsert
    <2>3. worker'[w].completed = q.completed
      <3>1. ASSUME NEW pc, Goes(w, [q EXCEPT !.pc = pc])
            PROVE  worker'[w].completed = q.completed
        <4>1. PICK n : n = [q EXCEPT !.pc = pc]
          OBVIOUS
        <4>2. n.completed = q.completed
          BY <4>1 DEF Worker
        <4> QED BY <3>1, <4>1, <4>2, Moves
      <3>2. ASSUME NEW pc, NEW body, Goes(w, [q EXCEPT !.pc = pc, !.body = body])
            PROVE  worker'[w].completed = q.completed
        <4>1. PICK n : n = [q EXCEPT !.pc = pc, !.body = body]
          OBVIOUS
        <4>2. n.completed = q.completed
          BY <4>1 DEF Worker
        <4> QED BY <3>2, <4>1, <4>2, Moves
      <3> QED BY <1>f, <2>2, <3>1, <3>2
    <2>4. ~FinalizeTransfer(w)
      BY <1>4 DEF Transfer, StoreContent, InsertRow, FinalizeTransfer
    <2> QED BY <1>t, <1>n, <2>3, <2>4
  <1>5. CASE FinalizeTransfer(w)
    <2>1. PICK n : n = [q EXCEPT !.pc = "report", !.body = None, !.completed = @ + 1]
      OBVIOUS
    <2>2. n.completed = q.completed + 1
      BY <2>1 DEF Worker
    <2>3. FailItem(w) \/ Goes(w, n)
      BY <1>t, <1>5, <2>1 DEF FinalizeTransfer
    <2>4. CASE FailItem(w)
      BY <1>t, <1>n, <1>f, <2>4
    <2>5. CASE ~FailItem(w)
      BY <1>t, <1>n, <2>2, <2>3, <2>5, Moves
    <2> QED BY <2>4, <2>5
  <1> QED BY <1>1, <1>2, <1>3, <1>4, <1>5 DEF WorkerStep

(* Items are completed by finalize_transfer only.                          *)
LEMMA CompletedByFinalize ==
  ASSUME MigrationInv, NEW w \in Workers, WorkerStep(w),
         NEW a \in Artifacts, items'[a] = "completed", items[a] # "completed"
  PROVE  FinalizeTransfer(w) /\ ~FailItem(w)
  <1>t. items \in [Artifacts -> {"absent", "pending", "completed", "failed", "skipped"}]
    BY DEF MigrationInv, TypeOK
  <1>1. ~(SkipItem(w) \/ FailItem(w))
    BY <1>t DEF SkipItem, FailItem
  <1>2. items' # items
    OBVIOUS
  <1>3. ~CheckArtifact(w)
    BY <1>t DEF CheckArtifact, AddedStatus
  <1> QED
    BY <1>1, <1>2, <1>3
    DEF WorkerStep, BeginRun, Provision, NextRepository, Finish, RunFails, ListArtifacts,
        NextArtifact, RepositoryFails, Transfer, StoreContent, InsertRow, AfterFailedInsert,
        UpdateProgress

LEMMA SingleRunStep ==
  ASSUME MigrationInv, MigrationInv', SingleRun, [Next /\ ~PauseMigration]_vars
  PROVE  SingleRun'
  <1>n. \A w \in Workers : worker[w].completed \in Nat /\ worker'[w].completed \in Nat
    BY DEF MigrationInv, TypeOK, Worker
  <1>1. ASSUME NEW w \in Workers, WorkerStep(w) PROVE SingleRun'
    <2>1. worker[w].pc # "idle" /\ \A v \in Workers \ {w} : worker'[v] = worker[v]
      BY <1>1, ItemsOfStep
    <2>2. ~Unstarted /\ \A v \in Workers \ {w} : worker'[v].pc = "idle"
      BY <2>1 DEF SingleRun, RunsDoNotOverlap
    <2>3. assessor' = assessor /\ job' \in {job, "running", "completed", "failed"}
      BY <1>1
      DEF WorkerStep, BeginRun, Provision, NextRepository, Finish, FinalStatus, RunFails, Record,
          StatusAfterError, ListArtifacts, NextArtifact, RepositoryFails, CheckArtifact, Transfer,
          StoreContent, InsertRow, FinalizeTransfer, UpdateProgress
    <2>4. ASSUME worker'[w].pc # "idle", NEW a \in Artifacts, items'[a] = "completed"
          PROVE  worker'[w].completed > 0
      <3>1. CASE items[a] = "completed"
        BY <1>1, <1>n, <2>1, <2>4, <3>1, CountOfStep DEF SingleRun
      <3>2. CASE items[a] # "completed"
        BY <1>1, <2>4, <3>2, CompletedByFinalize, CountOfStep
      <3> QED BY <3>1, <3>2
    <2> QED BY <2>2, <2>3, <2>4 DEF SingleRun, Unstarted, RunsDoNotOverlap
  <1>2. ASSUME NEW w \in Workers, StartMigration(w) \/ ResumeMigration(w) PROVE SingleRun'
    <2>1. StartMigration(w) /\ Unstarted
      BY <1>2 DEF SingleRun, ResumeMigration, StartMigration, Unstarted
    <2>2. \A v \in Workers : worker[v].pc = "idle"
      BY <2>1 DEF SingleRun
    <2>3. assessor' # "assessing" /\ job' = "running" /\ UNCHANGED items
      BY <2>1 DEF StartMigration, SingleRun
    <2>4. \A v \in Workers \ {w} : worker'[v] = worker[v]
      BY <2>1 DEF StartMigration, Spawn, LoseSpawn, Goes, MigrationInv, TypeOK
    <2> QED BY <2>1, <2>2, <2>3, <2>4 DEF SingleRun, Unstarted, RunsDoNotOverlap
  <1>3. CASE CancelMigration \/ RunAssessment \/ FinishAssessment \/ UNCHANGED vars
    <2>1. UNCHANGED <<worker, items>>
      BY <1>3 DEF CancelMigration, RunAssessment, FinishAssessment, vars
    <2>2. /\ job' # "paused" /\ (assessor' = "assessing" => job' \in {"assessing", "cancelled"})
          /\ Unstarted' => Unstarted
      BY <1>3 DEF CancelMigration, RunAssessment, FinishAssessment, Record, vars, SingleRun, Unstarted
    <2> QED BY <2>1, <2>2 DEF SingleRun, RunsDoNotOverlap
  <1>4. CASE Crash
    BY <1>4 DEF Crash, SingleRun, Unstarted, RunsDoNotOverlap, Idle
  <1> QED BY <1>1, <1>2, <1>3, <1>4 DEF Next

(* A job that is never paused ends as failed only when all its items       *)
(* failed (determine_final_status), whatever fails, is cancelled or stops: *)
(* it is the run after a resume that forgets what the one before counted.  *)
THEOREM UnpausedJobsFailWhole == Spec /\ [][~PauseMigration]_vars => FailedMeansAllFailed
  <1>1. Init => SingleRun
    BY DEF Init, SingleRun, RunsDoNotOverlap, Idle
  <1>2. MigrationInv /\ MigrationInv' /\ SingleRun /\ [Next /\ ~PauseMigration]_vars => SingleRun'
    BY SingleRunStep
  <1>3. [Next]_vars /\ [~PauseMigration]_vars => [Next /\ ~PauseMigration]_vars
    OBVIOUS
  <1>4. MigrationInv /\ SingleRun =>
           [\A w \in Workers : Finish(w) /\ job' = "failed" =>
               \A a \in Artifacts : items[a] # "completed"]_vars
    <2> SUFFICES ASSUME MigrationInv, SingleRun, NEW w \in Workers, Finish(w), job' = "failed",
                        NEW a \in Artifacts
                 PROVE  items[a] # "completed"
      OBVIOUS
    <2>1. worker[w].completed = 0 /\ worker[w].pc # "idle"
      BY DEF Finish, FinalStatus
    <2> QED BY <2>1 DEF SingleRun
  <1> QED
    BY <1>1, <1>2, <1>3, <1>4, InitMigration, StepKeepsMigration, PTL DEF Spec, FailedMeansAllFailed
-----------------------------------------------------------------------------
(* A cancellation that every run of the job will notice: no assessment is  *)
(* under way, and each run still has a repository to look at the status    *)
(* before.                                                                 *)
Ahead(q) == \E r \in Repositories : r >= q.repo /\ r \notin q.skips
Later(q) == \E r \in Repositories : r > q.repo /\ r \notin q.skips
WillNotice(q) ==
    \/ q.pc = "idle"
    \/ q.pc = "repositories" /\ Ahead(q)
    \/ q.pc \in InRepository /\ Later(q)

CancellationNoticed ==
    job = "cancelled" /\ assessor = "idle" /\ \A w \in Workers : WillNotice(worker[w])

(* Where a step inside a repository leads.                                 *)
Onward(q, n) == n.pc \in InRepository /\ n.repo = q.repo /\ n.skips = q.skips

LEMMA LeavingGoes ==
  ASSUME MigrationInv, NEW w \in Workers, NEW cut, Leave(w, cut)
  PROVE  /\ worker'[w].pc = "repositories" /\ worker'[w].repo = worker[w].repo + 1
         /\ worker'[w].skips = worker[w].skips
  <1>1. PICK q \in Worker : q = worker[w]
    BY DEF MigrationInv, TypeOK
  <1>2. PICK n : n = [q EXCEPT !.pc = "repositories", !.repo = @ + 1, !.offset = 0, !.page = 0,
                               !.at = 0, !.pages = 0, !.artifact = None, !.body = None,
                               !.cut = @ \/ cut]
    OBVIOUS
  <1>3. n.pc = "repositories" /\ n.repo = q.repo + 1 /\ n.skips = q.skips
    BY <1>2 DEF Worker
  <1>4. worker'[w] = n
    BY <1>1, <1>2, Moves DEF Leave
  <1> QED BY <1>1, <1>3, <1>4

LEMMA InsideRepositories ==
  ASSUME MigrationInv, NEW w \in Workers, worker[w].pc \in InRepository, WorkerStep(w)
  PROVE  /\ Leave(w, TRUE) \/ Leave(w, FALSE) \/ Onward(worker[w], worker'[w])
         /\ \A v \in Workers \ {w} : worker'[v] = worker[v]
         /\ UNCHANGED <<job, assessor>>
  <1>t. worker[w] \in Worker
    BY DEF MigrationInv, TypeOK
  <1> DEFINE q == worker[w]
             Goal == Leave(w, TRUE) \/ Leave(w, FALSE) \/ Onward(q, worker'[w])
  <1>m. \A n : Goes(w, n) => worker'[w] = n
    BY Moves
  <1>i. {"list", "artifacts", "check", "transfer", "store", "insert", "finalize", "report"}
          \subseteq InRepository
    BY DEF InRepository, InTransfer
  <1>1. ASSUME ListArtifacts(w) PROVE Goal
    <2>1. PICK n : n = [q EXCEPT !.pc = "artifacts", !.page = PageSize(q), !.at = 0,
                                 !.pages = @ + 1]
      OBVIOUS
    <2>2. Onward(q, n)
      BY <1>t, <1>i, <2>1 DEF Worker, Onward
    <2>3. Leave(w, TRUE) \/ Leave(w, FALSE) \/ Goes(w, n)
      BY <1>1, <2>1 DEF ListArtifacts
    <2> QED BY <1>m, <2>2, <2>3
  <1>2. ASSUME NextArtifact(w) PROVE Goal
    <2>1. PICK n : n = [q EXCEPT !.pc = "check",
                                 !.artifact = Source[q.repo][From(q) + q.at + 1]]
      OBVIOUS
    <2>2. PICK m : m = [q EXCEPT !.pc = "list", !.page = 0, !.at = 0, !.offset = @ + q.page]
      OBVIOUS
    <2>3. Onward(q, n) /\ Onward(q, m)
      BY <1>t, <1>i, <2>1, <2>2 DEF Worker, Onward
    <2>4. Leave(w, TRUE) \/ Leave(w, FALSE) \/ Goes(w, n) \/ Goes(w, m)
      BY <1>2, <2>1, <2>2 DEF NextArtifact
    <2> QED BY <1>m, <2>3, <2>4
  <1>3. ASSUME FailItem(w) \/ SkipItem(w) PROVE Onward(q, worker'[w])
    <2>1. PICK n : n = [q EXCEPT !.pc = "report", !.failed = @ + 1, !.body = None]
      OBVIOUS
    <2>2. PICK m : m = [q EXCEPT !.pc = "report", !.skipped = @ + 1, !.body = None]
      OBVIOUS
    <2>3. Onward(q, n) /\ Onward(q, m)
      BY <1>t, <1>i, <2>1, <2>2 DEF Worker, Onward
    <2>4. Goes(w, n) \/ Goes(w, m)
      BY <1>3, <2>1, <2>2 DEF FailItem, SkipItem
    <2> QED BY <1>m, <2>3, <2>4
  <1>4. ASSUME CheckArtifact(w) PROVE Goal
    <2>1. PICK n : n = [q EXCEPT !.pc = "artifacts", !.at = @ + 1, !.artifact = None,
                                 !.skipped = @ + 1]
      OBVIOUS
    <2>2. PICK m : m = [q EXCEPT !.pc = "transfer"]
      OBVIOUS
    <2>3. Onward(q, n) /\ Onward(q, m)
      BY <1>t, <1>i, <2>1, <2>2 DEF Worker, Onward
    <2>4. Goes(w, n) \/ Goes(w, m)
      BY <1>4, <2>1, <2>2 DEF CheckArtifact, Skipped
    <2> QED BY <1>m, <2>3, <2>4
  <1>5. ASSUME NEW p \in InRepository, NEW body,
               \/ Goes(w, [q EXCEPT !.pc = p])
               \/ Goes(w, [q EXCEPT !.pc = p, !.body = body])
        PROVE  Onward(q, worker'[w])
    <2>1. PICK n : n = [q EXCEPT !.pc = p]
      OBVIOUS
    <2>2. PICK m : m = [q EXCEPT !.pc = p, !.body = body]
      OBVIOUS
    <2>3. Onward(q, n) /\ Onward(q, m)
      BY <1>t, <2>1, <2>2 DEF Worker, Onward
    <2> QED BY <1>m, <1>5, <2>1, <2>2, <2>3
  <1>6. ASSUME Transfer(w) PROVE Goal
    <2>1. \/ FailItem(w) \/ SkipItem(w)
          \/ \E body : Goes(w, [q EXCEPT !.pc = "store", !.body = body])
      BY <1>6 DEF Transfer
    <2> QED BY <1>i, <1>3, <1>5, <2>1
  <1>7. ASSUME StoreContent(w) \/ InsertRow(w) PROVE Goal
    <2>1. \/ FailItem(w)
          \/ Goes(w, [q EXCEPT !.pc = "insert"])
          \/ Goes(w, [q EXCEPT !.pc = "finalize"])
      BY <1>7 DEF StoreContent, InsertRow, AfterFailedInsert
    <2> QED BY <1>i, <1>3, <1>5, <2>1
  <1>8. ASSUME FinalizeTransfer(w) PROVE Goal
    <2>1. PICK n : n = [q EXCEPT !.pc = "report", !.body = None, !.completed = @ + 1]
      OBVIOUS
    <2>2. Onward(q, n)
      BY <1>t, <1>i, <2>1 DEF Worker, Onward
    <2>3. FailItem(w) \/ Goes(w, n)
      BY <1>8, <2>1 DEF FinalizeTransfer
    <2> QED BY <1>m, <1>3, <2>2, <2>3
  <1>9. ASSUME UpdateProgress(w) PROVE Goal
    <2>1. PICK n : n = [q EXCEPT !.pc = "artifacts", !.at = @ + 1, !.artifact = None]
      OBVIOUS
    <2>2. Onward(q, n)
      BY <1>t, <1>i, <2>1 DEF Worker, Onward
    <2> QED BY <1>m, <1>9, <2>1, <2>2 DEF UpdateProgress
  <1>11. \/ ListArtifacts(w) \/ NextArtifact(w) \/ RepositoryFails(w) \/ CheckArtifact(w)
         \/ Transfer(w) \/ StoreContent(w) \/ InsertRow(w) \/ FinalizeTransfer(w)
         \/ UpdateProgress(w)
    BY DEF WorkerStep, BeginRun, Provision, NextRepository, Finish, RunFails, InRepository,
       InTransfer, OutsideRepositories
  <1>12. RepositoryFails(w) => Leave(w, TRUE)
    BY DEF RepositoryFails
  <1>13. Goal
    BY <1>1, <1>2, <1>4, <1>6, <1>7, <1>8, <1>9, <1>11, <1>12
  <1>14. UNCHANGED <<job, assessor>>
    BY <1>11 DEF ListArtifacts, NextArtifact, RepositoryFails, CheckArtifact, Transfer,
       StoreContent, InsertRow, FinalizeTransfer, UpdateProgress
  <1>15. \E n : Goes(w, n)
    BY <1>11 DEF ListArtifacts, NextArtifact, RepositoryFails, CheckArtifact, Transfer,
       StoreContent, InsertRow, FinalizeTransfer, UpdateProgress, Leave, Skipped, SkipItem,
       FailItem, AfterFailedInsert
  <1> QED BY <1>13, <1>14, <1>15, Moves

LEMMA NoticedStep ==
  ASSUME MigrationInv, CancellationNoticed, [Next]_vars, \A w \in Workers : ~RunFails(w)
  PROVE  CancellationNoticed'
  <1>1. CASE \E w \in Workers : WorkerStep(w)
    <2>1. PICK w \in Workers : WorkerStep(w)
      BY <1>1
    <2>t. worker[w] \in Worker
      BY DEF MigrationInv, TypeOK
    <2>2. worker[w].pc \in {"repositories"} \cup InRepository /\ WillNotice(worker[w])
      BY <2>1 DEF CancellationNoticed, WillNotice, WorkerStep, BeginRun, Provision,
         NextRepository, Finish, RunFails, ListArtifacts, NextArtifact, RepositoryFails,
         CheckArtifact, Transfer, StoreContent, InsertRow, FinalizeTransfer, UpdateProgress,
         InRepository, InTransfer
    <2>3. ASSUME WillNotice(worker'[w]), \A v \in Workers \ {w} : worker'[v] = worker[v],
                 UNCHANGED <<job, assessor>>
          PROVE  CancellationNoticed'
      BY <2>3 DEF CancellationNoticed, WillNotice, Ahead, Later
    <2>4. CASE worker[w].pc = "repositories"
      <3>1. NextRepository(w)
        BY <2>1, <2>4 DEF WorkerStep, BeginRun, Provision, NextRepository, Finish, RunFails,
           ListArtifacts, NextArtifact, RepositoryFails, CheckArtifact, Transfer, StoreContent,
           InsertRow, FinalizeTransfer, UpdateProgress, InRepository, InTransfer
      <3>2. Remaining(w) # {}
        BY <2>2, <2>4 DEF WillNotice, Ahead, Remaining, InRepository, InTransfer
      <3>3. Goes(w, Idle) /\ UNCHANGED <<job, assessor>>
        BY <3>1, <3>2 DEF NextRepository, Stopped, CancellationNoticed
      <3>4. worker'[w] = Idle /\ \A v \in Workers \ {w} : worker'[v] = worker[v]
        BY <3>3, Moves
      <3>5. WillNotice(worker'[w])
        BY <3>4 DEF WillNotice, Idle
      <3> QED BY <2>3, <3>3, <3>4, <3>5
    <2>5. CASE worker[w].pc \in InRepository
      <3>1. Later(worker[w])
        BY <2>2, <2>5 DEF WillNotice, InRepository, InTransfer
      <3>2. ASSUME NEW cut, Leave(w, cut) PROVE WillNotice(worker'[w])
        <4>1. PICK r \in Repositories : r > worker[w].repo /\ r \notin worker[w].skips
          BY <3>1 DEF Later
        <4>2. r \in Nat /\ worker[w].repo \in Nat
          BY <2>t, RepositoriesFinite DEF Worker
        <4>3. r >= worker[w].repo + 1
          BY <4>1, <4>2
        <4> QED BY <3>2, <4>1, <4>3, LeavingGoes DEF WillNotice, Ahead
      <3>3. Onward(worker[w], worker'[w]) => WillNotice(worker'[w])
        BY <3>1 DEF Onward, WillNotice, Later
      <3>4. /\ Leave(w, TRUE) \/ Leave(w, FALSE) \/ Onward(worker[w], worker'[w])
            /\ \A v \in Workers \ {w} : worker'[v] = worker[v]
            /\ UNCHANGED <<job, assessor>>
        BY <2>1, <2>5, InsideRepositories
      <3> QED BY <2>3, <3>2, <3>3, <3>4
    <2> QED BY <2>2, <2>4, <2>5
  <1>2. CASE Crash
    BY <1>2 DEF Crash, CancellationNoticed, WillNotice, Idle
  <1>3. CASE UNCHANGED vars
    BY <1>3 DEF vars, CancellationNoticed, WillNotice, Ahead, Later
  <1>4. CASE \/ PauseMigration \/ CancelMigration \/ RunAssessment \/ FinishAssessment
             \/ \E w \in Workers : StartMigration(w) \/ ResumeMigration(w)
    BY <1>4 DEF CancellationNoticed, PauseMigration, CancelMigration, RunAssessment,
       FinishAssessment, StartMigration, ResumeMigration
  <1> QED BY <1>1, <1>2, <1>3, <1>4 DEF Next

(* "Cancellation is a terminal transition" (cancel_migration) holds of a   *)
(* cancellation that reaches every run before its last repository, while   *)
(* no assessment is under way, but for a run that ends in an error: no     *)
(* handler takes the job up again, and process_job stops without another   *)
(* write to the status.                                                    *)
THEOREM EarlyCancellationsStand ==
  Spec /\ [][\A w \in Workers : ~RunFails(w)]_vars
    => [][CancellationNoticed => CancellationNoticed']_vars
  <1>1. MigrationInv /\ [Next]_vars /\ [\A w \in Workers : ~RunFails(w)]_vars
          => [CancellationNoticed => CancellationNoticed']_vars
    BY NoticedStep
  <1> QED BY <1>1, InitMigration, StepKeepsMigration, PTL DEF Spec
=============================================================================
