--------------------------- MODULE ArtifactStorage ---------------------------
(***************************************************************************)
(* Artifact storage as a whole: uploads, OCI pushes and deletes, lifecycle *)
(* policies and garbage collection, interleaved statement by statement     *)
(* over the same tables and the same objects.                              *)
(*                                                                         *)
(* Two history variables make the guarantee of the collector's row locks   *)
(* precise.  overlap[w] says that a push or upload which counts on the     *)
(* object of run w's open transaction was in progress at some point since  *)
(* the re-check; raced holds the objects deleted under such an overlap and *)
(* not stored again since.                                                 *)
(***************************************************************************)
EXTENDS ArtifactService, OciRegistry, LifecyclePolicy, StorageGc

VARIABLES overlap, raced

historyVars == <<overlap, raced>>
vars == <<tableVars, upload, oci, policyRun, gc, historyVars>>

InProgress(object) ==
    \/ \E u \in Uploaders : UploadHolds(u, object[1], object[2])
    \/ \E c \in OciClients : PushHolds(c, object[1], object[2])

OverlappedObjects ==
    {gc[w].object : w \in {v \in GcWorkers : gc[v].pc = "deleteObject" /\ overlap[v]}}

RecordHistory ==
    /\ overlap' = [w \in GcWorkers |->
                     /\ gc'[w].pc = "deleteObject"
                     /\ overlap[w] \/ InProgress(gc[w].object)']
    /\ raced' = (raced \cup (OverlappedObjects \cap blobs)) \ blobs'

Init ==
    /\ TablesInit
    /\ UploadInit
    /\ OciInit
    /\ PolicyInit
    /\ GcInit
    /\ overlap = [w \in GcWorkers |-> FALSE]
    /\ raced = {}

(* A server starts: run_backfill returns before any request is served and  *)
(* before the schedulers start.                                            *)
Startup ==
    /\ \A u \in Uploaders : upload[u].pc = "idle"
    /\ \A c \in OciClients : oci[c].pc = "idle"
    /\ \A w \in GcWorkers : gc[w].pc = "idle"
    /\ policyRun = {}
    /\ Backfill

Next ==
    /\ \/ ArtifactServiceNext /\ UNCHANGED <<oci, policyRun, gc>>
       \/ OciNext /\ UNCHANGED <<upload, policyRun, gc>>
       \/ PolicyNext /\ UNCHANGED <<upload, oci, gc>>
       \/ GcNext /\ UNCHANGED <<upload, oci, policyRun>>
       \/ Startup /\ UNCHANGED <<upload, policyRun, gc>>
    /\ RecordHistory

Spec == Init /\ [][Next]_vars

(* The scheduler starts garbage collection on a cron schedule and a run    *)
(* goes through its candidates to the end; the policy loop does the same.  *)
Fairness ==
    /\ \A w \in GcWorkers :
          WF_vars(GcStep(w) /\ UNCHANGED <<upload, oci, policyRun>> /\ RecordHistory)
    /\ WF_vars((ExecutePolicy \/ CascadeTags) /\ UNCHANGED <<upload, oci, gc>> /\ RecordHistory)

FairSpec == Spec /\ Fairness

-----------------------------------------------------------------------------
(* Every variable has its type.                                            *)
TypeOK ==
    /\ TablesTypeOK
    /\ UploadTypeOK
    /\ OciTypeOK
    /\ PolicyTypeOK
    /\ GcTypeOK
    /\ overlap \in [GcWorkers -> BOOLEAN]
    /\ raced \subseteq Objects

(* A live artifact row can be downloaded: its object is in storage, unless *)
(* a garbage collection deleted the object while an upload of the same     *)
(* content was in progress.  Every other interleaving of uploads, pushes,  *)
(* deletes, policies and collections, and every crash, keeps the object.   *)
LiveRowsHaveContent ==
    \A id \in RowIds : IsLive(id) => ObjectOf(id) \in blobs \cup raced

(* The same for pulls: a tagged manifest is in storage.                    *)
TaggedManifestsHaveContent ==
    \A id \in TagIds : tags[id] # Nil => <<LocationOf(id), tags[id]>> \in blobs \cup raced

(* The per-architecture children of an image index that is still tagged    *)
(* survive collection, although no tag names them: a run deletes such a    *)
(* child only if a push that lists it overlapped the run's transaction.    *)
GcSparesIndexChildren ==
    [][\A w \in GcWorkers :
          (gc[w].pc = "deleteObject" /\ gc'[w].pc = "deleteRows" /\ ~overlap[w])
             => ~ChildOfTaggedIndex(gc[w].object[1], gc[w].object[2])]_vars

(* A hard delete only removes rows that were soft-deleted: a row revived   *)
(* by an upload while a collection is under way survives the collection.   *)
OnlySoftDeletedRowsVanish ==
    [][\A id \in RowIds : (artifacts[id].state # "absent" /\ artifacts'[id].state = "absent")
          => IsDeleted(id)]_vars

(* Row locks exclude: no two runs hold the same row, and a run that will   *)
(* delete an object holds all its rows.                                    *)
LocksExclude ==
    /\ \A v, w \in GcWorkers : v # w => rowLocks[v] \cap rowLocks[w] = {}
    /\ \A w \in GcWorkers : \A id \in rowLocks[w] :
          gc[w].pc \in {"deleteObject", "deleteRows"} => IsDeleted(id)

(* Artifact storage implements the registry of leases: live rows and tags  *)
(* are its names, and what an upload or a push that has stored or found    *)
(* its content counts on is leased.  An object deleted under an overlap    *)
(* still counts as held: it is what LiveRowsHaveContent excepts.           *)
BoundNames == ({"row"} \X RowIds) \cup ({"tag"} \X TagIds)

BoundObject(n) ==
    IF n[1] = "row"
    THEN IF IsLive(n[2]) THEN ObjectOf(n[2]) ELSE NoObject
    ELSE IF tags[n[2]] # Nil THEN <<LocationOf(n[2]), tags[n[2]]>> ELSE NoObject

Bindings == [n \in BoundNames |-> BoundObject(n)]
HeldObjects == blobs \cup raced
ObjectsInProgress == {object \in Objects : InProgress(object)}

Registry == INSTANCE LeasedObjects WITH
    Names <- BoundNames, None <- NoObject,
    names <- Bindings, held <- HeldObjects, leased <- ObjectsInProgress

ImplementsLeases == Registry!Spec

-----------------------------------------------------------------------------
(* What comments and messages of the code say, and the interleavings below *)
(* the statement level refute.                                             *)

(* A live artifact row always has its object: "any writer trying to ...    *)
(* insert a new reference is blocked behind the lock" of the collector.    *)
NoContentLoss == \A id \in RowIds : IsLive(id) => ObjectOf(id) \in blobs

(* A run hard-deletes the records whose physical file it deleted: records  *)
(* of the same key at another location keep until that file is deleted.    *)
RecordsFollowTheirObject ==
    [][\A id \in RowIds : (artifacts[id].state # "absent" /\ artifacts'[id].state = "absent")
          => \E w \in GcWorkers : gc[w].object = ObjectOf(id)]_vars

(* "Artifact version already exists and is immutable": an upload does not  *)
(* replace the content of a live row of the same version.                  *)
VersionsAreImmutable ==
    [][\A id \in Repos \X Names :
          (IsLive(id) /\ artifacts'[id].state = "live"
             /\ artifacts'[id].version = artifacts[id].version)
          => artifacts'[id].key = artifacts[id].key]_vars

-----------------------------------------------------------------------------
(* An orphaned row is collected: no row stays orphaned forever.            *)
OrphansAreCollected == \A id \in RowIds : []<>~OrphanPredicate(id)

(* A tag whose row a policy soft-deleted does not protect its manifest     *)
(* forever, even when a run crashed between the soft delete and the        *)
(* cascade.                                                                *)
StaleTagsAreRemoved == \A id \in TagIds : []<>~StaleTag(id)
=============================================================================
