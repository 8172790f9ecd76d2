--------------------------- MODULE ArtifactTables ---------------------------
(***************************************************************************)
(* The shared state behind artifact storage: the `artifacts`, `oci_tags`    *)
(* and `oci_manifest_refs` tables, the objects held by the storage         *)
(* backends, and the row locks of open garbage-collection transactions.    *)
(* Every writer (artifact service, OCI registry, lifecycle policies,       *)
(* storage GC) is a module of its own that extends this one; the statement *)
(* each of them sends to Postgres or to a storage backend is one step.     *)
(***************************************************************************)
EXTENDS Naturals, FiniteSets

CONSTANTS
    Repos,       \* repositories
    Location,    \* Location[r]: the (backend, path) that holds r's objects;
                 \* repositories of one cloud backend share a location
    CloudLocations, \* locations whose delete of a missing object succeeds
    References,  \* OCI references (tags); one image per repository
    Names,       \* paths of non-OCI artifacts
    Manifests,   \* storage keys oci-manifests/<digest>
    Packages,    \* storage keys of non-OCI content, derived from its SHA-256
    Children,    \* Children[m]: the child manifests an image index m lists
    Versions,    \* artifact versions
    GcWorkers,   \* concurrent storage-GC runs
    Nil,         \* no key, no version
    MaxFailures  \* bound on the failures (errors and crashes) of a behaviour

Locations == {Location[r] : r \in Repos}
Keys == Manifests \cup Packages
Paths == References \cup Names
RowIds == Repos \X Paths
TagIds == Repos \X References
Objects == Locations \X Keys

ASSUME LocationAssumption == CloudLocations \subseteq Locations
ASSUME ChildrenAssumption == Children \in [Manifests -> SUBSET Manifests]
ASSUME NilAssumption == Nil \notin Keys /\ Nil \notin Versions
ASSUME FailuresAssumption == MaxFailures \in Nat

VARIABLES
    artifacts,    \* artifacts[<<r, p>>]: the row UNIQUE(repository_id, path)
    tags,         \* tags[<<r, t>>]: oci_tags.manifest_digest, or Nil
    manifestRefs, \* oci_manifest_refs: {<<repo, parent, child>>}
    blobs,        \* objects present in storage: {<<location, key>>}
    rowLocks,     \* rowLocks[w]: rows w holds FOR UPDATE
    failures      \* failures so far

tableVars == <<artifacts, tags, manifestRefs, blobs, rowLocks, failures>>

Row == [state : {"live", "deleted"}, key : Keys, version : Versions \cup {Nil}]
AbsentRow == [state |-> "absent", key |-> Nil, version |-> Nil]

TablesTypeOK ==
    /\ artifacts \in [RowIds -> Row \cup {AbsentRow}]
    /\ tags \in [TagIds -> Manifests \cup {Nil}]
    /\ manifestRefs \subseteq Repos \X Manifests \X Manifests
    /\ blobs \subseteq Objects
    /\ rowLocks \in [GcWorkers -> SUBSET RowIds]
    /\ failures \in 0..MaxFailures

TablesInit ==
    /\ artifacts = [id \in RowIds |-> AbsentRow]
    /\ tags = [id \in TagIds |-> Nil]
    /\ manifestRefs = {}
    /\ blobs = {}
    /\ rowLocks = [w \in GcWorkers |-> {}]
    /\ failures = 0

-----------------------------------------------------------------------------
IsLive(id) == artifacts[id].state = "live"
IsDeleted(id) == artifacts[id].state = "deleted"
LocationOf(id) == Location[id[1]]
ObjectOf(id) == <<LocationOf(id), artifacts[id].key>>

(* A statement that writes an existing row waits for its row lock.  An     *)
(* INSERT of a row that does not exist waits for nobody.                   *)
Unlocked(id) == \A w \in GcWorkers : id \notin rowLocks[w]

(* Mutant of UpsertArtifact: the upsert does not wait for the row lock.    *)
UpsertIgnoresLock(id, key, version) ==
    artifacts' = [artifacts EXCEPT ![id] =
                    [state |-> "live", key |-> key, version |-> version]]

(* INSERT ... ON CONFLICT (repository_id, path) DO UPDATE SET ...,         *)
(* is_deleted = false: what every upload path ends with.                   *)
UpsertArtifact(id, key, version) ==
    /\ Unlocked(id)
    /\ artifacts' = [artifacts EXCEPT ![id] =
                        [state |-> "live", key |-> key, version |-> version]]

(* UPDATE artifacts SET is_deleted = true for the existing rows of S.      *)
SoftDelete(S) ==
    /\ \A id \in S : Unlocked(id)
    /\ artifacts' = [id \in RowIds |->
                        IF id \in S /\ IsLive(id)
                        THEN [artifacts[id] EXCEPT !.state = "deleted"]
                        ELSE artifacts[id]]

(* Mutant of StorageExists: the content is looked for at every location.   *)
ExistsSomewhere(location, key) == \E l \in Locations : <<l, key>> \in blobs

StorageExists(location, key) == <<location, key>> \in blobs
StoragePut(location, key) == blobs' = blobs \cup {<<location, key>>}

(* A failure spends one of the MaxFailures a behaviour may contain.        *)
Fail == failures < MaxFailures /\ failures' = failures + 1

-----------------------------------------------------------------------------
(* The orphan predicate of the storage GC, evaluated on one soft-deleted   *)
(* row.  Its third guard (oci_blobs) only ever concerns oci-blobs/ keys,   *)
(* which no writer of an artifacts row produces, so it is always true.     *)
SharedWithLiveRow(key) == \E id \in RowIds : IsLive(id) /\ artifacts[id].key = key

TaggedManifest(location, key) ==
    \E id \in TagIds : LocationOf(id) = location /\ tags[id] = key

ChildOfTaggedIndex(location, key) ==
    \E r \in Repos, parent \in Manifests, t \in References :
        /\ Location[r] = location
        /\ <<r, parent, key>> \in manifestRefs
        /\ tags[<<r, t>>] = parent

(* Mutants of Referenced: a guard of the predicate is missing.             *)
ReferencedButByTags(location, key) ==
    SharedWithLiveRow(key) \/ ChildOfTaggedIndex(location, key)

ReferencedButByIndexes(location, key) ==
    SharedWithLiveRow(key) \/ TaggedManifest(location, key)

Referenced(location, key) ==
    \/ SharedWithLiveRow(key)
    \/ TaggedManifest(location, key)
    \/ ChildOfTaggedIndex(location, key)

OrphanPredicate(id) ==
    IsDeleted(id) /\ ~Referenced(LocationOf(id), artifacts[id].key)
=============================================================================
