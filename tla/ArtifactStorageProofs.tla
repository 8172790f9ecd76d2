----------------------- MODULE ArtifactStorageProofs -----------------------
(***************************************************************************)
(* Proofs about ArtifactStorage for every set of repositories, keys,       *)
(* uploads, OCI clients and GC runs.                                       *)
(***************************************************************************)
EXTENDS ArtifactStorage, TLAPS

LEMMA FailType ==
    ASSUME TablesTypeOK, Fail
    PROVE  failures' \in 0..MaxFailures
  BY FailuresAssumption DEF TablesTypeOK, Fail

LEMMA RowIdFacts ==
    /\ \A id \in TagIds : id \in RowIds /\ id[1] \in Repos /\ LocationOf(id) \in Locations
    /\ \A id \in RowIds : id[1] \in Repos /\ LocationOf(id) \in Locations
    /\ \A id \in Repos \X Names : id \in RowIds /\ LocationOf(id) \in Locations
  BY DEF TagIds, RowIds, Paths, LocationOf, Locations

(* UPDATE ... SET is_deleted keeps every row a row.                        *)
LEMMA SoftDeleteType ==
    ASSUME TablesTypeOK, NEW S, SoftDelete(S)
    PROVE  artifacts' \in [RowIds -> Row \cup {AbsentRow}]
  BY DEF TablesTypeOK, SoftDelete, Row, AbsentRow, IsLive

LEMMA UpsertType ==
    ASSUME TablesTypeOK, NEW id, NEW key \in Keys, NEW version \in Versions \cup {Nil},
           UpsertArtifact(id, key, version)
    PROVE  artifacts' \in [RowIds -> Row \cup {AbsentRow}]
  BY DEF TablesTypeOK, UpsertArtifact, Row

LEMMA PutType ==
    ASSUME TablesTypeOK, NEW l \in Locations, NEW key \in Keys, StoragePut(l, key)
    PROVE  blobs' \subseteq Objects
  BY DEF TablesTypeOK, StoragePut, Objects

LEMMA ArtifactServiceType ==
    ASSUME TablesTypeOK, UploadTypeOK, ArtifactServiceNext
    PROVE  TablesTypeOK' /\ UploadTypeOK'
<1>1. CASE \E u \in Uploaders : BeginUpload(u)
  BY <1>1 DEF BeginUpload, TablesTypeOK, UploadTypeOK, tableVars, Upload, UploadPcs, NoUpload
<1>2. CASE \E u \in Uploaders : ProbeContent(u)
  BY <1>2 DEF ProbeContent, TablesTypeOK, UploadTypeOK, tableVars, Upload, UploadPcs, NoUpload
<1>3. CASE \E u \in Uploaders : PutContent(u)
  <2> PICK u \in Uploaders : PutContent(u)
    BY <1>3
  <2>1. upload[u] \in Upload
    BY DEF PutContent, UploadTypeOK, NoUpload
  <2>2. blobs' \subseteq Objects
    BY <2>1, PutType, RowIdFacts DEF PutContent, Upload, Keys
  <2>3. UploadTypeOK'
    BY <2>1 DEF PutContent, UploadTypeOK, Upload, UploadPcs, NoUpload
  <2> QED
    BY <2>2, <2>3 DEF PutContent, TablesTypeOK
<1>4. CASE \E u \in Uploaders : InsertArtifact(u)
  <2> PICK u \in Uploaders : InsertArtifact(u)
    BY <1>4
  <2>1. upload[u] \in Upload
    BY DEF InsertArtifact, UploadTypeOK, NoUpload
  <2>2. artifacts' \in [RowIds -> Row \cup {AbsentRow}]
    BY <2>1, UpsertType DEF InsertArtifact, Upload, Keys
  <2>3. UploadTypeOK'
    BY <2>1 DEF InsertArtifact, UploadTypeOK, NoUpload
  <2> QED
    BY <2>2, <2>3 DEF InsertArtifact, TablesTypeOK
<1>5. CASE \E u \in Uploaders : UploadFails(u)
  BY <1>5, FailType DEF UploadFails, TablesTypeOK, UploadTypeOK
<1>6. CASE DeleteArtifact
  BY <1>6, SoftDeleteType DEF DeleteArtifact, TablesTypeOK, UploadTypeOK
<1> QED
  BY <1>1, <1>2, <1>3, <1>4, <1>5, <1>6 DEF ArtifactServiceNext, UploadStep

LEMMA OciType ==
    ASSUME TablesTypeOK, OciTypeOK, OciNext \/ Backfill
    PROVE  TablesTypeOK' /\ OciTypeOK'
<1>1. CASE \E c \in OciClients : BeginPush(c)
  BY <1>1 DEF BeginPush, TablesTypeOK, OciTypeOK, tableVars, OciRequest, PushPcs, DeletePcs
<1>2. CASE \E c \in OciClients : BeginDelete(c)
  BY <1>2 DEF BeginDelete, TablesTypeOK, OciTypeOK, tableVars, OciRequest, PushPcs, DeletePcs
<1>3. ASSUME NEW c \in OciClients, oci[c].pc # "idle"
      PROVE  /\ oci[c] \in OciRequest
             /\ oci[c].id \in TagIds
             /\ oci[c].key \in Manifests
             /\ oci[c].key \in Keys
             /\ Children[oci[c].key] \subseteq Manifests
             /\ Finish(c) => OciTypeOK'
             /\ \A pc \in PushPcs \cup DeletePcs : GoTo(c, pc) => OciTypeOK'
  BY <1>3, ChildrenAssumption
  DEF OciTypeOK, OciRequest, NoOciRequest, Finish, GoTo, Keys
<1>4. CASE \E c \in OciClients : PutManifest(c)
  <2> PICK c \in OciClients : PutManifest(c)
    BY <1>4
  <2>1. blobs' \subseteq Objects
    BY <1>3, PutType, RowIdFacts DEF PutManifest
  <2> QED
    BY <1>3, <2>1 DEF PutManifest, TablesTypeOK, PushPcs
<1>5. CASE \E c \in OciClients : UpsertTag(c)
  <2> PICK c \in OciClients : UpsertTag(c)
    BY <1>5
  <2>1. OciTypeOK'
    BY <1>3 DEF UpsertTag, PushPcs
  <2> QED
    BY <1>3, <2>1 DEF UpsertTag, TablesTypeOK
<1>6. CASE \E c \in OciClients : RecordManifestRefs(c)
  <2> PICK c \in OciClients : RecordManifestRefs(c)
    BY <1>6
  <2>1. manifestRefs' \subseteq Repos \X Manifests \X Manifests
    BY <1>3, RowIdFacts DEF RecordManifestRefs, TablesTypeOK
  <2> QED
    BY <1>3, <2>1 DEF RecordManifestRefs, TablesTypeOK, PushPcs
<1>7. CASE \E c \in OciClients : ManifestRefsFail(c)
  BY <1>3, <1>7, FailType DEF ManifestRefsFail, TablesTypeOK, PushPcs
<1>8. CASE \E c \in OciClients : UpsertManifestRow(c)
  BY <1>3, <1>8, UpsertType DEF UpsertManifestRow, TablesTypeOK
<1>9. CASE \E c \in OciClients : DeleteTags(c)
  BY <1>3, <1>9 DEF DeleteTags, TablesTypeOK, DeletePcs
<1>10. CASE \E c \in OciClients : SoftDeleteManifestRow(c)
  BY <1>3, <1>10, SoftDeleteType DEF SoftDeleteManifestRow, TablesTypeOK
<1>11. CASE \E c \in OciClients : OciRequestFails(c)
  BY <1>3, <1>11, FailType DEF OciRequestFails, TablesTypeOK
<1>12. CASE Backfill
  <2> PICK rp \in Unbackfilled :
         manifestRefs' = manifestRefs \cup {<<rp[1], rp[2], child>> : child \in Children[rp[2]]}
    BY <1>12 DEF Backfill
  <2>1. rp[1] \in Repos /\ rp[2] \in Manifests
    BY RowIdFacts DEF Unbackfilled, TablesTypeOK
  <2>2. Children[rp[2]] \subseteq Manifests
    BY <2>1, ChildrenAssumption
  <2>3. manifestRefs' \subseteq Repos \X Manifests \X Manifests
    BY <2>1, <2>2 DEF TablesTypeOK
  <2> QED
    BY <1>12, <2>3 DEF Backfill, TablesTypeOK, OciTypeOK
<1> QED
  BY <1>1, <1>2, <1>4, <1>5, <1>6, <1>7, <1>8, <1>9, <1>10, <1>11, <1>12
  DEF OciNext, OciStep

LEMMA PolicyType ==
    ASSUME TablesTypeOK, PolicyTypeOK, PolicyNext
    PROVE  TablesTypeOK' /\ PolicyTypeOK'
<1>1. CASE ExecutePolicy
  BY <1>1, SoftDeleteType DEF ExecutePolicy, Selectable, TablesTypeOK, PolicyTypeOK
<1>2. CASE CascadeTags
  BY <1>2 DEF CascadeTags, TablesTypeOK, PolicyTypeOK
<1>3. CASE PolicyRunFails
  BY <1>3, FailType DEF PolicyRunFails, TablesTypeOK, PolicyTypeOK
<1> QED
  BY <1>1, <1>2, <1>3 DEF PolicyNext

(* The rows of the candidate and of the predicate name real objects.       *)
LEMMA ObjectType ==
    ASSUME TablesTypeOK, NEW id \in RowIds, artifacts[id].state # "absent"
    PROVE  artifacts[id] \in Row /\ artifacts[id].key \in Keys /\ ObjectOf(id) \in Objects
  BY RowIdFacts DEF TablesTypeOK, Row, AbsentRow, ObjectOf, Objects

LEMMA GcType ==
    ASSUME TablesTypeOK, GcTypeOK, GcNext
    PROVE  TablesTypeOK' /\ GcTypeOK'
<1> PICK w \in GcWorkers : GcStep(w) \/ CandidateFails(w) \/ RunCrashes(w)
  BY DEF GcNext
<1>1. gc[w] \in GcRun
  BY DEF GcTypeOK
<1>2. ASSUME CommitOrRollback(w)
      PROVE  GcTypeOK' /\ rowLocks' \in [GcWorkers -> SUBSET RowIds]
  BY <1>1, <1>2 DEF CommitOrRollback, GcTypeOK, GcRun, OpenTransaction, TablesTypeOK
<1>3. CASE SelectOrphans(w)
  <2>1. {ObjectOf(id) : id \in {i \in RowIds : OrphanPredicate(i)}} \subseteq Objects
    BY ObjectType DEF OrphanPredicate, IsDeleted
  <2>2. GcTypeOK'
    BY <1>1, <1>3, <2>1 DEF SelectOrphans, GcTypeOK, GcRun, OpenTransaction
  <2> QED
    BY <1>3, <2>2 DEF SelectOrphans, TablesTypeOK, tableVars
<1>4. CASE LockRows(w)
  <2> PICK object \in gc[w].todo :
         /\ rowLocks' = [rowLocks EXCEPT ![w] = RowsOf(object)]
         /\ gc' = [gc EXCEPT ![w].pc = "recheck", ![w].object = object,
                             ![w].todo = @ \ {object}]
    BY <1>4 DEF LockRows
  <2>1. RowsOf(object) \subseteq RowIds
    BY DEF RowsOf
  <2>2. GcTypeOK'
    BY <1>1 DEF GcTypeOK, GcRun, OpenTransaction
  <2> QED
    BY <1>4, <2>1, <2>2 DEF LockRows, TablesTypeOK
<1>5. CASE Recheck(w)
  BY <1>1, <1>5 DEF Recheck, GcTypeOK, GcRun, OpenTransaction, TablesTypeOK, tableVars
<1>6. CASE DeleteObject(w)
  BY <1>1, <1>6 DEF DeleteObject, GcTypeOK, GcRun, OpenTransaction, TablesTypeOK
<1>7. CASE SkipCandidate(w) \/ ObjectIsMissing(w) \/ BreakDeadlock(w)
  BY <1>2, <1>7 DEF SkipCandidate, ObjectIsMissing, BreakDeadlock, TablesTypeOK
<1>8. CASE HardDeleteRows(w)
  BY <1>2, <1>8 DEF HardDeleteRows, TablesTypeOK
<1>9. CASE FinishRun(w)
  BY <1>1, <1>9 DEF FinishRun, GcTypeOK, GcRun, OpenTransaction, TablesTypeOK, tableVars
<1>10. CASE CandidateFails(w)
  BY <1>2, <1>10, FailType DEF CandidateFails, TablesTypeOK
<1>11. CASE RunCrashes(w)
  BY <1>11, FailType DEF RunCrashes, GcTypeOK, GcRun, OpenTransaction, TablesTypeOK
<1> QED
  BY <1>3, <1>4, <1>5, <1>6, <1>7, <1>8, <1>9, <1>10, <1>11 DEF GcStep

LEMMA HistoryType ==
    ASSUME TypeOK, TablesTypeOK', RecordHistory
    PROVE  overlap' \in [GcWorkers -> BOOLEAN] /\ raced' \subseteq Objects
  BY DEF TypeOK, TablesTypeOK, RecordHistory

LEMMA TypeCorrectInit == Init => TypeOK
  BY FailuresAssumption
  DEF Init, TypeOK, TablesInit, TablesTypeOK, UploadInit, UploadTypeOK, OciInit, OciTypeOK,
      PolicyInit, PolicyTypeOK, GcInit, GcTypeOK, GcRun

(* Every variable of artifact storage keeps its type in every reachable    *)
(* state, for all repositories, contents, clients and GC runs.             *)
THEOREM TypeCorrect == Spec => []TypeOK
<1>2. TypeOK /\ [Next]_vars => TypeOK'
  <2> SUFFICES ASSUME TypeOK, [Next]_vars PROVE TypeOK'
    OBVIOUS
  <2>1. CASE UNCHANGED vars
    BY <2>1 DEF vars, tableVars, historyVars, TypeOK, TablesTypeOK, UploadTypeOK, OciTypeOK,
                PolicyTypeOK, GcTypeOK
  <2>2. CASE ArtifactServiceNext /\ UNCHANGED <<oci, policyRun, gc>> /\ RecordHistory
    BY <2>2, ArtifactServiceType, HistoryType DEF TypeOK, OciTypeOK, PolicyTypeOK, GcTypeOK
  <2>3. CASE (OciNext \/ Backfill) /\ UNCHANGED <<upload, policyRun, gc>> /\ RecordHistory
    BY <2>3, OciType, HistoryType DEF TypeOK, UploadTypeOK, PolicyTypeOK, GcTypeOK
  <2>4. CASE PolicyNext /\ UNCHANGED <<upload, oci, gc>> /\ RecordHistory
    BY <2>4, PolicyType, HistoryType DEF TypeOK, UploadTypeOK, OciTypeOK, GcTypeOK
  <2>5. CASE GcNext /\ UNCHANGED <<upload, oci, policyRun>> /\ RecordHistory
    BY <2>5, GcType, HistoryType DEF TypeOK, UploadTypeOK, OciTypeOK, PolicyTypeOK
  <2> QED
    BY <2>1, <2>2, <2>3, <2>4, <2>5 DEF Next, Startup
<1> QED
  BY TypeCorrectInit, <1>2, PTL DEF Spec

-----------------------------------------------------------------------------
(* The inductive invariant behind LiveRowsHaveContent.  The promise alone  *)
(* is not inductive: it says nothing of a request that is about to insert  *)
(* its row or its tag, nor of a run that is about to delete the object.    *)

(* A request counts on an object only while the object is there or was     *)
(* taken away under an overlap.                                            *)
RequestsHaveContent ==
    /\ \A u \in Uploaders : upload[u].pc = "insert" =>
          <<LocationOf(upload[u].id), upload[u].key>> \in blobs \cup raced
    /\ \A c \in OciClients : oci[c].pc \in {"tag", "refs", "row"} =>
          <<LocationOf(oci[c].id), oci[c].key>> \in blobs \cup raced

(* Without an overlap nobody uses the object of an open transaction        *)
(* between the re-check and the storage delete.                            *)
WindowIsQuiet ==
    \A w \in GcWorkers : (gc[w].pc = "deleteObject" /\ ~overlap[w]) =>
        /\ ~InProgress(gc[w].object)
        /\ \A id \in RowIds : IsLive(id) => ObjectOf(id) # gc[w].object
        /\ \A id \in TagIds : tags[id] # Nil => <<LocationOf(id), tags[id]>> # gc[w].object

ContentInv ==
    /\ TypeOK
    /\ LiveRowsHaveContent
    /\ TaggedManifestsHaveContent
    /\ RequestsHaveContent
    /\ WindowIsQuiet

(* A request is between its storage write (or probe) and its last write.   *)
Held(object) ==
    \/ \E u \in Uploaders : UploadHolds(u, object[1], object[2])
    \/ \E c \in OciClients : /\ oci[c].pc \in {"tag", "refs", "row"}
                             /\ object = <<LocationOf(oci[c].id), oci[c].key>>

LEMMA HeldFacts ==
    ASSUME RequestsHaveContent, NEW l, NEW k, Held(<<l, k>>)
    PROVE  <<l, k>> \in blobs \cup raced /\ InProgress(<<l, k>>)
  BY DEF RequestsHaveContent, Held, InProgress, UploadHolds, PushHolds

(* A step that removes no object, opens no window and only writes          *)
(* references to objects that the writing request holds.                   *)
ReferencesAreHeld ==
    /\ blobs \subseteq blobs'
    /\ \A w \in GcWorkers : gc'[w].pc = "deleteObject" => gc'[w] = gc[w]
    /\ \A id \in RowIds : artifacts'[id].state = "live" =>
          \/ IsLive(id) /\ artifacts'[id].key = artifacts[id].key
          \/ Held(<<LocationOf(id), artifacts'[id].key>>)
    /\ \A id \in TagIds : tags'[id] # Nil =>
          \/ tags'[id] = tags[id]
          \/ Held(<<LocationOf(id), tags'[id]>>)
    /\ \A u \in Uploaders : upload'[u].pc = "insert" =>
          \/ Held(<<LocationOf(upload'[u].id), upload'[u].key>>)
          \/ <<LocationOf(upload'[u].id), upload'[u].key>> \in blobs'
    /\ \A c \in OciClients : oci'[c].pc \in {"tag", "refs", "row"} =>
          \/ Held(<<LocationOf(oci'[c].id), oci'[c].key>>)
          \/ <<LocationOf(oci'[c].id), oci'[c].key>> \in blobs'

LEMMA ReferencesAreHeldStep ==
    ASSUME ContentInv, TypeOK', RecordHistory, ReferencesAreHeld
    PROVE  ContentInv'
<1>1. blobs \cup raced \subseteq blobs' \cup raced'
  BY DEF RecordHistory, ReferencesAreHeld
<1>2. LiveRowsHaveContent'
  BY <1>1, HeldFacts
  DEF ContentInv, LiveRowsHaveContent, ReferencesAreHeld, IsLive, ObjectOf, LocationOf
<1>3. TaggedManifestsHaveContent'
  BY <1>1, HeldFacts DEF ContentInv, TaggedManifestsHaveContent, ReferencesAreHeld, LocationOf
<1>4. RequestsHaveContent'
  BY <1>1, HeldFacts DEF ContentInv, RequestsHaveContent, ReferencesAreHeld, LocationOf
<1>5. WindowIsQuiet'
  <2> SUFFICES ASSUME NEW w \in GcWorkers, gc'[w].pc = "deleteObject", ~overlap'[w]
               PROVE  /\ ~InProgress(gc[w].object)'
                      /\ \A id \in RowIds : IsLive(id)' => (ObjectOf(id) # gc[w].object)'
                      /\ \A id \in TagIds : tags'[id] # Nil =>
                            <<LocationOf(id), tags'[id]>> # gc'[w].object
    BY DEF WindowIsQuiet, LocationOf
  <2>1. ~overlap[w] /\ ~InProgress(gc[w].object)'
    BY DEF RecordHistory
  <2>2. gc'[w] = gc[w]
    BY DEF ReferencesAreHeld
  <2>3. /\ ~InProgress(gc[w].object)
        /\ \A id \in RowIds : IsLive(id) => ObjectOf(id) # gc[w].object
        /\ \A id \in TagIds : tags[id] # Nil => <<LocationOf(id), tags[id]>> # gc[w].object
    BY <2>1, <2>2 DEF ContentInv, WindowIsQuiet
  <2>4. \A l, k : Held(<<l, k>>) => <<l, k>> # gc[w].object
    BY <2>3, HeldFacts DEF ContentInv
  <2>5. ASSUME NEW id \in RowIds, IsLive(id)' PROVE (ObjectOf(id) # gc[w].object)'
    BY <2>2, <2>3, <2>4, <2>5 DEF ReferencesAreHeld, IsLive, ObjectOf, LocationOf
  <2>6. ASSUME NEW id \in TagIds, tags'[id] # Nil
        PROVE  <<LocationOf(id), tags'[id]>> # gc'[w].object
    BY <2>2, <2>3, <2>4, <2>6 DEF ReferencesAreHeld
  <2> QED
    BY <2>1, <2>5, <2>6
<1> QED
  BY <1>2, <1>3, <1>4, <1>5 DEF ContentInv

LEMMA SoftDeleteRevivesNothing ==
    ASSUME TablesTypeOK, NEW S, SoftDelete(S)
    PROVE  \A id \in RowIds : artifacts'[id].state = "live" => artifacts'[id] = artifacts[id]
  BY DEF TablesTypeOK, SoftDelete, IsLive, Row, AbsentRow

LEMMA ArtifactServiceHeld ==
    ASSUME TypeOK, ArtifactServiceNext, UNCHANGED <<oci, policyRun, gc>>
    PROVE  ReferencesAreHeld
<1>1. \A c \in OciClients : oci[c].pc \in {"tag", "refs", "row"} =>
         Held(<<LocationOf(oci[c].id), oci[c].key>>)
  BY DEF Held
<1>2. \A u \in Uploaders : upload[u].pc = "insert" =>
         Held(<<LocationOf(upload[u].id), upload[u].key>>)
  BY DEF Held, UploadHolds
<1>3. ASSUME UNCHANGED tableVars, NEW u \in Uploaders, NEW r, upload' = [upload EXCEPT ![u] = r],
             r.pc = "insert" => <<LocationOf(r.id), r.key>> \in blobs
      PROVE  ReferencesAreHeld
  BY <1>1, <1>2, <1>3 DEF ReferencesAreHeld, tableVars, IsLive, TypeOK, UploadTypeOK
<1>4. CASE \E u \in Uploaders : BeginUpload(u)
  <2> PICK u \in Uploaders : BeginUpload(u)
    BY <1>4
  <2> PICK r \in Repos, q \in Names, key \in Packages, version \in Versions :
         upload' = [upload EXCEPT ![u] = [pc |-> "probe", id |-> <<r, q>>,
                                          key |-> key, version |-> version]]
    BY DEF BeginUpload
  <2> QED
    BY <1>3 DEF BeginUpload
<1>5. CASE \E u \in Uploaders : ProbeContent(u)
  <2> PICK u \in Uploaders : ProbeContent(u)
    BY <1>5
  <2>1. upload[u] \in Upload
    BY DEF ProbeContent, TypeOK, UploadTypeOK, NoUpload
  <2>2. /\ upload' = [upload EXCEPT ![u] = upload'[u]]
        /\ upload'[u].id = upload[u].id /\ upload'[u].key = upload[u].key
        /\ upload'[u].pc = "insert" => StorageExists(LocationOf(upload[u].id), upload[u].key)
    BY <2>1 DEF ProbeContent, TypeOK, UploadTypeOK, Upload
  <2> QED
    BY <1>3, <2>2 DEF ProbeContent, StorageExists
<1>6. CASE \E u \in Uploaders : PutContent(u)
  <2> PICK u \in Uploaders : PutContent(u)
    BY <1>6
  <2>1. upload[u] \in Upload
    BY DEF PutContent, TypeOK, UploadTypeOK, NoUpload
  <2>2. /\ \A v \in Uploaders \ {u} : upload'[v] = upload[v]
        /\ upload'[u].id = upload[u].id /\ upload'[u].key = upload[u].key
    BY <2>1 DEF PutContent, TypeOK, UploadTypeOK, Upload
  <2>3. blobs \subseteq blobs' /\ <<LocationOf(upload[u].id), upload[u].key>> \in blobs'
    BY DEF PutContent, StoragePut
  <2> QED
    BY <1>1, <1>2, <2>2, <2>3 DEF PutContent, ReferencesAreHeld, IsLive
<1>7. CASE \E u \in Uploaders : InsertArtifact(u)
  <2> PICK u \in Uploaders : InsertArtifact(u)
    BY <1>7
  <2>1. upload[u] \in Upload
    BY DEF InsertArtifact, TypeOK, UploadTypeOK, NoUpload
  <2>2. upload[u].id \in RowIds
    BY <2>1, RowIdFacts DEF Upload
  <2>3. /\ \A v \in Uploaders \ {u} : upload'[v] = upload[v]
        /\ upload'[u].pc = "idle"
    BY DEF InsertArtifact, TypeOK, UploadTypeOK, NoUpload
  <2>4. /\ artifacts'[upload[u].id].key = upload[u].key
        /\ \A id \in RowIds : id # upload[u].id => artifacts'[id] = artifacts[id]
    BY <2>2 DEF InsertArtifact, UpsertArtifact, TypeOK, TablesTypeOK
  <2> QED
    BY <1>1, <1>2, <2>3, <2>4 DEF InsertArtifact, ReferencesAreHeld, IsLive
<1>8. CASE \E u \in Uploaders : UploadFails(u)
  BY <1>1, <1>2, <1>8 DEF UploadFails, NoUpload, ReferencesAreHeld, IsLive, TypeOK, UploadTypeOK
<1>9. CASE DeleteArtifact
  BY <1>1, <1>2, <1>9 DEF DeleteArtifact, SoftDelete, ReferencesAreHeld, IsLive, TypeOK, TablesTypeOK
<1> QED
  BY <1>4, <1>5, <1>6, <1>7, <1>8, <1>9 DEF ArtifactServiceNext, UploadStep

LEMMA OciHeld ==
    ASSUME TypeOK, OciNext \/ Backfill, UNCHANGED <<upload, policyRun, gc>>
    PROVE  ReferencesAreHeld
<1>1. \A c \in OciClients : oci[c].pc \in {"tag", "refs", "row"} =>
         Held(<<LocationOf(oci[c].id), oci[c].key>>)
  BY DEF Held
<1>2. \A u \in Uploaders : upload[u].pc = "insert" =>
         Held(<<LocationOf(upload[u].id), upload[u].key>>)
  BY DEF Held, UploadHolds
<1>3. ASSUME NEW c \in OciClients, oci[c].pc # "idle"
      PROVE  oci[c] \in OciRequest /\ oci[c].id \in TagIds /\ oci[c].id \in RowIds
  BY <1>3, RowIdFacts DEF TypeOK, OciTypeOK, OciRequest, NoOciRequest
<1>4. ASSUME NEW c \in OciClients, oci[c].pc # "idle", NEW pc, GoTo(c, pc)
      PROVE  /\ \A d \in OciClients \ {c} : oci'[d] = oci[d]
             /\ oci'[c].id = oci[c].id /\ oci'[c].key = oci[c].key /\ oci'[c].pc = pc
  BY <1>3, <1>4 DEF GoTo, TypeOK, OciTypeOK, OciRequest
<1>5. ASSUME NEW c \in OciClients, Finish(c)
      PROVE  /\ \A d \in OciClients \ {c} : oci'[d] = oci[d]
             /\ oci'[c].pc = "idle"
  BY <1>5 DEF Finish, NoOciRequest, TypeOK, OciTypeOK
<1>6. CASE \E c \in OciClients : BeginPush(c) \/ BeginDelete(c)
  <2> PICK c \in OciClients : BeginPush(c) \/ BeginDelete(c)
    BY <1>6
  <2>1. /\ \A d \in OciClients \ {c} : oci'[d] = oci[d]
        /\ oci'[c].pc \in {"put", "untag"}
    BY DEF BeginPush, BeginDelete, TypeOK, OciTypeOK
  <2> QED
    BY <1>1, <1>2, <2>1 DEF BeginPush, BeginDelete, tableVars, ReferencesAreHeld, IsLive
<1>7. CASE \E c \in OciClients : PutManifest(c)
  <2> PICK c \in OciClients : PutManifest(c)
    BY <1>7
  <2>1. blobs \subseteq blobs' /\ <<LocationOf(oci[c].id), oci[c].key>> \in blobs'
    BY DEF PutManifest, StoragePut
  <2> QED
    BY <1>1, <1>2, <1>4, <2>1 DEF PutManifest, ReferencesAreHeld, IsLive
<1>8. CASE \E c \in OciClients : UpsertTag(c)
  <2> PICK c \in OciClients : UpsertTag(c)
    BY <1>8
  <2>1. /\ tags'[oci[c].id] = oci[c].key
        /\ \A id \in TagIds : id # oci[c].id => tags'[id] = tags[id]
    BY <1>3 DEF UpsertTag, TypeOK, TablesTypeOK
  <2>2. /\ \A d \in OciClients \ {c} : oci'[d] = oci[d]
        /\ oci'[c].id = oci[c].id /\ oci'[c].key = oci[c].key
    BY <1>4 DEF UpsertTag
  <2>3. Held(<<LocationOf(oci[c].id), oci[c].key>>)
    BY <1>1 DEF UpsertTag
  <2> QED
    BY <1>1, <1>2, <2>1, <2>2, <2>3 DEF UpsertTag, ReferencesAreHeld, IsLive
<1>9. CASE \E c \in OciClients : RecordManifestRefs(c) \/ ManifestRefsFail(c)
  BY <1>1, <1>2, <1>4, <1>9 DEF RecordManifestRefs, ManifestRefsFail, ReferencesAreHeld, IsLive
<1>10. CASE \E c \in OciClients : UpsertManifestRow(c)
  <2> PICK c \in OciClients : UpsertManifestRow(c)
    BY <1>10
  <2>1. /\ artifacts'[oci[c].id].key = oci[c].key
        /\ \A id \in RowIds : id # oci[c].id => artifacts'[id] = artifacts[id]
    BY <1>3 DEF UpsertManifestRow, UpsertArtifact, TypeOK, TablesTypeOK
  <2> QED
    BY <1>1, <1>2, <1>5, <2>1 DEF UpsertManifestRow, ReferencesAreHeld, IsLive
<1>11. CASE \E c \in OciClients : DeleteTags(c)
  BY <1>1, <1>2, <1>4, <1>11 DEF DeleteTags, ReferencesAreHeld, IsLive
<1>12. CASE \E c \in OciClients : SoftDeleteManifestRow(c)
  <2> PICK c \in OciClients : SoftDeleteManifestRow(c)
    BY <1>12
  <2>1. \A id \in RowIds : artifacts'[id].state = "live" => artifacts'[id] = artifacts[id]
    BY DEF SoftDeleteManifestRow, SoftDelete, IsLive, TypeOK, TablesTypeOK
  <2> QED
    BY <1>1, <1>2, <1>5, <2>1 DEF SoftDeleteManifestRow, ReferencesAreHeld, IsLive
<1>13. CASE \E c \in OciClients : OciRequestFails(c)
  BY <1>1, <1>2, <1>5, <1>13 DEF OciRequestFails, ReferencesAreHeld, IsLive
<1>14. CASE Backfill
  BY <1>1, <1>2, <1>14 DEF Backfill, ReferencesAreHeld, IsLive
<1> QED
  BY <1>6, <1>7, <1>8, <1>9, <1>10, <1>11, <1>12, <1>13, <1>14 DEF OciNext, OciStep

LEMMA PolicyHeld ==
    ASSUME TypeOK, PolicyNext, UNCHANGED <<upload, oci, gc>>
    PROVE  ReferencesAreHeld
<1>1. \A id \in RowIds : artifacts'[id].state = "live" => artifacts'[id] = artifacts[id]
  BY SoftDeleteRevivesNothing
  DEF PolicyNext, ExecutePolicy, Selectable, CascadeTags, PolicyRunFails, TypeOK
<1>2. \A id \in TagIds : tags'[id] # Nil => tags'[id] = tags[id]
  BY DEF PolicyNext, ExecutePolicy, Selectable, CascadeTags, PolicyRunFails
<1>3. blobs' = blobs
  BY DEF PolicyNext, ExecutePolicy, Selectable, CascadeTags, PolicyRunFails
<1> QED
  BY <1>1, <1>2, <1>3 DEF ReferencesAreHeld, Held, UploadHolds, IsLive

LEMMA GcContent ==
    ASSUME ContentInv, TypeOK', GcNext, UNCHANGED <<upload, oci, policyRun>>, RecordHistory
    PROVE  ContentInv'
<1> PICK w \in GcWorkers : GcStep(w) \/ CandidateFails(w) \/ RunCrashes(w)
  BY DEF GcNext
<1>1. gc \in [GcWorkers -> GcRun] /\ gc[w] \in GcRun
  BY DEF ContentInv, TypeOK, GcTypeOK
<1>2. ASSUME blobs' = blobs, tags' = tags, gc'[w].pc # "deleteObject",
             \A v \in GcWorkers \ {w} : gc'[v] = gc[v],
             \A id \in RowIds : artifacts'[id] = artifacts[id] \/ artifacts'[id] = AbsentRow
      PROVE  ContentInv'
  <2>1. ReferencesAreHeld
    BY <1>2 DEF ReferencesAreHeld, Held, UploadHolds, IsLive, AbsentRow
  <2> QED
    BY <2>1, ReferencesAreHeldStep
<1>3. ASSUME CommitOrRollback(w)
      PROVE  gc'[w].pc = "next" /\ \A v \in GcWorkers \ {w} : gc'[v] = gc[v]
  BY <1>1, <1>3 DEF CommitOrRollback, GcRun
<1>4. CASE SelectOrphans(w) \/ FinishRun(w)
  BY <1>1, <1>2, <1>4 DEF SelectOrphans, FinishRun, tableVars, GcRun
<1>5. CASE LockRows(w)
  <2>1. gc'[w].pc = "recheck" /\ \A v \in GcWorkers \ {w} : gc'[v] = gc[v]
    BY <1>1, <1>5 DEF LockRows, GcRun
  <2> QED
    BY <1>2, <1>5, <2>1 DEF LockRows
<1>6. CASE SkipCandidate(w) \/ ObjectIsMissing(w) \/ BreakDeadlock(w) \/ CandidateFails(w)
  BY <1>2, <1>3, <1>6 DEF SkipCandidate, ObjectIsMissing, BreakDeadlock, CandidateFails
<1>7. CASE HardDeleteRows(w)
  BY <1>2, <1>3, <1>7 DEF HardDeleteRows
<1>8. CASE RunCrashes(w)
  BY <1>1, <1>2, <1>8 DEF RunCrashes
<1>9. CASE Recheck(w)
  <2>1. /\ blobs' = blobs /\ tags' = tags /\ artifacts' = artifacts
        /\ \A v \in GcWorkers \ {w} : gc'[v] = gc[v]
        /\ gc'[w].object = gc[w].object
    BY <1>1, <1>9 DEF Recheck, tableVars, GcRun
  <2>2. blobs \cup raced \subseteq blobs' \cup raced'
    BY <2>1 DEF RecordHistory
  <2>3. LiveRowsHaveContent' /\ TaggedManifestsHaveContent' /\ RequestsHaveContent'
    BY <2>1, <2>2
    DEF ContentInv, LiveRowsHaveContent, TaggedManifestsHaveContent, RequestsHaveContent,
        IsLive, ObjectOf, LocationOf
  <2>4. PICK row \in RowIds : ObjectOf(row) = gc[w].object /\ OrphanPredicate(row)
    BY <1>9 DEF Recheck, StillOrphan, RowsOf
  <2>5. /\ \A id \in RowIds : IsLive(id) => ObjectOf(id) # gc[w].object
        /\ \A id \in TagIds : tags[id] # Nil => <<LocationOf(id), tags[id]>> # gc[w].object
    BY <2>4 DEF OrphanPredicate, Referenced, SharedWithLiveRow, TaggedManifest, ObjectOf
  <2>6. \A v \in GcWorkers : (gc'[v].pc = "deleteObject" /\ ~overlap'[v]) =>
           ~overlap[v] /\ ~InProgress(gc[v].object)'
    BY DEF RecordHistory
  <2>7. WindowIsQuiet'
    BY <2>1, <2>5, <2>6 DEF ContentInv, WindowIsQuiet, IsLive, ObjectOf, LocationOf
  <2> QED
    BY <2>3, <2>7 DEF ContentInv
<1>10. CASE DeleteObject(w)
  <2> DEFINE object == gc[w].object
  <2>1. /\ blobs' = blobs \ {object} /\ tags' = tags /\ artifacts' = artifacts
        /\ \A v \in GcWorkers \ {w} : gc'[v] = gc[v]
        /\ gc'[w].pc = "deleteRows" /\ gc[w].pc = "deleteObject"
    BY <1>1, <1>10 DEF DeleteObject, GcRun
  <2>2. raced \ blobs' \subseteq raced'
    BY DEF RecordHistory
  <2>3. \A o \in blobs \cup raced : o # object => o \in blobs' \cup raced'
    BY <2>1, <2>2
  <2>4. (overlap[w] /\ object \in blobs \cup raced) => object \in blobs' \cup raced'
    BY <2>1 DEF RecordHistory, OverlappedObjects
  <2>5. ~overlap[w] => /\ ~InProgress(object)
                       /\ \A id \in RowIds : IsLive(id) => ObjectOf(id) # object
                       /\ \A id \in TagIds : tags[id] # Nil =>
                             <<LocationOf(id), tags[id]>> # object
    BY <2>1 DEF ContentInv, WindowIsQuiet
  <2>6. LiveRowsHaveContent' /\ TaggedManifestsHaveContent'
    BY <2>1, <2>3, <2>4, <2>5
    DEF ContentInv, LiveRowsHaveContent, TaggedManifestsHaveContent, IsLive, ObjectOf, LocationOf
  <2>7. RequestsHaveContent'
    BY <2>3, <2>4, <2>5
    DEF ContentInv, RequestsHaveContent, InProgress, UploadHolds, PushHolds, LocationOf
  <2>8. \A v \in GcWorkers : (gc'[v].pc = "deleteObject" /\ ~overlap'[v]) =>
           ~overlap[v] /\ ~InProgress(gc[v].object)'
    BY DEF RecordHistory
  <2>9. WindowIsQuiet'
    BY <2>1, <2>8 DEF ContentInv, WindowIsQuiet, IsLive, ObjectOf, LocationOf
  <2> QED
    BY <2>6, <2>7, <2>9 DEF ContentInv
<1> QED
  BY <1>4, <1>5, <1>6, <1>7, <1>8, <1>9, <1>10 DEF GcStep

LEMMA ContentInvariant == Spec => []ContentInv
<1>1. Init => ContentInv
  BY TypeCorrectInit
  DEF Init, ContentInv, TablesInit, UploadInit, OciInit, GcInit, LiveRowsHaveContent,
      TaggedManifestsHaveContent, RequestsHaveContent, WindowIsQuiet, IsLive, AbsentRow,
      NoUpload, NoOciRequest
<1>2. ContentInv /\ TypeOK' /\ [Next]_vars => ContentInv'
  <2> SUFFICES ASSUME ContentInv, TypeOK', [Next]_vars PROVE ContentInv'
    OBVIOUS
  <2>1. CASE UNCHANGED vars
    BY <2>1
    DEF vars, tableVars, historyVars, ContentInv, LiveRowsHaveContent,
        TaggedManifestsHaveContent, RequestsHaveContent, WindowIsQuiet, InProgress, UploadHolds,
        PushHolds, IsLive, ObjectOf, LocationOf
  <2>2. CASE ArtifactServiceNext /\ UNCHANGED <<oci, policyRun, gc>> /\ RecordHistory
    BY <2>2, ArtifactServiceHeld, ReferencesAreHeldStep DEF ContentInv
  <2>3. CASE (OciNext \/ Backfill) /\ UNCHANGED <<upload, policyRun, gc>> /\ RecordHistory
    BY <2>3, OciHeld, ReferencesAreHeldStep DEF ContentInv
  <2>4. CASE PolicyNext /\ UNCHANGED <<upload, oci, gc>> /\ RecordHistory
    BY <2>4, PolicyHeld, ReferencesAreHeldStep DEF ContentInv
  <2>5. CASE GcNext /\ UNCHANGED <<upload, oci, policyRun>> /\ RecordHistory
    BY <2>5, GcContent
  <2> QED
    BY <2>1, <2>2, <2>3, <2>4, <2>5 DEF Next, Startup
<1> QED
  BY <1>1, <1>2, TypeCorrect, PTL DEF Spec

(* A live artifact row always has its object in storage, unless a garbage  *)
(* collection deleted the object while an upload or push of the same       *)
(* content was between its storage write (or probe) and its row insert.    *)
THEOREM LiveContent == Spec => []LiveRowsHaveContent
<1>1. ContentInv => LiveRowsHaveContent
  BY DEF ContentInv
<1> QED
  BY <1>1, ContentInvariant, PTL

(* The same for every tagged manifest.                                     *)
THEOREM TaggedContent == Spec => []TaggedManifestsHaveContent
<1>1. ContentInv => TaggedManifestsHaveContent
  BY DEF ContentInv
<1> QED
  BY <1>1, ContentInvariant, PTL

-----------------------------------------------------------------------------
(* The invariant behind LocksExclude: a lock is held only in an open       *)
(* transaction, on a row of its object, and a locked row stays as it is.   *)
LockInv ==
    /\ TypeOK
    /\ LocksExclude
    /\ \A w \in GcWorkers : \A id \in rowLocks[w] :
          /\ gc[w].pc \in OpenTransaction
          /\ artifacts[id].state # "absent"
          /\ ObjectOf(id) = gc[w].object

(* What a request or a policy does to the rows: it writes none that a run  *)
(* has locked, and removes none.                                           *)
RowsRespected ==
    \A id \in RowIds : /\ ~Unlocked(id) => artifacts'[id] = artifacts[id]
                       /\ artifacts[id].state # "absent" => artifacts'[id].state # "absent"

LEMMA SoftDeleteRespects ==
    ASSUME TablesTypeOK, NEW S, SoftDelete(S)
    PROVE  RowsRespected
  BY DEF RowsRespected, TablesTypeOK, SoftDelete, IsLive, Row, AbsentRow

LEMMA UpsertRespects ==
    ASSUME TablesTypeOK, NEW id \in RowIds, NEW key, NEW version, UpsertArtifact(id, key, version)
    PROVE  RowsRespected
  BY DEF RowsRespected, TablesTypeOK, UpsertArtifact

LEMMA RequestsRespectRows ==
    ASSUME TypeOK, ArtifactServiceNext \/ OciNext \/ Backfill \/ PolicyNext
    PROVE  RowsRespected /\ rowLocks' = rowLocks
<1>0. TablesTypeOK
  BY DEF TypeOK
<1>1. UNCHANGED artifacts => RowsRespected
  BY DEF RowsRespected
<1>2. CASE \E u \in Uploaders : InsertArtifact(u)
  <2> PICK u \in Uploaders : InsertArtifact(u)
    BY <1>2
  <2>1. upload[u].id \in RowIds
    BY RowIdFacts DEF InsertArtifact, TypeOK, UploadTypeOK, Upload, NoUpload
  <2> QED
    BY <1>0, <2>1, UpsertRespects DEF InsertArtifact
<1>3. CASE \E c \in OciClients : UpsertManifestRow(c)
  <2> PICK c \in OciClients : UpsertManifestRow(c)
    BY <1>3
  <2>1. oci[c].id \in RowIds
    BY RowIdFacts DEF UpsertManifestRow, TypeOK, OciTypeOK, OciRequest, NoOciRequest
  <2> QED
    BY <1>0, <2>1, UpsertRespects DEF UpsertManifestRow
<1>4. CASE DeleteArtifact \/ ExecutePolicy \/ \E c \in OciClients : SoftDeleteManifestRow(c)
  BY <1>0, <1>4, SoftDeleteRespects DEF DeleteArtifact, ExecutePolicy, SoftDeleteManifestRow
<1>5. CASE \E u \in Uploaders : BeginUpload(u) \/ ProbeContent(u) \/ PutContent(u) \/ UploadFails(u)
  BY <1>1, <1>5 DEF BeginUpload, ProbeContent, PutContent, UploadFails, tableVars
<1>6. CASE \E c \in OciClients : BeginPush(c) \/ BeginDelete(c) \/ PutManifest(c) \/ UpsertTag(c)
  BY <1>1, <1>6 DEF BeginPush, BeginDelete, PutManifest, UpsertTag, tableVars
<1>7. CASE \E c \in OciClients : \/ RecordManifestRefs(c) \/ ManifestRefsFail(c)
                                 \/ DeleteTags(c) \/ OciRequestFails(c)
  BY <1>1, <1>7 DEF RecordManifestRefs, ManifestRefsFail, DeleteTags, OciRequestFails
<1>8. CASE Backfill \/ CascadeTags \/ PolicyRunFails
  BY <1>1, <1>8 DEF Backfill, CascadeTags, PolicyRunFails
<1> QED
  BY <1>2, <1>3, <1>4, <1>5, <1>6, <1>7, <1>8
  DEF ArtifactServiceNext, UploadStep, OciNext, OciStep, PolicyNext

LEMMA GcKeepsLocks ==
    ASSUME LockInv, TypeOK', GcNext
    PROVE  LockInv'
<1> PICK w \in GcWorkers : GcStep(w) \/ CandidateFails(w) \/ RunCrashes(w)
  BY DEF GcNext
<1>1. /\ gc \in [GcWorkers -> GcRun] /\ gc[w] \in GcRun
      /\ rowLocks \in [GcWorkers -> SUBSET RowIds]
  BY DEF LockInv, TypeOK, GcTypeOK, TablesTypeOK
<1>2. ASSUME rowLocks'[w] = {},
             \A v \in GcWorkers \ {w} :
                /\ rowLocks'[v] = rowLocks[v] /\ gc'[v] = gc[v]
                /\ \A id \in rowLocks[v] : artifacts'[id] = artifacts[id]
      PROVE  LockInv'
  BY <1>1, <1>2 DEF LockInv, LocksExclude, ObjectOf, LocationOf, IsDeleted
<1>3. ASSUME CommitOrRollback(w)
      PROVE  /\ rowLocks'[w] = {}
             /\ \A v \in GcWorkers \ {w} : rowLocks'[v] = rowLocks[v] /\ gc'[v] = gc[v]
  BY <1>1, <1>3 DEF CommitOrRollback
<1>4. CASE SelectOrphans(w) \/ FinishRun(w)
  <2>1. rowLocks[w] = {} /\ artifacts' = artifacts /\ rowLocks' = rowLocks
    BY <1>4 DEF SelectOrphans, FinishRun, tableVars, LockInv, OpenTransaction
  <2>2. \A v \in GcWorkers \ {w} : gc'[v] = gc[v]
    BY <1>1, <1>4 DEF SelectOrphans, FinishRun
  <2> QED
    BY <1>2, <2>1, <2>2
<1>5. CASE LockRows(w)
  <2>1. PICK object \in gc[w].todo :
           /\ \A id \in RowsOf(object) : Unlocked(id)
           /\ rowLocks' = [rowLocks EXCEPT ![w] = RowsOf(object)]
           /\ gc' = [gc EXCEPT ![w].pc = "recheck", ![w].object = object,
                               ![w].todo = @ \ {object}]
    BY <1>5 DEF LockRows
  <2>2. /\ gc'[w].pc = "recheck" /\ gc'[w].object = object /\ rowLocks'[w] = RowsOf(object)
        /\ \A v \in GcWorkers \ {w} : rowLocks'[v] = rowLocks[v] /\ gc'[v] = gc[v]
        /\ artifacts' = artifacts
    BY <1>1, <1>5, <2>1 DEF LockRows, GcRun
  <2>3. \A v \in GcWorkers : \A id \in rowLocks[v] : id \notin RowsOf(object)
    BY <2>1 DEF Unlocked
  <2>4. \A id \in RowsOf(object) : artifacts[id].state # "absent" /\ ObjectOf(id) = object
    BY DEF RowsOf
  <2> QED
    BY <2>2, <2>3, <2>4
    DEF LockInv, LocksExclude, ObjectOf, LocationOf, IsDeleted, OpenTransaction
<1>6. CASE Recheck(w)
  <2>1. /\ gc'[w].pc = "deleteObject" /\ gc'[w].object = gc[w].object
        /\ rowLocks' = rowLocks /\ artifacts' = artifacts
        /\ \A v \in GcWorkers \ {w} : gc'[v] = gc[v]
    BY <1>1, <1>6 DEF Recheck, tableVars, GcRun
  <2>2. \A id \in rowLocks[w] : id \in RowsOf(gc[w].object)
    BY <1>1 DEF LockInv, RowsOf
  <2>3. \A id \in rowLocks[w] : IsDeleted(id)
    BY <1>6, <2>2 DEF Recheck, StillOrphan, OrphanPredicate
  <2> QED
    BY <1>1, <2>1, <2>3
    DEF LockInv, LocksExclude, ObjectOf, LocationOf, IsDeleted, OpenTransaction
<1>7. CASE DeleteObject(w)
  <2>1. /\ gc[w].pc = "deleteObject" /\ gc'[w].pc = "deleteRows" /\ gc'[w].object = gc[w].object
        /\ rowLocks' = rowLocks /\ artifacts' = artifacts
        /\ \A v \in GcWorkers \ {w} : gc'[v] = gc[v]
    BY <1>1, <1>7 DEF DeleteObject, GcRun
  <2> QED
    BY <1>1, <2>1 DEF LockInv, LocksExclude, ObjectOf, LocationOf, IsDeleted, OpenTransaction
<1>8. CASE SkipCandidate(w) \/ ObjectIsMissing(w) \/ BreakDeadlock(w) \/ CandidateFails(w)
  BY <1>2, <1>3, <1>8 DEF SkipCandidate, ObjectIsMissing, BreakDeadlock, CandidateFails
<1>9. CASE HardDeleteRows(w)
  <2>1. \A v \in GcWorkers \ {w} : RowsToHardDelete(gc[w].object) \cap rowLocks[v] = {}
    BY <1>9 DEF HardDeleteRows, WaitsFor
  <2>2. \A v \in GcWorkers \ {w} : \A id \in rowLocks[v] : artifacts'[id] = artifacts[id]
    BY <1>1, <1>9, <2>1 DEF HardDeleteRows
  <2> QED
    BY <1>2, <1>3, <1>9, <2>2 DEF HardDeleteRows
<1>10. CASE RunCrashes(w)
  BY <1>1, <1>2, <1>10 DEF RunCrashes
<1> QED
  BY <1>4, <1>5, <1>6, <1>7, <1>8, <1>9, <1>10 DEF GcStep

LEMMA LockInvariant == Spec => []LockInv
<1>1. Init => LockInv
  BY TypeCorrectInit DEF Init, TablesInit, LockInv, LocksExclude
<1>2. LockInv /\ TypeOK' /\ [Next]_vars => LockInv'
  <2> SUFFICES ASSUME LockInv, TypeOK', [Next]_vars PROVE LockInv'
    OBVIOUS
  <2>1. CASE UNCHANGED vars
    BY <2>1 DEF vars, tableVars, LockInv, LocksExclude, ObjectOf, LocationOf, IsDeleted
  <2>2. ASSUME RowsRespected, rowLocks' = rowLocks, gc' = gc PROVE LockInv'
    <3>1. \A v \in GcWorkers : \A id \in rowLocks[v] : id \in RowIds /\ ~Unlocked(id)
      BY DEF LockInv, TypeOK, TablesTypeOK, Unlocked
    <3>2. \A v \in GcWorkers : \A id \in rowLocks[v] : artifacts'[id] = artifacts[id]
      BY <2>2, <3>1 DEF RowsRespected
    <3> QED
      BY <2>2, <3>2 DEF LockInv, LocksExclude, ObjectOf, LocationOf, IsDeleted
  <2>3. CASE (ArtifactServiceNext \/ OciNext \/ Backfill \/ PolicyNext) /\ UNCHANGED gc
    BY <2>2, <2>3, RequestsRespectRows DEF LockInv
  <2>4. CASE GcNext
    BY <2>4, GcKeepsLocks
  <2> QED
    BY <2>1, <2>3, <2>4 DEF Next, Startup
<1> QED
  BY <1>1, <1>2, TypeCorrect, PTL DEF Spec

(* Two garbage-collection runs never hold the same row, and the rows of a  *)
(* run that passed its re-check stay soft-deleted until the run has        *)
(* deleted them: no upload revives one under its SELECT ... FOR UPDATE.    *)
THEOREM LocksHeld == Spec => []LocksExclude
<1>1. LockInv => LocksExclude
  BY DEF LockInv
<1> QED
  BY <1>1, LockInvariant, PTL

(* The only rows that vanish are soft-deleted when they do: the hard       *)
(* delete of a collection spares a row revived since the re-check.         *)
THEOREM OnlyDeletedVanish == Spec => OnlySoftDeletedRowsVanish
<1>1. ASSUME TypeOK, [Next]_vars, NEW id \in RowIds,
             artifacts[id].state # "absent", artifacts'[id].state = "absent"
      PROVE  IsDeleted(id)
  <2>1. CASE UNCHANGED vars
    BY <1>1, <2>1 DEF vars, tableVars
  <2>2. CASE ArtifactServiceNext \/ OciNext \/ Backfill \/ PolicyNext
    BY <1>1, <2>2, RequestsRespectRows DEF RowsRespected
  <2>3. CASE GcNext
    <3> PICK w \in GcWorkers : GcStep(w) \/ CandidateFails(w) \/ RunCrashes(w)
      BY <2>3 DEF GcNext
    <3>1. \/ artifacts' = artifacts
          \/ artifacts' = [i \in RowIds |-> IF i \in RowsToHardDelete(gc[w].object)
                                            THEN AbsentRow ELSE artifacts[i]]
      BY DEF GcStep, SelectOrphans, LockRows, Recheck, SkipCandidate, DeleteObject,
             ObjectIsMissing, HardDeleteRows, BreakDeadlock, FinishRun, CandidateFails,
             RunCrashes, tableVars
    <3> QED
      BY <1>1, <3>1 DEF RowsToHardDelete
  <2> QED
    BY <1>1, <2>1, <2>2, <2>3 DEF Next, Startup
<1>2. TypeOK /\ [Next]_vars =>
        [\A id \in RowIds : (artifacts[id].state # "absent" /\ artifacts'[id].state = "absent")
            => IsDeleted(id)]_vars
  BY <1>1
<1> QED
  BY <1>2, TypeCorrect, PTL DEF Spec, OnlySoftDeletedRowsVanish

-----------------------------------------------------------------------------
(* The invariant behind GcSparesIndexChildren: the recorded references are *)
(* those of the indexes, and without an overlap the object of an open      *)
(* transaction does not become the child of a tagged index.                *)
IndexInv ==
    /\ TypeOK
    /\ \A ref \in manifestRefs : ref[3] \in Children[ref[2]]
    /\ \A w \in GcWorkers : (gc[w].pc = "deleteObject" /\ ~overlap[w])
          => ~ChildOfTaggedIndex(gc[w].object[1], gc[w].object[2])

(* A step after which the only new children of tagged indexes are those of *)
(* a push in progress.                                                     *)
ChildrenAreHeld ==
    /\ \A ref \in manifestRefs' : ref[3] \in Children[ref[2]]
    /\ \A r \in Repos, p \in Manifests, t \in References : \A k :
          (<<r, p, k>> \in manifestRefs' /\ tags'[<<r, t>>] = p)
             => \/ <<r, p, k>> \in manifestRefs /\ tags[<<r, t>>] = p
                \/ InProgress(<<Location[r], k>>)'

LEMMA ChildrenAreHeldStep ==
    ASSUME IndexInv, TypeOK', RecordHistory, ChildrenAreHeld,
           \A w \in GcWorkers : gc'[w].pc = "deleteObject" => gc'[w] = gc[w]
    PROVE  IndexInv'
<1>1. ASSUME NEW w \in GcWorkers, gc'[w].pc = "deleteObject", ~overlap'[w]
      PROVE  ~ChildOfTaggedIndex(gc[w].object[1], gc[w].object[2])'
  <2>1. gc[w].pc = "deleteObject" /\ ~overlap[w] /\ ~InProgress(gc[w].object)'
    BY <1>1 DEF RecordHistory
  <2>2. PICK l \in Locations, k \in Keys : gc[w].object = <<l, k>>
    BY <2>1 DEF IndexInv, TypeOK, GcTypeOK, GcRun, Objects
  <2>3. /\ gc[w].object[1] = l /\ gc[w].object[2] = k
        /\ gc'[w].object[1] = l /\ gc'[w].object[2] = k
    BY <1>1, <2>2
  <2>4. ~ChildOfTaggedIndex(gc[w].object[1], gc[w].object[2])
    BY <2>1 DEF IndexInv
  <2>5. ~ChildOfTaggedIndex(l, k)
    BY <2>3, <2>4
  <2>6. ~InProgress(<<l, k>>)'
    BY <2>1, <2>3 DEF InProgress, UploadHolds, PushHolds, LocationOf
  <2> QED
    BY <2>3, <2>5, <2>6 DEF ChildrenAreHeld, ChildOfTaggedIndex
<1>2. \A w \in GcWorkers : gc'[w].pc = "deleteObject" => gc'[w].object = gc[w].object
  OBVIOUS
<1> QED
  BY <1>1, <1>2 DEF IndexInv, ChildrenAreHeld, ChildOfTaggedIndex

LEMMA OciChildrenHeld ==
    ASSUME IndexInv, OciNext
    PROVE  ChildrenAreHeld
<1>0. ASSUME NEW c \in OciClients, oci[c].pc # "idle"
      PROVE  /\ oci[c] \in OciRequest /\ oci[c].id \in TagIds
             /\ \A pc : GoTo(c, pc) => /\ oci'[c].pc = pc /\ oci'[c].id = oci[c].id
                                       /\ oci'[c].key = oci[c].key
  BY <1>0 DEF IndexInv, TypeOK, OciTypeOK, OciRequest, NoOciRequest, GoTo
<1>1. ASSUME manifestRefs' = manifestRefs, \A id \in TagIds : tags'[id] \in {tags[id], Nil}
      PROVE  ChildrenAreHeld
  <2>1. Nil \notin Manifests
    BY NilAssumption DEF Keys
  <2> QED
    BY <1>1, <2>1 DEF IndexInv, ChildrenAreHeld, TagIds
<1>2. CASE \E c \in OciClients : UpsertTag(c)
  <2> PICK c \in OciClients : UpsertTag(c)
    BY <1>2
  <2>1. /\ oci[c].pc = "tag" /\ oci[c].id \in TagIds
        /\ tags' = [tags EXCEPT ![oci[c].id] = oci[c].key] /\ manifestRefs' = manifestRefs
        /\ oci'[c].pc \in {"refs", "row"} /\ oci'[c].id = oci[c].id /\ oci'[c].key = oci[c].key
    BY <1>0 DEF UpsertTag
  <2>2. ASSUME NEW r \in Repos, NEW p \in Manifests, NEW t \in References, NEW k,
               <<r, p, k>> \in manifestRefs, tags'[<<r, t>>] = p, tags[<<r, t>>] # p
        PROVE  InProgress(<<Location[r], k>>)'
    <3>1. oci[c].id = <<r, t>> /\ oci[c].key = p
      BY <2>1, <2>2 DEF IndexInv, TypeOK, TablesTypeOK, TagIds
    <3>2. k \in Children[p]
      BY <2>2 DEF IndexInv
    <3> QED
      BY <2>1, <3>1, <3>2 DEF InProgress, PushHolds, LocationOf
  <2> QED
    BY <2>1, <2>2 DEF IndexInv, ChildrenAreHeld
<1>3. CASE \E c \in OciClients : RecordManifestRefs(c)
  <2> PICK c \in OciClients : RecordManifestRefs(c)
    BY <1>3
  <2>1. /\ oci[c].pc = "refs" /\ tags' = tags
        /\ manifestRefs' = manifestRefs \cup
              {<<oci[c].id[1], oci[c].key, child>> : child \in Children[oci[c].key]}
        /\ oci'[c].pc = "row" /\ oci'[c].id = oci[c].id /\ oci'[c].key = oci[c].key
    BY <1>0 DEF RecordManifestRefs
  <2>2. ASSUME NEW r \in Repos, NEW p \in Manifests, NEW k,
               <<r, p, k>> \in manifestRefs', <<r, p, k>> \notin manifestRefs
        PROVE  InProgress(<<Location[r], k>>)'
    <3>1. oci[c].id[1] = r /\ oci[c].key = p /\ k \in Children[p]
      BY <2>1, <2>2
    <3> QED
      BY <2>1, <3>1 DEF InProgress, PushHolds, LocationOf
  <2> QED
    BY <2>1, <2>2 DEF IndexInv, ChildrenAreHeld
<1>4. CASE \E c \in OciClients : DeleteTags(c)
  BY <1>1, <1>4 DEF DeleteTags
<1>5. CASE \E c \in OciClients : \/ BeginPush(c) \/ BeginDelete(c) \/ PutManifest(c)
                                 \/ ManifestRefsFail(c) \/ UpsertManifestRow(c)
                                 \/ SoftDeleteManifestRow(c) \/ OciRequestFails(c)
  BY <1>1, <1>5 DEF BeginPush, BeginDelete, PutManifest, ManifestRefsFail, UpsertManifestRow,
                    SoftDeleteManifestRow, OciRequestFails, tableVars
<1> QED
  BY <1>2, <1>3, <1>4, <1>5 DEF OciNext, OciStep

LEMMA GcKeepsIndexes ==
    ASSUME IndexInv, TypeOK', GcNext, UNCHANGED <<upload, oci, policyRun>>, RecordHistory
    PROVE  IndexInv'
<1> PICK w \in GcWorkers : GcStep(w) \/ CandidateFails(w) \/ RunCrashes(w)
  BY DEF GcNext
<1>1. gc \in [GcWorkers -> GcRun] /\ gc[w] \in GcRun
  BY DEF IndexInv, TypeOK, GcTypeOK
<1>2. tags' = tags /\ manifestRefs' = manifestRefs
  BY DEF GcStep, SelectOrphans, LockRows, Recheck, SkipCandidate, DeleteObject, ObjectIsMissing,
         HardDeleteRows, BreakDeadlock, FinishRun, CandidateFails, RunCrashes, tableVars
<1>3. ChildrenAreHeld
  BY <1>2 DEF IndexInv, ChildrenAreHeld
<1>4. \A v \in GcWorkers \ {w} : gc'[v] = gc[v]
  BY <1>1 DEF GcStep, SelectOrphans, LockRows, Recheck, SkipCandidate, DeleteObject,
              ObjectIsMissing, HardDeleteRows, BreakDeadlock, FinishRun, CandidateFails,
              RunCrashes, CommitOrRollback
<1>5. CASE Recheck(w)
  <2>1. gc'[w].object = gc[w].object
    BY <1>1, <1>5 DEF Recheck, GcRun
  <2>2. PICK row \in RowIds : ObjectOf(row) = gc[w].object /\ OrphanPredicate(row)
    BY <1>5 DEF Recheck, StillOrphan, RowsOf
  <2>3. ~ChildOfTaggedIndex(gc[w].object[1], gc[w].object[2])
    BY <2>2 DEF OrphanPredicate, Referenced, ObjectOf
  <2>4. \A v \in GcWorkers : (gc'[v].pc = "deleteObject" /\ ~overlap'[v]) => ~overlap[v]
    BY DEF RecordHistory
  <2> QED
    <3>1. ASSUME NEW v \in GcWorkers, gc'[v].pc = "deleteObject", ~overlap'[v]
          PROVE  /\ ~ChildOfTaggedIndex(gc[v].object[1], gc[v].object[2])
                 /\ gc'[v].object = gc[v].object
      <4>1. CASE v = w
        BY <2>1, <2>3, <4>1
      <4>2. CASE v # w
        <5>1. gc'[v] = gc[v] /\ ~overlap[v]
          BY <1>4, <2>4, <3>1, <4>2
        <5> QED
          BY <3>1, <5>1 DEF IndexInv
      <4> QED
        BY <4>1, <4>2
    <3> QED
      BY <1>2, <3>1 DEF IndexInv, ChildOfTaggedIndex
<1>6. CASE ~Recheck(w)
  <2>1. gc'[w].pc # "deleteObject"
    <3>1. CASE SelectOrphans(w)
      BY <1>1, <3>1 DEF SelectOrphans, GcRun
    <3>2. CASE LockRows(w)
      BY <1>1, <3>2 DEF LockRows, GcRun
    <3>3. CASE DeleteObject(w)
      BY <1>1, <3>3 DEF DeleteObject, GcRun
    <3>4. CASE FinishRun(w)
      BY <1>1, <3>4 DEF FinishRun, GcRun
    <3>5. CommitOrRollback(w) => gc'[w].pc = "next"
      BY <1>1 DEF CommitOrRollback, GcRun
    <3>6. CASE RunCrashes(w)
      BY <1>1, <3>6 DEF RunCrashes
    <3> QED
      BY <1>6, <3>1, <3>2, <3>3, <3>4, <3>5, <3>6
      DEF GcStep, SkipCandidate, ObjectIsMissing, HardDeleteRows, BreakDeadlock, CandidateFails
  <2> QED
    BY <1>3, <1>4, <2>1, ChildrenAreHeldStep
<1> QED
  BY <1>5, <1>6

LEMMA IndexInvariant == Spec => []IndexInv
<1>1. Init => IndexInv
  BY TypeCorrectInit DEF Init, TablesInit, GcInit, IndexInv
<1>2. IndexInv /\ TypeOK' /\ [Next]_vars => IndexInv'
  <2> SUFFICES ASSUME IndexInv, TypeOK', [Next]_vars PROVE IndexInv'
    OBVIOUS
  <2>1. CASE UNCHANGED vars
    BY <2>1 DEF vars, tableVars, historyVars, IndexInv, ChildOfTaggedIndex
  <2>2. CASE ArtifactServiceNext /\ UNCHANGED <<oci, policyRun, gc>> /\ RecordHistory
    <3>1. tags' = tags /\ manifestRefs' = manifestRefs
      BY <2>2 DEF ArtifactServiceNext, BeginUpload, UploadStep, ProbeContent, PutContent,
                  InsertArtifact, UploadFails, DeleteArtifact, tableVars
    <3>2. ChildrenAreHeld
      BY <3>1 DEF IndexInv, ChildrenAreHeld
    <3> QED
      BY <2>2, <3>2, ChildrenAreHeldStep
  <2>3. CASE OciNext /\ UNCHANGED <<upload, policyRun, gc>> /\ RecordHistory
    BY <2>3, OciChildrenHeld, ChildrenAreHeldStep
  <2>4. CASE PolicyNext /\ UNCHANGED <<upload, oci, gc>> /\ RecordHistory
    <3>1. manifestRefs' = manifestRefs /\ \A id \in TagIds : tags'[id] \in {tags[id], Nil}
      BY <2>4 DEF PolicyNext, ExecutePolicy, CascadeTags, PolicyRunFails
    <3>2. Nil \notin Manifests
      BY NilAssumption DEF Keys
    <3>3. ChildrenAreHeld
      BY <3>1, <3>2 DEF IndexInv, ChildrenAreHeld, TagIds
    <3> QED
      BY <2>4, <3>3, ChildrenAreHeldStep
  <2>5. CASE GcNext /\ UNCHANGED <<upload, oci, policyRun>> /\ RecordHistory
    BY <2>5, GcKeepsIndexes
  <2>6. CASE Startup /\ UNCHANGED <<upload, policyRun, gc>>
    <3>1. \A w \in GcWorkers : gc'[w].pc = "idle"
      BY <2>6 DEF Startup
    <3>2. PICK rp \in Unbackfilled :
             manifestRefs' = manifestRefs \cup {<<rp[1], rp[2], child>> : child \in Children[rp[2]]}
      BY <2>6 DEF Startup, Backfill
    <3>3. \A ref \in manifestRefs' : ref[3] \in Children[ref[2]]
      BY <3>2 DEF IndexInv
    <3> QED
      BY <3>1, <3>3 DEF IndexInv
  <2> QED
    BY <2>1, <2>2, <2>3, <2>4, <2>5, <2>6 DEF Next
<1> QED
  BY <1>1, <1>2, TypeCorrect, PTL DEF Spec

(* A collection deletes the manifest of a child of a tagged image index    *)
(* only if a push that lists it overlapped the run's transaction.          *)
THEOREM IndexChildrenSpared == Spec => GcSparesIndexChildren
<1>1. IndexInv /\ [Next]_vars =>
        [\A w \in GcWorkers :
            (gc[w].pc = "deleteObject" /\ gc'[w].pc = "deleteRows" /\ ~overlap[w])
               => ~ChildOfTaggedIndex(gc[w].object[1], gc[w].object[2])]_vars
  BY DEF IndexInv
<1> QED
  BY <1>1, IndexInvariant, PTL DEF Spec, GcSparesIndexChildren

-----------------------------------------------------------------------------
(* Artifact storage implements LeasedObjects: each statement is a step of  *)
(* the registry or leaves it as it is.                                     *)

LEMMA ObjectPairs ==
    /\ \A o \in Objects : o = <<o[1], o[2]>> /\ o # NoObject
    /\ \A id \in RowIds, k \in Keys : <<LocationOf(id), k>> \in Objects
  BY NilAssumption, RowIdFacts DEF Objects, NoObject

(* What is held changes only with the objects in storage: a step that      *)
(* leaves those alone moves nothing, and a put adds what it put.           *)
LEMMA HeldSteps ==
    ASSUME RecordHistory
    PROVE  /\ blobs' = blobs => HeldObjects' = HeldObjects
           /\ \A l, k : StoragePut(l, k) => HeldObjects' = HeldObjects \cup {<<l, k>>}
  BY DEF RecordHistory, HeldObjects, StoragePut

LEMMA SameBindings ==
    ASSUME artifacts' = artifacts, tags' = tags
    PROVE  Bindings' = Bindings
  BY DEF Bindings, BoundNames, BoundObject, IsLive, ObjectOf, LocationOf

(* A name whose row and tag are what they were, or are gone, is what it    *)
(* was or is gone.                                                         *)
NothingBound ==
    /\ \A id \in RowIds : artifacts'[id].state = "live" => artifacts'[id] = artifacts[id]
    /\ \A id \in TagIds : tags'[id] # Nil => tags'[id] = tags[id]

SameLeases == ObjectsInProgress' = ObjectsInProgress

LEMMA UnbindStep ==
    ASSUME NothingBound, HeldObjects' = HeldObjects, SameLeases
    PROVE  Registry!Next
<1> DEFINE S == {n \in BoundNames : BoundObject(n)' = NoObject}
<1>1. ASSUME NEW n \in BoundNames, n \notin S
      PROVE  BoundObject(n)' = BoundObject(n)
  <2>1. CASE n \in {"row"} \X RowIds
    <3>1. n[1] = "row" /\ n[2] \in RowIds
      BY <2>1
    <3>2. IsLive(n[2])'
      BY <1>1, <3>1 DEF BoundObject
    <3>3. artifacts'[n[2]] = artifacts[n[2]]
      BY <3>1, <3>2 DEF NothingBound, IsLive
    <3> QED
      BY <3>1, <3>2, <3>3 DEF BoundObject, IsLive, ObjectOf, LocationOf
  <2>2. CASE n \in {"tag"} \X TagIds
    <3>1. n[1] = "tag" /\ n[2] \in TagIds /\ "tag" # "row"
      BY <2>2
    <3>2. tags'[n[2]] # Nil
      BY <1>1, <3>1 DEF BoundObject
    <3> QED
      BY <3>1, <3>2 DEF BoundObject, NothingBound, LocationOf
  <2> QED
    BY <2>1, <2>2 DEF BoundNames
<1>2. Bindings' = [n \in BoundNames |-> IF n \in S THEN NoObject ELSE Bindings[n]]
  BY <1>1 DEF Bindings
<1>3. Registry!Unbind(S)
  BY <1>2 DEF Registry!Unbind, SameLeases
<1> QED
  BY <1>3 DEF Registry!Next

(* A step that binds nothing and takes no lease.                           *)
LEMMA ReleaseStep ==
    ASSUME artifacts' = artifacts, tags' = tags, HeldObjects' = HeldObjects,
           ObjectsInProgress' \subseteq ObjectsInProgress
    PROVE  Registry!Next
  BY SameBindings DEF Registry!Next, Registry!Release

(* Writing one row or one tag binds one name.                              *)
LEMMA BindRow ==
    ASSUME TypeOK, NEW id \in RowIds, NEW key \in Keys, NEW version,
           UpsertArtifact(id, key, version), tags' = tags, HeldObjects' = HeldObjects,
           <<LocationOf(id), key>> \in HeldObjects \cap ObjectsInProgress,
           ObjectsInProgress' \subseteq ObjectsInProgress
    PROVE  Registry!Next
<1> DEFINE n == <<"row", id>>
           o == <<LocationOf(id), key>>
<1>1. n \in BoundNames /\ o \in Objects
  BY ObjectPairs DEF BoundNames
<1>2. /\ IsLive(id)' /\ artifacts'[id].key = key
      /\ \A i \in RowIds : i # id => artifacts'[i] = artifacts[i]
  BY DEF UpsertArtifact, TypeOK, TablesTypeOK, IsLive
<1>3. BoundObject(n)' = o
  BY <1>2 DEF BoundObject, ObjectOf, LocationOf
<1>4. ASSUME NEW m \in BoundNames, m # n PROVE BoundObject(m)' = BoundObject(m)
  BY <1>2, <1>4 DEF BoundNames, BoundObject, IsLive, ObjectOf, LocationOf
<1>5. Bindings' = [Bindings EXCEPT ![n] = o]
  BY <1>1, <1>3, <1>4 DEF Bindings
<1>6. Registry!Bind(n, o)
  BY <1>5 DEF Registry!Bind
<1> QED
  BY <1>1, <1>6 DEF Registry!Next

LEMMA BindTag ==
    ASSUME TypeOK, NEW id \in TagIds, NEW key \in Keys, artifacts' = artifacts,
           tags' = [tags EXCEPT ![id] = key], HeldObjects' = HeldObjects,
           <<LocationOf(id), key>> \in HeldObjects \cap ObjectsInProgress,
           ObjectsInProgress' \subseteq ObjectsInProgress
    PROVE  Registry!Next
<1> DEFINE n == <<"tag", id>>
           o == <<LocationOf(id), key>>
<1>1. n \in BoundNames /\ o \in Objects /\ "tag" # "row"
  BY ObjectPairs, RowIdFacts DEF BoundNames
<1>2. /\ tags'[id] = key /\ key # Nil
      /\ \A i \in TagIds : i # id => tags'[i] = tags[i]
  BY NilAssumption DEF TypeOK, TablesTypeOK
<1>3. BoundObject(n)' = o
  BY <1>1, <1>2 DEF BoundObject, LocationOf
<1>4. ASSUME NEW m \in BoundNames, m # n PROVE BoundObject(m)' = BoundObject(m)
  BY <1>2, <1>4 DEF BoundNames, BoundObject, IsLive, ObjectOf, LocationOf
<1>5. Bindings' = [Bindings EXCEPT ![n] = o]
  BY <1>1, <1>3, <1>4 DEF Bindings
<1>6. Registry!Bind(n, o)
  BY <1>5 DEF Registry!Bind
<1> QED
  BY <1>1, <1>6 DEF Registry!Next

(* An upload's lease begins when it has found or stored its content and    *)
(* ends with the request.                                                  *)
LEMMA UploadLeases ==
    ASSUME NEW u \in Uploaders, oci' = oci,
           \A v \in Uploaders \ {u} : upload'[v] = upload[v],
           NEW o \in Objects, o = <<LocationOf(upload'[u].id), upload'[u].key>>
    PROVE  /\ upload'[u].pc # "insert" => ObjectsInProgress' \subseteq ObjectsInProgress
           /\ (upload'[u].pc = "insert" /\ upload[u].pc # "insert") =>
                 ObjectsInProgress' = ObjectsInProgress \cup {o}
<1>1. \A c \in OciClients : \A l, k : PushHolds(c, l, k)' <=> PushHolds(c, l, k)
  BY DEF PushHolds, LocationOf
<1>2. \A v \in Uploaders \ {u} : \A l, k : UploadHolds(v, l, k)' <=> UploadHolds(v, l, k)
  BY DEF UploadHolds, LocationOf
<1>3. ASSUME upload'[u].pc # "insert"
      PROVE  ObjectsInProgress' \subseteq ObjectsInProgress
  <2>1. \A l, k : ~UploadHolds(u, l, k)'
    BY <1>3 DEF UploadHolds
  <2> QED
    BY <1>1, <1>2, <2>1 DEF ObjectsInProgress, InProgress
<1>4. ASSUME upload'[u].pc = "insert", upload[u].pc # "insert"
      PROVE  ObjectsInProgress' = ObjectsInProgress \cup {o}
  <2>1. \A l, k : ~UploadHolds(u, l, k)
    BY <1>4 DEF UploadHolds
  <2>2. \A p \in Objects : UploadHolds(u, p[1], p[2])' <=> p = o
    BY <1>4, ObjectPairs DEF UploadHolds, LocationOf
  <2> QED
    BY <1>1, <1>2, <2>1, <2>2 DEF ObjectsInProgress, InProgress
<1> QED
  BY <1>3, <1>4

LEMMA UploadRegistry ==
    ASSUME ContentInv, ArtifactServiceNext, UNCHANGED <<oci, policyRun, gc>>, RecordHistory
    PROVE  Registry!Next
<1>1. ASSUME NEW u \in Uploaders, NEW new, upload' = [upload EXCEPT ![u] = new],
             new.pc # "insert", artifacts' = artifacts, tags' = tags, blobs' = blobs
      PROVE  Registry!Next
  <2>1. upload'[u] = new /\ \A v \in Uploaders \ {u} : upload'[v] = upload[v]
    BY <1>1 DEF ContentInv, TypeOK, UploadTypeOK
  <2>2. \A l, k : ~UploadHolds(u, l, k)'
    BY <1>1, <2>1 DEF UploadHolds
  <2>3. ObjectsInProgress' \subseteq ObjectsInProgress
    BY <2>1, <2>2 DEF ObjectsInProgress, InProgress, UploadHolds, PushHolds, LocationOf
  <2> QED
    BY <1>1, <2>3, HeldSteps, ReleaseStep
<1>2. ASSUME NEW u \in Uploaders, upload[u].pc # "idle"
      PROVE  /\ upload[u] \in Upload
             /\ upload[u].id \in RowIds
             /\ upload[u].key \in Keys
             /\ <<LocationOf(upload[u].id), upload[u].key>> \in Objects
  BY <1>2, RowIdFacts, ObjectPairs DEF ContentInv, TypeOK, UploadTypeOK, Upload, NoUpload, Keys
<1>3. ASSUME NEW u \in Uploaders, upload[u].pc # "idle", NEW pc, upload' = [upload EXCEPT ![u].pc = pc]
      PROVE  /\ \A v \in Uploaders \ {u} : upload'[v] = upload[v]
             /\ upload'[u].id = upload[u].id /\ upload'[u].key = upload[u].key
             /\ upload'[u].pc = pc
  BY <1>2, <1>3 DEF ContentInv, TypeOK, UploadTypeOK, Upload
<1>4. CASE \E u \in Uploaders : BeginUpload(u)
  <2>1. PICK u \in Uploaders : BeginUpload(u)
    BY <1>4
  <2>2. PICK new : upload' = [upload EXCEPT ![u] = new] /\ new.pc # "insert"
    BY <2>1 DEF BeginUpload
  <2>3. artifacts' = artifacts /\ tags' = tags /\ blobs' = blobs
    BY <2>1 DEF BeginUpload, tableVars
  <2> QED
    BY <1>1, <2>2, <2>3
<1>5. CASE \E u \in Uploaders : UploadFails(u)
  <2>1. PICK u \in Uploaders : UploadFails(u)
    BY <1>5
  <2>2. NoUpload.pc # "insert"
    BY DEF NoUpload
  <2>3. /\ upload' = [upload EXCEPT ![u] = NoUpload]
        /\ artifacts' = artifacts /\ tags' = tags /\ blobs' = blobs
    BY <2>1 DEF UploadFails
  <2> QED
    BY <1>1, <2>2, <2>3
<1>6. CASE \E u \in Uploaders : ProbeContent(u)
  <2> PICK u \in Uploaders : ProbeContent(u)
    BY <1>6
  <2> DEFINE o == <<LocationOf(upload[u].id), upload[u].key>>
             pc == IF StorageExists(LocationOf(upload[u].id), upload[u].key) THEN "insert" ELSE "put"
  <2>1. upload[u].pc = "probe" /\ upload' = [upload EXCEPT ![u].pc = pc]
        /\ artifacts' = artifacts /\ tags' = tags /\ blobs' = blobs
    BY DEF ProbeContent, tableVars
  <2>2. /\ \A v \in Uploaders \ {u} : upload'[v] = upload[v]
        /\ upload'[u].id = upload[u].id /\ upload'[u].key = upload[u].key /\ upload'[u].pc = pc
    BY <1>3, <2>1
  <2>3. o \in Objects /\ o = <<LocationOf(upload'[u].id), upload'[u].key>>
    BY <1>2, <2>1, <2>2
  <2>4. CASE o \in blobs
    <3>1. ObjectsInProgress' = ObjectsInProgress \cup {o}
      BY <2>1, <2>2, <2>3, <2>4, UploadLeases DEF StorageExists
    <3>2. Registry!Find(o)
      BY <2>1, <2>4, <3>1, HeldSteps, SameBindings DEF Registry!Find, HeldObjects
    <3> QED
      BY <2>3, <3>2 DEF Registry!Next
  <2>5. CASE o \notin blobs
    <3>1. ObjectsInProgress' \subseteq ObjectsInProgress
      BY <2>2, <2>3, <2>5, UploadLeases DEF StorageExists
    <3> QED
      BY <2>1, <3>1, HeldSteps, ReleaseStep
  <2> QED
    BY <2>4, <2>5
<1>7. CASE \E u \in Uploaders : PutContent(u)
  <2> PICK u \in Uploaders : PutContent(u)
    BY <1>7
  <2> DEFINE o == <<LocationOf(upload[u].id), upload[u].key>>
  <2>1. /\ \A v \in Uploaders \ {u} : upload'[v] = upload[v]
        /\ upload'[u].id = upload[u].id /\ upload'[u].key = upload[u].key
        /\ upload'[u].pc = "insert" /\ upload[u].pc = "put"
    BY <1>3 DEF PutContent
  <2>2. o \in Objects /\ o = <<LocationOf(upload'[u].id), upload'[u].key>>
    BY <1>2, <2>1
  <2>3. ObjectsInProgress' = ObjectsInProgress \cup {o}
    BY <2>1, <2>2, UploadLeases
  <2>4. HeldObjects' = HeldObjects \cup {o}
    BY HeldSteps DEF PutContent
  <2>5. Registry!Put(o, {})
    BY <2>3, <2>4, SameBindings DEF PutContent, Registry!Put
  <2> QED
    BY <2>2, <2>5 DEF Registry!Next
<1>8. CASE \E u \in Uploaders : InsertArtifact(u)
  <2> PICK u \in Uploaders : InsertArtifact(u)
    BY <1>8
  <2> DEFINE o == <<LocationOf(upload[u].id), upload[u].key>>
  <2>1. upload[u].pc = "insert" /\ o \in Objects
    BY <1>2 DEF InsertArtifact
  <2>2. o \in HeldObjects \cap ObjectsInProgress
    BY <2>1, ObjectPairs
    DEF ContentInv, RequestsHaveContent, HeldObjects, ObjectsInProgress, InProgress, UploadHolds
  <2>3. /\ upload'[u].pc = "idle"
        /\ \A v \in Uploaders \ {u} : upload'[v] = upload[v]
    BY DEF InsertArtifact, NoUpload, ContentInv, TypeOK, UploadTypeOK
  <2>4. ObjectsInProgress' \subseteq ObjectsInProgress
    BY <2>3 DEF ObjectsInProgress, InProgress, UploadHolds, PushHolds, LocationOf
  <2> QED
    BY <1>2, <2>1, <2>2, <2>4, HeldSteps, BindRow DEF InsertArtifact, ContentInv
<1>9. CASE DeleteArtifact
  <2>1. NothingBound
    BY <1>9, SoftDeleteRevivesNothing
    DEF DeleteArtifact, NothingBound, ContentInv, TypeOK
  <2>2. SameLeases
    BY <1>9 DEF DeleteArtifact, SameLeases, ObjectsInProgress, InProgress, UploadHolds, PushHolds,
            LocationOf
  <2> QED
    BY <1>9, <2>1, <2>2, HeldSteps, UnbindStep DEF DeleteArtifact
<1> QED
  BY <1>4, <1>5, <1>6, <1>7, <1>8, <1>9 DEF ArtifactServiceNext, UploadStep

(* A request that takes no part in a push any more, or goes on with the    *)
(* one it is in, leases nothing new.                                       *)
LEMMA PushLeases ==
    ASSUME NEW c \in OciClients, upload' = upload,
           \A d \in OciClients \ {c} : oci'[d] = oci[d],
           oci'[c].pc \in {"tag", "refs", "row"} =>
              /\ oci[c].pc \in {"tag", "refs", "row"}
              /\ oci'[c].id = oci[c].id /\ oci'[c].key = oci[c].key
    PROVE  ObjectsInProgress' \subseteq ObjectsInProgress
<1>1. \A u \in Uploaders : \A l, k : UploadHolds(u, l, k)' <=> UploadHolds(u, l, k)
  BY DEF UploadHolds, LocationOf
<1>2. \A d \in OciClients : \A l, k : PushHolds(d, l, k)' => PushHolds(d, l, k)
  <2> TAKE d \in OciClients
  <2>1. CASE d = c
    BY <2>1 DEF PushHolds, LocationOf
  <2>2. CASE d # c
    BY <2>2 DEF PushHolds, LocationOf
  <2> QED
    BY <2>1, <2>2
<1> QED
  BY <1>1, <1>2 DEF ObjectsInProgress, InProgress

LEMMA OciRegistrySteps ==
    ASSUME ContentInv, OciNext \/ Backfill, UNCHANGED <<upload, policyRun, gc>>, RecordHistory
    PROVE  Registry!Next
<1>1. ASSUME NEW c \in OciClients, oci[c].pc # "idle"
      PROVE  /\ oci[c] \in OciRequest
             /\ oci[c].id \in TagIds /\ oci[c].id \in RowIds
             /\ oci[c].key \in Manifests /\ oci[c].key \in Keys
             /\ <<LocationOf(oci[c].id), oci[c].key>> \in Objects
  BY <1>1, RowIdFacts, ObjectPairs DEF ContentInv, TypeOK, OciTypeOK, OciRequest, NoOciRequest, Keys
<1>2. ASSUME NEW c \in OciClients, oci[c].pc # "idle", NEW pc, GoTo(c, pc)
      PROVE  /\ \A d \in OciClients \ {c} : oci'[d] = oci[d]
             /\ oci'[c].id = oci[c].id /\ oci'[c].key = oci[c].key /\ oci'[c].pc = pc
  BY <1>1, <1>2 DEF GoTo, ContentInv, TypeOK, OciTypeOK, OciRequest
<1>3. ASSUME NEW c \in OciClients, Finish(c)
      PROVE  /\ \A d \in OciClients \ {c} : oci'[d] = oci[d]
             /\ oci'[c].pc = "idle"
  BY <1>3 DEF Finish, NoOciRequest, ContentInv, TypeOK, OciTypeOK
<1>4. CASE \E c \in OciClients : BeginPush(c) \/ BeginDelete(c)
  <2> PICK c \in OciClients : BeginPush(c) \/ BeginDelete(c)
    BY <1>4
  <2>1. /\ \A d \in OciClients \ {c} : oci'[d] = oci[d]
        /\ oci'[c].pc \in {"put", "untag"}
    BY DEF BeginPush, BeginDelete, ContentInv, TypeOK, OciTypeOK
  <2> QED
    BY <2>1, PushLeases, HeldSteps, ReleaseStep DEF BeginPush, BeginDelete, tableVars
<1>5. CASE \E c \in OciClients : PutManifest(c)
  <2> PICK c \in OciClients : PutManifest(c)
    BY <1>5
  <2> DEFINE o == <<LocationOf(oci[c].id), oci[c].key>>
             S == {<<LocationOf(oci[c].id), k>> : k \in Children[oci[c].key]}
  <2>1. oci[c].pc = "put" /\ o \in Objects
    BY <1>1 DEF PutManifest
  <2>2. S \subseteq Objects
    BY <1>1, <2>1, ChildrenAssumption, ObjectPairs DEF Keys
  <2>3. /\ \A d \in OciClients \ {c} : oci'[d] = oci[d]
        /\ oci'[c].id = oci[c].id /\ oci'[c].key = oci[c].key /\ oci'[c].pc = "tag"
    BY <1>2, <2>1 DEF PutManifest
  <2>4. \A p \in Objects : InProgress(p)' <=> InProgress(p) \/ p = o \/ p \in S
    <3> TAKE p \in Objects
    <3>1. p = <<p[1], p[2]>>
      BY ObjectPairs
    <3>2. PushHolds(c, p[1], p[2])' <=> p = o \/ p \in S
      BY <2>3, <3>1 DEF PushHolds, LocationOf
    <3>3. ~PushHolds(c, p[1], p[2])
      BY <2>1 DEF PushHolds
    <3>4. \A d \in OciClients \ {c} : PushHolds(d, p[1], p[2])' <=> PushHolds(d, p[1], p[2])
      BY <2>3 DEF PushHolds, LocationOf
    <3>5. \A u \in Uploaders : UploadHolds(u, p[1], p[2])' <=> UploadHolds(u, p[1], p[2])
      BY DEF UploadHolds, LocationOf
    <3> HIDE DEF o, S
    <3> QED
      BY <3>2, <3>3, <3>4, <3>5 DEF InProgress
  <2>5. ObjectsInProgress' = ObjectsInProgress \cup {o} \cup S
    <3> HIDE DEF o, S
    <3> QED
      BY <2>1, <2>2, <2>4 DEF ObjectsInProgress
  <2>6. HeldObjects' = HeldObjects \cup {o}
    BY HeldSteps DEF PutManifest
  <2>7. Registry!Put(o, S)
    BY <2>5, <2>6, SameBindings DEF PutManifest, Registry!Put
  <2> QED
    BY <2>1, <2>2, <2>7 DEF Registry!Next
<1>6. ASSUME NEW c \in OciClients, oci[c].pc \in {"tag", "refs", "row"}
      PROVE  <<LocationOf(oci[c].id), oci[c].key>> \in HeldObjects \cap ObjectsInProgress
  BY <1>1, <1>6, ObjectPairs
  DEF ContentInv, RequestsHaveContent, HeldObjects, ObjectsInProgress, InProgress, PushHolds
<1>7. CASE \E c \in OciClients : UpsertTag(c)
  <2> PICK c \in OciClients : UpsertTag(c)
    BY <1>7
  <2>1. /\ \A d \in OciClients \ {c} : oci'[d] = oci[d]
        /\ oci'[c].id = oci[c].id /\ oci'[c].key = oci[c].key
        /\ oci[c].pc \in {"tag", "refs", "row"}
    BY <1>2 DEF UpsertTag
  <2>2. ObjectsInProgress' \subseteq ObjectsInProgress
    BY <2>1, PushLeases
  <2> QED
    BY <1>1, <1>6, <2>1, <2>2, HeldSteps, BindTag DEF UpsertTag, ContentInv
<1>8. CASE \E c \in OciClients : RecordManifestRefs(c) \/ ManifestRefsFail(c)
  <2> PICK c \in OciClients : RecordManifestRefs(c) \/ ManifestRefsFail(c)
    BY <1>8
  <2>1. /\ \A d \in OciClients \ {c} : oci'[d] = oci[d]
        /\ oci'[c].id = oci[c].id /\ oci'[c].key = oci[c].key
        /\ oci[c].pc \in {"tag", "refs", "row"}
        /\ artifacts' = artifacts /\ tags' = tags /\ blobs' = blobs
    BY <1>2 DEF RecordManifestRefs, ManifestRefsFail
  <2> QED
    BY <2>1, PushLeases, HeldSteps, ReleaseStep
<1>9. CASE \E c \in OciClients : UpsertManifestRow(c)
  <2> PICK c \in OciClients : UpsertManifestRow(c)
    BY <1>9
  <2>1. /\ \A d \in OciClients \ {c} : oci'[d] = oci[d]
        /\ oci'[c].pc = "idle" /\ oci[c].pc = "row"
    BY <1>3 DEF UpsertManifestRow
  <2>2. ObjectsInProgress' \subseteq ObjectsInProgress
    BY <2>1, PushLeases
  <2> QED
    BY <1>1, <1>6, <2>1, <2>2, HeldSteps, BindRow DEF UpsertManifestRow, ContentInv
<1>10. ASSUME NEW c \in OciClients, oci[c].pc \notin {"tag", "refs", "row"},
              oci'[c].pc \notin {"tag", "refs", "row"},
              \A d \in OciClients \ {c} : oci'[d] = oci[d]
       PROVE  SameLeases
  BY <1>10
  DEF SameLeases, ObjectsInProgress, InProgress, UploadHolds, PushHolds, LocationOf
<1>11. CASE \E c \in OciClients : DeleteTags(c)
  <2> PICK c \in OciClients : DeleteTags(c)
    BY <1>11
  <2>1. NothingBound
    BY DEF DeleteTags, NothingBound
  <2>2. SameLeases
    BY <1>2, <1>10 DEF DeleteTags
  <2> QED
    BY <2>1, <2>2, HeldSteps, UnbindStep DEF DeleteTags
<1>12. CASE \E c \in OciClients : SoftDeleteManifestRow(c)
  <2> PICK c \in OciClients : SoftDeleteManifestRow(c)
    BY <1>12
  <2>1. NothingBound
    BY SoftDeleteRevivesNothing DEF SoftDeleteManifestRow, NothingBound, ContentInv, TypeOK
  <2>2. SameLeases
    BY <1>3, <1>10 DEF SoftDeleteManifestRow
  <2> QED
    BY <2>1, <2>2, HeldSteps, UnbindStep DEF SoftDeleteManifestRow
<1>13. CASE \E c \in OciClients : OciRequestFails(c)
  BY <1>3, <1>13, PushLeases, HeldSteps, ReleaseStep DEF OciRequestFails
<1>14. CASE Backfill
  <2>1. ObjectsInProgress' = ObjectsInProgress
    BY <1>14
    DEF Backfill, ObjectsInProgress, InProgress, UploadHolds, PushHolds, LocationOf
  <2> QED
    BY <1>14, <2>1, HeldSteps, ReleaseStep DEF Backfill
<1> QED
  BY <1>4, <1>5, <1>7, <1>8, <1>9, <1>11, <1>12, <1>13, <1>14 DEF OciNext, OciStep

LEMMA PolicyRegistry ==
    ASSUME ContentInv, PolicyNext, UNCHANGED <<upload, oci, gc>>, RecordHistory
    PROVE  Registry!Next
<1>1. NothingBound
  BY SoftDeleteRevivesNothing
  DEF NothingBound, PolicyNext, ExecutePolicy, Selectable, CascadeTags, PolicyRunFails,
      ContentInv, TypeOK
<1>2. SameLeases
  BY DEF SameLeases, ObjectsInProgress, InProgress, UploadHolds, PushHolds, LocationOf
<1>3. blobs' = blobs
  BY DEF PolicyNext, ExecutePolicy, CascadeTags, PolicyRunFails
<1> QED
  BY <1>1, <1>2, <1>3, HeldSteps, UnbindStep

(* The storage delete of a run is the only step that collects.  It takes   *)
(* nothing from the registry when its window was overlapped.               *)
LEMMA GcRegistry ==
    ASSUME ContentInv, GcNext, UNCHANGED <<upload, oci, policyRun>>, RecordHistory
    PROVE  Registry!Next
<1> PICK w \in GcWorkers : GcStep(w) \/ CandidateFails(w) \/ RunCrashes(w)
  BY DEF GcNext
<1>1. SameLeases
  BY DEF SameLeases, ObjectsInProgress, InProgress, UploadHolds, PushHolds, LocationOf
<1>2. CASE DeleteObject(w)
  <2> DEFINE object == gc[w].object
  <2>1. /\ blobs' = blobs \ {object} /\ tags' = tags /\ artifacts' = artifacts
        /\ gc[w].pc = "deleteObject"
    BY <1>2 DEF DeleteObject
  <2>2. object \in Objects
    BY <2>1 DEF ContentInv, TypeOK, GcTypeOK, GcRun
  <2>3. HeldObjects' = HeldObjects \/ HeldObjects' = HeldObjects \ {object}
    BY <2>1 DEF RecordHistory, HeldObjects
  <2>4. CASE HeldObjects' = HeldObjects
    BY <1>1, <2>1, <2>4, ReleaseStep DEF SameLeases
  <2>5. CASE HeldObjects' # HeldObjects
    <3>1. ~overlap[w]
      <4> SUFFICES ASSUME overlap[w] PROVE FALSE
        OBVIOUS
      <4>1. object \in OverlappedObjects
        BY <2>1 DEF OverlappedObjects
      <4> QED
        BY <2>1, <2>5, <4>1 DEF RecordHistory, HeldObjects
    <3>2. /\ ~InProgress(object)
          /\ \A id \in RowIds : IsLive(id) => ObjectOf(id) # object
          /\ \A id \in TagIds : tags[id] # Nil => <<LocationOf(id), tags[id]>> # object
      BY <2>1, <3>1 DEF ContentInv, WindowIsQuiet
    <3>3. ASSUME NEW n \in BoundNames PROVE Bindings[n] # object
      <4>1. object # NoObject
        BY <2>2, ObjectPairs
      <4>2. /\ n[1] = "row" => n[2] \in RowIds
            /\ n[1] # "row" => n[2] \in TagIds
        BY DEF BoundNames
      <4> QED
        BY <3>2, <4>1, <4>2 DEF Bindings, BoundObject
    <3>4. object \notin ObjectsInProgress
      BY <3>2 DEF ObjectsInProgress
    <3>5. Registry!Collect(object)
      BY <1>1, <2>1, <2>3, <2>5, <3>3, <3>4, SameBindings DEF Registry!Collect, SameLeases
    <3> QED
      BY <2>2, <3>5 DEF Registry!Next
  <2> QED
    BY <2>4, <2>5
<1>3. CASE ~DeleteObject(w)
  <2>1. /\ blobs' = blobs /\ tags' = tags
        /\ \A id \in RowIds : artifacts'[id] = artifacts[id] \/ artifacts'[id] = AbsentRow
    BY <1>3
    DEF GcStep, SelectOrphans, LockRows, Recheck, SkipCandidate, ObjectIsMissing, HardDeleteRows,
        BreakDeadlock, FinishRun, CandidateFails, RunCrashes, tableVars
  <2>2. NothingBound
    BY <2>1 DEF NothingBound, AbsentRow
  <2> QED
    BY <1>1, <2>1, <2>2, HeldSteps, UnbindStep
<1> QED
  BY <1>2, <1>3

(* Artifact storage implements the registry of leases, for every set of    *)
(* repositories, locations, clients and collectors: a row or a tag is only *)
(* ever bound to an object that is held and that the writing request has   *)
(* leased, and run_gc collects no object that a row or a tag names or that *)
(* an upload or a push under way counts on.                                *)
THEOREM LeasesImplemented == Spec => ImplementsLeases
<1>1. Init => Registry!Init
  <2> SUFFICES ASSUME Init PROVE Registry!Init
    OBVIOUS
  <2>1. ASSUME NEW n \in BoundNames PROVE BoundObject(n) = NoObject
    <3>1. n[1] = "row" => n[2] \in RowIds
      BY DEF BoundNames
    <3>2. n[1] # "row" => n[2] \in TagIds
      BY DEF BoundNames
    <3> QED
      BY <3>1, <3>2 DEF Init, TablesInit, BoundObject, IsLive, AbsentRow
  <2>2. Bindings = [n \in BoundNames |-> NoObject]
    BY <2>1 DEF Bindings
  <2>3. HeldObjects = {}
    BY DEF Init, TablesInit, HeldObjects
  <2>4. ObjectsInProgress = {}
    BY DEF Init, UploadInit, OciInit, ObjectsInProgress, InProgress, UploadHolds, PushHolds,
           NoUpload, NoOciRequest
  <2> QED
    BY <2>2, <2>3, <2>4 DEF Registry!Init
<1>2. ContentInv /\ [Next]_vars => [Registry!Next]_(Registry!vars)
  <2> SUFFICES ASSUME ContentInv, [Next]_vars PROVE [Registry!Next]_(Registry!vars)
    OBVIOUS
  <2>1. CASE UNCHANGED vars
    <3>1. Bindings' = Bindings
      BY <2>1, SameBindings DEF vars, tableVars
    <3>2. HeldObjects' = HeldObjects /\ ObjectsInProgress' = ObjectsInProgress
      BY <2>1
      DEF vars, tableVars, historyVars, HeldObjects, ObjectsInProgress, InProgress, UploadHolds,
          PushHolds, LocationOf
    <3> QED
      BY <3>1, <3>2 DEF Registry!vars
  <2>2. CASE Next
    BY <2>2, UploadRegistry, OciRegistrySteps, PolicyRegistry, GcRegistry DEF Next, Startup
  <2> QED
    BY <2>1, <2>2
<1> QED
  BY <1>1, <1>2, ContentInvariant, PTL DEF Spec, ImplementsLeases, Registry!Spec

-----------------------------------------------------------------------------
(* Two claims of the code that fail in general hold under a condition: it  *)
(* names what their counterexamples need.                                  *)

(* The key-only DELETE of run_gc leaks nothing where one location holds    *)
(* every object: a row that leaves the table is then one of the object     *)
(* that the run deleted.                                                   *)
THEOREM OneLocationLeaksNothing ==
    ASSUME \A r, s \in Repos : Location[r] = Location[s]
    PROVE  Spec => RecordsFollowTheirObject
<1>1. ASSUME LockInv, [Next]_vars, NEW id \in RowIds,
             artifacts[id].state # "absent", artifacts'[id].state = "absent"
      PROVE  \E w \in GcWorkers : gc[w].object = ObjectOf(id)
  <2>1. CASE UNCHANGED vars
    BY <1>1, <2>1 DEF vars, tableVars
  <2>2. CASE ArtifactServiceNext \/ OciNext \/ Backfill \/ PolicyNext
    BY <1>1, <2>2, RequestsRespectRows DEF RowsRespected, LockInv
  <2>3. CASE GcNext
    <3> PICK w \in GcWorkers : GcStep(w) \/ CandidateFails(w) \/ RunCrashes(w)
      BY <2>3 DEF GcNext
    <3>1. HardDeleteRows(w)
      BY <1>1
      DEF GcStep, SelectOrphans, LockRows, Recheck, SkipCandidate, DeleteObject,
          ObjectIsMissing, BreakDeadlock, FinishRun, CandidateFails, RunCrashes, tableVars
    <3>2. id \in RowsToHardDelete(gc[w].object)
      BY <1>1, <3>1 DEF HardDeleteRows
    <3>3. gc[w].object \in Objects
      BY <1>1, <3>1 DEF HardDeleteRows, LockInv, TypeOK, GcTypeOK, GcRun
    <3>4. LocationOf(id) = gc[w].object[1]
      BY <3>3, RowIdFacts DEF Objects, Locations, LocationOf
    <3>5. gc[w].object = ObjectOf(id)
      BY <3>2, <3>3, <3>4, ObjectPairs DEF RowsToHardDelete, ObjectOf
    <3> QED
      BY <3>5
  <2> QED
    BY <1>1, <2>1, <2>2, <2>3 DEF Next, Startup
<1>2. LockInv /\ [Next]_vars =>
        [\A id \in RowIds : (artifacts[id].state # "absent" /\ artifacts'[id].state = "absent")
            => \E w \in GcWorkers : gc[w].object = ObjectOf(id)]_vars
  BY <1>1
<1> QED
  BY <1>2, LockInvariant, PTL DEF Spec, RecordsFollowTheirObject

(* The check of an upload still holds when its row is written, if no other *)
(* upload can come between.                                                *)
CheckStillPasses ==
    \A u \in Uploaders : upload[u].pc # "idle" =>
        ImmutabilityCheckPasses(upload[u].id, upload[u].version)

(* ArtifactService::upload keeps a version immutable while uploads come    *)
(* one at a time, whatever pushes, deletes, policies, collections and      *)
(* failures run beside them.                                               *)
THEOREM OneUploadKeepsVersions ==
    ASSUME References \cap Names = {},
           \A u, v \in Uploaders : u = v
    PROVE  Spec => VersionsAreImmutable
<1> DEFINE A == \A id \in Repos \X Names :
                  (IsLive(id) /\ artifacts'[id].state = "live"
                     /\ artifacts'[id].version = artifacts[id].version)
                  => artifacts'[id].key = artifacts[id].key
           Inv == TypeOK /\ CheckStillPasses
<1>1. Init => CheckStillPasses
  BY DEF Init, UploadInit, NoUpload, CheckStillPasses
<1>2. ASSUME TypeOK, TypeOK', CheckStillPasses, [Next]_vars PROVE CheckStillPasses' /\ A
  <2>1. ASSUME \A id \in Repos \X Names : artifacts'[id].state = "live" =>
                                          artifacts'[id] = artifacts[id],
               \A u \in Uploaders : upload'[u].pc # "idle" =>
                  /\ upload[u].pc # "idle"
                  /\ upload'[u].id = upload[u].id /\ upload'[u].version = upload[u].version
        PROVE  CheckStillPasses' /\ A
    <3>1. \A u \in Uploaders : upload[u].pc # "idle" => upload[u].id \in Repos \X Names
      BY <1>2 DEF TypeOK, UploadTypeOK, Upload, NoUpload
    <3> QED
      BY <1>2, <2>1, <3>1 DEF CheckStillPasses, ImmutabilityCheckPasses, IsLive
  <2>2. CASE UNCHANGED vars
    BY <2>1, <2>2 DEF vars, tableVars
  <2>3. ASSUME NEW S, SoftDelete(S)
        PROVE  \A id \in RowIds : artifacts'[id].state = "live" => artifacts'[id] = artifacts[id]
    BY <1>2, <2>3, SoftDeleteRevivesNothing DEF TypeOK
  <2>4. \A id \in Repos \X Names : id \in RowIds
    BY RowIdFacts
  <2>5. CASE ArtifactServiceNext
    <3>1. ASSUME NEW u \in Uploaders, upload[u].pc # "idle" PROVE upload[u] \in Upload
      BY <1>2, <3>1 DEF TypeOK, UploadTypeOK, NoUpload
    <3>2. CASE \E u \in Uploaders : BeginUpload(u)
      <4> PICK u \in Uploaders : BeginUpload(u)
        BY <3>2
      <4> PICK r \in Repos, p \in Names, key \in Packages, version \in Versions :
             /\ ImmutabilityCheckPasses(<<r, p>>, version)
             /\ upload' = [upload EXCEPT ![u] = [pc |-> "probe", id |-> <<r, p>>,
                                                key |-> key, version |-> version]]
        BY DEF BeginUpload
      <4>1. upload'[u].id = <<r, p>> /\ upload'[u].version = version
        BY <1>2 DEF TypeOK, UploadTypeOK
      <4>2. artifacts' = artifacts
        BY DEF BeginUpload, tableVars
      <4> QED
        BY <4>1, <4>2 DEF CheckStillPasses, ImmutabilityCheckPasses, IsLive
    <3>3. CASE \E u \in Uploaders : ProbeContent(u) \/ PutContent(u) \/ UploadFails(u)
      <4> PICK u \in Uploaders : ProbeContent(u) \/ PutContent(u) \/ UploadFails(u)
        BY <3>3
      <4>1. artifacts' = artifacts
        BY DEF ProbeContent, PutContent, UploadFails, tableVars
      <4>2. upload'[u].pc # "idle" => /\ upload[u].pc # "idle"
                                     /\ upload'[u].id = upload[u].id
                                     /\ upload'[u].version = upload[u].version
        BY <1>2, <3>1
        DEF ProbeContent, PutContent, UploadFails, TypeOK, UploadTypeOK, Upload, NoUpload
      <4> QED
        BY <2>1, <4>1, <4>2
    <3>4. CASE \E u \in Uploaders : InsertArtifact(u)
      <4> PICK u \in Uploaders : InsertArtifact(u)
        BY <3>4
      <4>1. upload'[u].pc = "idle"
        BY <1>2 DEF InsertArtifact, NoUpload, TypeOK, UploadTypeOK
      <4>2. upload[u].pc # "idle" /\ upload[u].id \in RowIds
        BY <3>1, <2>4 DEF InsertArtifact, Upload
      <4>3. /\ artifacts'[upload[u].id].version = upload[u].version
            /\ \A id \in RowIds : id # upload[u].id => artifacts'[id] = artifacts[id]
        BY <1>2, <4>2 DEF InsertArtifact, UpsertArtifact, TypeOK, TablesTypeOK
      <4>4. ~(IsLive(upload[u].id) /\ artifacts[upload[u].id].version = upload[u].version)
        BY <1>2, <4>2 DEF CheckStillPasses, ImmutabilityCheckPasses
      <4>5. A
        BY <2>4, <4>3, <4>4
      <4> QED
        BY <4>1, <4>5 DEF CheckStillPasses
    <3>5. CASE DeleteArtifact
      BY <2>1, <2>3, <2>4, <3>5 DEF DeleteArtifact
    <3> QED
      BY <2>5, <3>2, <3>3, <3>4, <3>5 DEF ArtifactServiceNext, UploadStep
  <2>6. CASE (OciNext \/ Backfill) /\ UNCHANGED upload
    <3>1. CASE \E c \in OciClients : UpsertManifestRow(c)
      <4> PICK c \in OciClients : UpsertManifestRow(c)
        BY <3>1
      <4>1. oci[c].id \in TagIds
        BY <1>2 DEF UpsertManifestRow, TypeOK, OciTypeOK, OciRequest, NoOciRequest
      <4>2. \A id \in Repos \X Names : id # oci[c].id
        BY <4>1 DEF TagIds
      <4> QED
        BY <2>1, <2>4, <2>6, <4>2 DEF UpsertManifestRow, UpsertArtifact
    <3>2. CASE ~\E c \in OciClients : UpsertManifestRow(c)
      BY <2>1, <2>3, <2>4, <2>6, <3>2
      DEF OciNext, OciStep, BeginPush, BeginDelete, PutManifest, UpsertTag, RecordManifestRefs,
          ManifestRefsFail, DeleteTags, SoftDeleteManifestRow, OciRequestFails, Backfill, tableVars
    <3> QED
      BY <3>1, <3>2
  <2>7. CASE PolicyNext /\ UNCHANGED upload
    BY <2>1, <2>3, <2>4, <2>7 DEF PolicyNext, ExecutePolicy, CascadeTags, PolicyRunFails
  <2>8. CASE GcNext /\ UNCHANGED upload
    <3>1. \A id \in RowIds : artifacts'[id] = artifacts[id] \/ artifacts'[id] = AbsentRow
      BY <2>8
      DEF GcNext, GcStep, SelectOrphans, LockRows, Recheck, SkipCandidate, DeleteObject,
          ObjectIsMissing, HardDeleteRows, BreakDeadlock, FinishRun, CandidateFails, RunCrashes,
          tableVars
    <3> QED
      BY <2>1, <2>4, <2>8, <3>1 DEF AbsentRow
  <2> QED
    BY <1>2, <2>2, <2>5, <2>6, <2>7, <2>8 DEF Next, Startup
<1>3. Spec => []Inv
  BY <1>1, <1>2, TypeCorrect, PTL DEF Spec
<1>4. Inv /\ Inv' /\ [Next]_vars => [A]_vars
  BY <1>2
<1> QED
  BY <1>3, <1>4, PTL DEF Spec, VersionsAreImmutable
=============================================================================
