-------------------------- MODULE ArtifactService --------------------------
(***************************************************************************)
(* ArtifactService::upload and ArtifactService::delete.  An upload is a    *)
(* sequence of independent statements, so other writers run between its    *)
(* immutability check, its deduplication probe, its storage write and its  *)
(* row upsert.  Quota and plugin-hook rejections end the upload before it  *)
(* changes anything and are left out.                                      *)
(***************************************************************************)
EXTENDS ArtifactTables

CONSTANT Uploaders   \* concurrent upload requests

VARIABLE upload      \* upload[u]: where request u is, and what it uploads

UploadPcs == {"idle", "probe", "put", "insert"}
NoUpload == [pc |-> "idle", id |-> Nil, key |-> Nil, version |-> Nil]
Upload == [pc : UploadPcs \ {"idle"}, id : Repos \X Names, key : Packages,
           version : Versions]

UploadTypeOK == upload \in [Uploaders -> Upload \cup {NoUpload}]

UploadInit == upload = [u \in Uploaders |-> NoUpload]

(* From the probe that found the object, or the put that wrote it, to the  *)
(* upsert, the request counts on the object being in storage.              *)
UploadHolds(u, location, key) ==
    /\ upload[u].pc = "insert"
    /\ LocationOf(upload[u].id) = location
    /\ upload[u].key = key

-----------------------------------------------------------------------------
(* SELECT ... WHERE is_deleted = false: the same version is immutable, any *)
(* other version at the path is replaced.                                  *)
ImmutabilityCheckPasses(id, version) ==
    ~(IsLive(id) /\ artifacts[id].version = version)

BeginUpload(u) ==
    /\ upload[u].pc = "idle"
    /\ \E r \in Repos, p \in Names, key \in Packages, version \in Versions :
          /\ ImmutabilityCheckPasses(<<r, p>>, version)
          /\ upload' = [upload EXCEPT ![u] = [pc |-> "probe", id |-> <<r, p>>,
                                              key |-> key, version |-> version]]
    /\ UNCHANGED tableVars

(* storage.exists(key): content that is already stored is not written.     *)
ProbeContent(u) ==
    /\ upload[u].pc = "probe"
    /\ upload' = [upload EXCEPT ![u].pc =
                    IF StorageExists(LocationOf(upload[u].id), upload[u].key)
                    THEN "insert" ELSE "put"]
    /\ UNCHANGED tableVars

PutContent(u) ==
    /\ upload[u].pc = "put"
    /\ StoragePut(LocationOf(upload[u].id), upload[u].key)
    /\ upload' = [upload EXCEPT ![u].pc = "insert"]
    /\ UNCHANGED <<artifacts, tags, manifestRefs, rowLocks, failures>>

InsertArtifact(u) ==
    /\ upload[u].pc = "insert"
    /\ UpsertArtifact(upload[u].id, upload[u].key, upload[u].version)
    /\ upload' = [upload EXCEPT ![u] = NoUpload]
    /\ UNCHANGED <<tags, manifestRefs, blobs, rowLocks, failures>>

(* Any call of an upload can return an error, and the server can stop;     *)
(* nothing that was done is undone.                                        *)
UploadFails(u) ==
    /\ upload[u].pc # "idle"
    /\ Fail
    /\ upload' = [upload EXCEPT ![u] = NoUpload]
    /\ UNCHANGED <<artifacts, tags, manifestRefs, blobs, rowLocks>>

(* get_by_id finds a live row, then UPDATE ... SET is_deleted = true by id.*)
(* A row that is soft-deleted or gone by then is left as it is.            *)
DeleteArtifact ==
    /\ \E id \in RowIds : IsLive(id) /\ SoftDelete({id})
    /\ UNCHANGED <<tags, manifestRefs, blobs, rowLocks, failures, upload>>

UploadStep(u) ==
    \/ ProbeContent(u)
    \/ PutContent(u)
    \/ InsertArtifact(u)

ArtifactServiceNext ==
    \/ \E u \in Uploaders : BeginUpload(u) \/ UploadStep(u) \/ UploadFails(u)
    \/ DeleteArtifact
=============================================================================
