----------------------------- MODULE OciRegistry -----------------------------
(***************************************************************************)
(* The manifest operations of the OCI registry that storage depends on:    *)
(* PUT and DELETE of a manifest, and the startup backfill of               *)
(* oci_manifest_refs.  Layers (oci_blobs) are never collected and are left *)
(* out.  A handler is a sequence of autocommitted statements.              *)
(***************************************************************************)
EXTENDS ArtifactTables

CONSTANT OciClients   \* concurrent manifest requests

VARIABLE oci          \* oci[c]: where request c is, and its (repo, reference), digest

PushPcs == {"put", "tag", "refs", "row"}
DeletePcs == {"untag", "softDelete"}
NoOciRequest == [pc |-> "idle", id |-> Nil, key |-> Nil]
OciRequest == [pc : PushPcs \cup DeletePcs, id : TagIds, key : Manifests]

OciTypeOK == oci \in [OciClients -> OciRequest \cup {NoOciRequest}]

OciInit == oci = [c \in OciClients |-> NoOciRequest]

(* A push counts on its manifest being stored from its put to its end, and *)
(* an image index counts on the children it lists as well.                 *)
PushHolds(c, location, key) ==
    /\ oci[c].pc \in {"tag", "refs", "row"}
    /\ LocationOf(oci[c].id) = location
    /\ oci[c].key = key \/ key \in Children[oci[c].key]

GoTo(c, pc) == oci' = [oci EXCEPT ![c].pc = pc]
Finish(c) == oci' = [oci EXCEPT ![c] = NoOciRequest]

-----------------------------------------------------------------------------
(* handle_put_manifest: storage.put, then the oci_tags upsert, then for an *)
(* image index the oci_manifest_refs rows, then the artifacts row.         *)
BeginPush(c) ==
    /\ oci[c].pc = "idle"
    /\ \E id \in TagIds, key \in Manifests :
          oci' = [oci EXCEPT ![c] = [pc |-> "put", id |-> id, key |-> key]]
    /\ UNCHANGED tableVars

PutManifest(c) ==
    /\ oci[c].pc = "put"
    /\ StoragePut(LocationOf(oci[c].id), oci[c].key)
    /\ GoTo(c, "tag")
    /\ UNCHANGED <<artifacts, tags, manifestRefs, rowLocks, failures>>

UpsertTag(c) ==
    /\ oci[c].pc = "tag"
    /\ tags' = [tags EXCEPT ![oci[c].id] = oci[c].key]
    /\ GoTo(c, IF Children[oci[c].key] # {} THEN "refs" ELSE "row")
    /\ UNCHANGED <<artifacts, manifestRefs, blobs, rowLocks, failures>>

RecordManifestRefs(c) ==
    /\ oci[c].pc = "refs"
    /\ manifestRefs' = manifestRefs \cup
          {<<oci[c].id[1], oci[c].key, child>> : child \in Children[oci[c].key]}
    /\ GoTo(c, "row")
    /\ UNCHANGED <<artifacts, tags, blobs, rowLocks, failures>>

(* Best effort: a failed insert of the refs is logged and the push goes on.*)
ManifestRefsFail(c) ==
    /\ oci[c].pc = "refs"
    /\ Fail
    /\ GoTo(c, "row")
    /\ UNCHANGED <<artifacts, tags, manifestRefs, blobs, rowLocks>>

(* The row's version is the reference, which its path already names.       *)
UpsertManifestRow(c) ==
    /\ oci[c].pc = "row"
    /\ UpsertArtifact(oci[c].id, oci[c].key, Nil)
    /\ Finish(c)
    /\ UNCHANGED <<tags, manifestRefs, blobs, rowLocks, failures>>

-----------------------------------------------------------------------------
(* handle_delete_manifest: resolve the reference's digest, delete every    *)
(* tag of the repository that has it, soft-delete the reference's row.     *)
BeginDelete(c) ==
    /\ oci[c].pc = "idle"
    /\ \E id \in TagIds :
          /\ tags[id] # Nil
          /\ oci' = [oci EXCEPT ![c] = [pc |-> "untag", id |-> id, key |-> tags[id]]]
    /\ UNCHANGED tableVars

DeleteTags(c) ==
    /\ oci[c].pc = "untag"
    /\ tags' = [id \in TagIds |->
                  IF id[1] = oci[c].id[1] /\ tags[id] = oci[c].key THEN Nil ELSE tags[id]]
    /\ GoTo(c, "softDelete")
    /\ UNCHANGED <<artifacts, manifestRefs, blobs, rowLocks, failures>>

SoftDeleteManifestRow(c) ==
    /\ oci[c].pc = "softDelete"
    /\ SoftDelete({oci[c].id})
    /\ Finish(c)
    /\ UNCHANGED <<tags, manifestRefs, blobs, rowLocks, failures>>

(* A statement of a request fails, or the server stops between two of them.*)
OciRequestFails(c) ==
    /\ oci[c].pc # "idle"
    /\ Fail
    /\ Finish(c)
    /\ UNCHANGED <<artifacts, tags, manifestRefs, blobs, rowLocks>>

-----------------------------------------------------------------------------
(* run_backfill, at startup: a tagged index without any refs gets them     *)
(* from its stored body; one whose body is missing, or whose insert fails, *)
(* is skipped.                                                             *)
Unbackfilled ==
    {<<id[1], tags[id]>> : id \in {i \in TagIds :
        /\ tags[i] # Nil
        /\ Children[tags[i]] # {}
        /\ \A child \in Manifests : <<i[1], tags[i], child>> \notin manifestRefs
        /\ StorageExists(LocationOf(i), tags[i])}}

Backfill ==
    /\ \E rp \in Unbackfilled :
          manifestRefs' = manifestRefs \cup
             {<<rp[1], rp[2], child>> : child \in Children[rp[2]]}
    /\ UNCHANGED <<artifacts, tags, blobs, rowLocks, failures, oci>>

OciStep(c) ==
    \/ PutManifest(c)
    \/ UpsertTag(c)
    \/ RecordManifestRefs(c)
    \/ UpsertManifestRow(c)
    \/ DeleteTags(c)
    \/ SoftDeleteManifestRow(c)

OciNext ==
    \E c \in OciClients :
        \/ BeginPush(c)
        \/ BeginDelete(c)
        \/ OciStep(c)
        \/ ManifestRefsFail(c)
        \/ OciRequestFails(c)
=============================================================================
