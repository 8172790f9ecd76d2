--------------------------- MODULE LifecyclePolicy ---------------------------
(***************************************************************************)
(* LifecycleService::execute_policy.  A run soft-deletes the rows its      *)
(* policy selects in one transaction and removes the oci_tags rows of      *)
(* soft-deleted manifests in a second one.  Which rows a policy selects    *)
(* (age, version count, downloads, tag pattern, size quota) is any set of  *)
(* live rows of its scope; a dry run changes nothing.                      *)
(***************************************************************************)
EXTENDS ArtifactTables

CONSTANT CascadeScopes   \* the scopes of the enabled policies: a repository each,
                         \* or every repository for a global policy

ASSUME ScopesAssumption ==
    CascadeScopes \subseteq {{r} : r \in Repos} \cup {Repos}

VARIABLE policyRun   \* the scope of the run whose cascade is due, or {}

PolicyTypeOK == policyRun \in CascadeScopes \cup {{}}

PolicyInit == policyRun = {}

(* What the execute_* of the policy type may select: live rows in scope.   *)
Selectable(scope) == {id \in RowIds : id[1] \in scope /\ IsLive(id)}

(* Transaction 1: dispatch_execute.                                        *)
ExecutePolicy ==
    /\ policyRun = {}
    /\ \E scope \in CascadeScopes :
          /\ \E S \in SUBSET Selectable(scope) : SoftDelete(S)
          /\ policyRun' = scope
    /\ UNCHANGED <<tags, manifestRefs, blobs, rowLocks, failures>>

(* CASCADE_OCI_TAGS_SQL: the tag's own row (same repository and reference) *)
(* is soft-deleted and holds the manifest the tag points at.               *)
StaleTag(id) ==
    /\ tags[id] # Nil
    /\ IsDeleted(id)
    /\ artifacts[id].key = tags[id]

(* Mutant of CascadeTags: the is_deleted filter is inverted.               *)
CascadeLiveTags ==
    /\ policyRun # {}
    /\ tags' = [id \in TagIds |->
                  IF id[1] \in policyRun /\ IsLive(id) THEN Nil ELSE tags[id]]
    /\ policyRun' = {}
    /\ UNCHANGED <<artifacts, manifestRefs, blobs, rowLocks, failures>>

(* Transaction 2: cascade_oci_tags_cleanup_tx, then the bookkeeping.       *)
CascadeTags ==
    /\ policyRun # {}
    /\ tags' = [id \in TagIds |->
                  IF id[1] \in policyRun /\ StaleTag(id) THEN Nil ELSE tags[id]]
    /\ policyRun' = {}
    /\ UNCHANGED <<artifacts, manifestRefs, blobs, rowLocks, failures>>

(* The server stops, or the cascade fails, after the soft delete.          *)
PolicyRunFails ==
    /\ policyRun # {}
    /\ Fail
    /\ policyRun' = {}
    /\ UNCHANGED <<artifacts, tags, manifestRefs, blobs, rowLocks>>

PolicyNext == ExecutePolicy \/ CascadeTags \/ PolicyRunFails
=============================================================================
