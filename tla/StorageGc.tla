----------------------------- MODULE StorageGc -----------------------------
(***************************************************************************)
(* StorageGcService::run_gc.  Each worker is one run: the scheduler's loop  *)
(* and the admin endpoint can run at the same time.  A run takes a         *)
(* snapshot of the orphaned (storage_key, location) pairs, then handles    *)
(* each in a transaction: lock its rows, re-check the predicate, delete    *)
(* the object, hard-delete the rows, commit.                               *)
(***************************************************************************)
EXTENDS ArtifactTables

VARIABLE gc   \* gc[w]: where run w is, its remaining and its current candidate

NoObject == <<Nil, Nil>>
OpenTransaction == {"recheck", "deleteObject", "deleteRows"}
GcRun == [pc : {"idle", "next"}, todo : SUBSET Objects, object : {NoObject}]
         \cup [pc : OpenTransaction, todo : SUBSET Objects, object : Objects]

GcTypeOK == gc \in [GcWorkers -> GcRun]

GcInit == gc = [w \in GcWorkers |-> [pc |-> "idle", todo |-> {}, object |-> NoObject]]

(* The rows is_still_orphan reads: this storage key at this location.      *)
RowsOf(object) == {id \in RowIds : artifacts[id].state # "absent" /\ ObjectOf(id) = object}

CommitOrRollback(w) ==
    /\ rowLocks' = [rowLocks EXCEPT ![w] = {}]
    /\ gc' = [gc EXCEPT ![w].pc = "next", ![w].object = NoObject]

-----------------------------------------------------------------------------
(* select_orphans: one snapshot of the candidates.                         *)
SelectOrphans(w) ==
    /\ gc[w].pc = "idle"
    /\ gc' = [gc EXCEPT ![w].pc = "next",
                        ![w].todo = {ObjectOf(id) : id \in {i \in RowIds : OrphanPredicate(i)}}]
    /\ UNCHANGED tableVars

(* Open the candidate's transaction and SELECT ... FOR UPDATE its rows,    *)
(* after any other run that holds one of them.                             *)
LockRows(w) ==
    /\ gc[w].pc = "next"
    /\ \E object \in gc[w].todo :
          /\ \A id \in RowsOf(object) : Unlocked(id)
          /\ rowLocks' = [rowLocks EXCEPT ![w] = RowsOf(object)]
          /\ gc' = [gc EXCEPT ![w].pc = "recheck", ![w].object = object,
                              ![w].todo = @ \ {object}]
    /\ UNCHANGED <<artifacts, tags, manifestRefs, blobs, failures>>

(* Mutant of StillOrphan: the candidate scan is trusted.                   *)
StillHasRows(object) == RowsOf(object) # {}

(* bool_and of the predicate over the rows, false when there are none.     *)
StillOrphan(object) ==
    RowsOf(object) # {} /\ \A id \in RowsOf(object) : OrphanPredicate(id)

Recheck(w) ==
    /\ gc[w].pc = "recheck"
    /\ StillOrphan(gc[w].object)
    /\ gc' = [gc EXCEPT ![w].pc = "deleteObject"]
    /\ UNCHANGED tableVars

SkipCandidate(w) ==
    /\ gc[w].pc = "recheck"
    /\ ~StillOrphan(gc[w].object)
    /\ CommitOrRollback(w)
    /\ UNCHANGED <<artifacts, tags, manifestRefs, blobs, failures>>

(* Mutant of DeleteSucceeds: a missing object is an error everywhere.      *)
DeleteFindsObject(object) == object \in blobs

(* storage.delete: a missing object is an error on a filesystem only.      *)
DeleteSucceeds(object) == object \in blobs \/ object[1] \in CloudLocations

DeleteObject(w) ==
    /\ gc[w].pc = "deleteObject"
    /\ DeleteSucceeds(gc[w].object)
    /\ blobs' = blobs \ {gc[w].object}
    /\ gc' = [gc EXCEPT ![w].pc = "deleteRows"]
    /\ UNCHANGED <<artifacts, tags, manifestRefs, rowLocks, failures>>

(* On an error the transaction is rolled back and the candidate skipped.   *)
ObjectIsMissing(w) ==
    /\ gc[w].pc = "deleteObject"
    /\ ~DeleteSucceeds(gc[w].object)
    /\ CommitOrRollback(w)
    /\ UNCHANGED <<artifacts, tags, manifestRefs, blobs, failures>>

(* Mutant of RowsToHardDelete: the is_deleted filter is missing.           *)
RowsWithKey(object) ==
    {id \in RowIds : artifacts[id].state # "absent" /\ artifacts[id].key = object[2]}

(* DELETE FROM artifacts WHERE storage_key = $1 AND is_deleted = true, at  *)
(* every location, after its promotion_approvals; then commit.             *)
RowsToHardDelete(object) ==
    {id \in RowIds : IsDeleted(id) /\ artifacts[id].key = object[2]}

(* The DELETE is not narrowed to the location, so two runs can each wait   *)
(* for rows the other has locked; Postgres then aborts one of them.        *)
WaitsFor(w, v) ==
    /\ gc[w].pc = "deleteRows"
    /\ RowsToHardDelete(gc[w].object) \cap rowLocks[v] # {}

HardDeleteRows(w) ==
    /\ gc[w].pc = "deleteRows"
    /\ \A v \in GcWorkers \ {w} : ~WaitsFor(w, v)
    /\ artifacts' = [id \in RowIds |->
                        IF id \in RowsToHardDelete(gc[w].object)
                        THEN AbsentRow ELSE artifacts[id]]
    /\ CommitOrRollback(w)
    /\ UNCHANGED <<tags, manifestRefs, blobs, failures>>

FinishRun(w) ==
    /\ gc[w].pc = "next"
    /\ gc[w].todo = {}
    /\ gc' = [gc EXCEPT ![w].pc = "idle"]
    /\ UNCHANGED tableVars

BreakDeadlock(w) ==
    /\ \E v \in GcWorkers \ {w} : WaitsFor(w, v) /\ WaitsFor(v, w)
    /\ CommitOrRollback(w)
    /\ UNCHANGED <<artifacts, tags, manifestRefs, blobs, failures>>

(* A statement, the storage call or the commit fails: the transaction is   *)
(* rolled back, a storage delete that already happened is not, and the run *)
(* goes on with the next candidate.                                        *)
CandidateFails(w) ==
    /\ gc[w].pc \in OpenTransaction
    /\ Fail
    /\ CommitOrRollback(w)
    /\ UNCHANGED <<artifacts, tags, manifestRefs, blobs>>

(* The server stops during the run.                                        *)
RunCrashes(w) ==
    /\ gc[w].pc # "idle"
    /\ Fail
    /\ rowLocks' = [rowLocks EXCEPT ![w] = {}]
    /\ gc' = [gc EXCEPT ![w] = [pc |-> "idle", todo |-> {}, object |-> NoObject]]
    /\ UNCHANGED <<artifacts, tags, manifestRefs, blobs>>

GcStep(w) ==
    \/ SelectOrphans(w)
    \/ LockRows(w)
    \/ Recheck(w)
    \/ SkipCandidate(w)
    \/ DeleteObject(w)
    \/ ObjectIsMissing(w)
    \/ HardDeleteRows(w)
    \/ BreakDeadlock(w)
    \/ FinishRun(w)

GcNext == \E w \in GcWorkers : GcStep(w) \/ CandidateFails(w) \/ RunCrashes(w)
=============================================================================
