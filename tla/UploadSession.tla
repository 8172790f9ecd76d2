--------------------------- MODULE UploadSession ---------------------------
(***************************************************************************)
(* One chunked upload session (UploadService and its HTTP handlers): the   *)
(* upload_sessions row, its upload_chunks rows, the pre-allocated temp     *)
(* file, and the content-addressed object that finalization writes.        *)
(*                                                                         *)
(* Every request is a sequence of autocommitted statements and file        *)
(* operations, and any request may stop between two of them: the client    *)
(* disconnects, the database or the disk reports an error, or the process  *)
(* dies (Abort).  Requests of the session's owner run concurrently; other  *)
(* users get NotFound and change nothing, so they are left out.            *)
(*                                                                         *)
(* A byte of the file is "zero" (pre-allocated), "good" (what the declared *)
(* checksum was computed from) or "bad"; "none" is past the end of file.   *)
(* bytes_received, which is only reported, is left out.                    *)
(***************************************************************************)
EXTENDS Integers, FiniteSets

CONSTANTS Requests,     \* concurrent HTTP requests
          Sweeper,      \* the hourly cleanup_expired task
          TotalSize,    \* total_size declared at creation
          ChunkSize,    \* chunk_size of the session
          MaxOffset,    \* last offset a Content-Range may name (model bound)
          CopyInPlace   \* the filesystem backend's put_file copies over the
                        \* destination, the cloud backends' replace it at once

ASSUME SizesAssumption == TotalSize \in Nat \ {0} /\ ChunkSize \in Nat \ {0}
                          /\ MaxOffset \in Nat /\ TotalSize - 1 <= MaxOffset
ASSUME RequestsAssumption == IsFiniteSet(Requests) /\ Sweeper \notin Requests
ASSUME BackendAssumption == CopyInPlace \in BOOLEAN

VARIABLES session,      \* the upload_sessions row
          chunks,       \* chunks[i]: status of upload_chunks row i
          expired,      \* expires_at < NOW()
          temp,         \* temp[o]: the byte at offset o of the temp file
          tempExists,   \* the temp file still has its name
          object,       \* the object stored under the declared checksum
          published,    \* some live artifacts row refers to that object
          req           \* req[r]: where request r is

vars == <<session, chunks, expired, temp, tempExists, object, published, req>>

Processes == Requests \cup {Sweeper}
Offsets == 0..MaxOffset
TotalChunks == (TotalSize + ChunkSize - 1) \div ChunkSize
Chunks == 0..TotalChunks - 1
Bytes == {"none", "zero", "good", "bad"}
Statuses == {"absent", "pending", "in_progress", "completed", "failed", "cancelled"}
Terminal == {"completed", "cancelled"}

Idle == [pc |-> "idle"]
Upload == [pc : {"claim"}, from : Offsets, to : Offsets, body : {"good", "bad"}]
          \cup [pc : {"open", "write"}, chunk : Chunks, at : Offsets, to : Offsets,
                body : {"good", "bad"}]
          \cup [pc : {"mark"}, chunk : Chunks]
          \cup [pc : {"count"}]
Finalize == [pc : {"chunks", "hash", "fail", "finish", "copy", "remove", "insert"}]
            \cup [pc : {"copying"}, content : {"good", "bad"}]
Cancel == [pc : {"unlink", "cancel"}]
Create == [pc : {"create"}]

TypeOK ==
    /\ session \in [status : Statuses, completed_chunks : Nat]
    /\ chunks \in [Chunks -> {"pending", "uploading", "completed"}]
    /\ expired \in BOOLEAN
    /\ temp \in [Offsets -> Bytes]
    /\ tempExists \in BOOLEAN
    /\ object \in {"absent", "good", "bad", "torn"}
    /\ published \in BOOLEAN
    /\ req \in [Processes -> {Idle} \cup Create \cup Upload \cup Finalize \cup Cancel]

(* The object may already be stored, and in use, by an earlier upload of   *)
(* the same content.                                                       *)
Init ==
    /\ session = [status |-> "absent", completed_chunks |-> 0]
    /\ chunks = [i \in Chunks |-> "pending"]
    /\ expired = FALSE
    /\ temp = [o \in Offsets |-> "none"]
    /\ tempExists = FALSE
    /\ published \in BOOLEAN
    /\ object = IF published THEN "good" ELSE "absent"
    /\ req = [r \in Processes |-> Idle]

-----------------------------------------------------------------------------
(* create_session: the temp file first, then the session row and all its   *)
(* chunk rows in one transaction.                                          *)
PreallocateTemp(r) ==
    /\ req[r] = Idle
    /\ session.status = "absent"
    /\ \A o \in Offsets : temp[o] = "none"
    /\ temp' = [o \in Offsets |-> IF o < TotalSize THEN "zero" ELSE "none"]
    /\ tempExists' = TRUE
    /\ req' = [req EXCEPT ![r] = [pc |-> "create"]]
    /\ UNCHANGED <<session, chunks, expired, object, published>>

InsertSession(r) ==
    /\ req[r].pc = "create"
    /\ session' = [session EXCEPT !.status = "pending"]
    /\ req' = [req EXCEPT ![r] = Idle]
    /\ UNCHANGED <<chunks, expired, temp, tempExists, object, published>>

-----------------------------------------------------------------------------
(* get_session: the row must exist and not be expired.                     *)
GetSession == session.status # "absent" /\ ~expired

NotTerminal == session.status \notin Terminal

(* parse_content_range: only from <= to is checked, the declared total is  *)
(* the client's own.                                                       *)
ContentRanges == {range \in Offsets \X Offsets : range[1] <= range[2]}

UploadChunk(r) ==
    /\ req[r] = Idle
    /\ GetSession
    /\ NotTerminal
    /\ \E range \in ContentRanges, body \in {"good", "bad"} :
          req' = [req EXCEPT ![r] = [pc |-> "claim", from |-> range[1],
                                     to |-> range[2], body |-> body]]
    /\ UNCHANGED <<session, chunks, expired, temp, tempExists, object, published>>

(* UPDATE upload_chunks SET status = 'uploading' WHERE ... 'pending'       *)
(* Mutant of Claimable: a completed chunk can be claimed again.            *)
ClaimableUnlessBusy(i) == i \in Chunks /\ chunks[i] # "uploading"
Claimable(i) == i \in Chunks /\ chunks[i] = "pending"

(* A chunk that is not claimed answers at once: completed is an idempotent *)
(* success, anything else an error.  Neither changes state.                *)
ClaimChunk(r) ==
    /\ req[r].pc = "claim"
    /\ LET i == req[r].from \div ChunkSize
       IN IF Claimable(i)
          THEN /\ chunks' = [chunks EXCEPT ![i] = "uploading"]
               /\ req' = [req EXCEPT ![r] =
                    [pc |-> "open", chunk |-> i, at |-> req[r].from,
                     to |-> req[r].to, body |-> req[r].body]]
          ELSE /\ req' = [req EXCEPT ![r] = Idle]
               /\ UNCHANGED chunks
    /\ UNCHANGED <<session, expired, temp, tempExists, object, published>>

(* OpenOptions::write(true).open: fails once the name is gone; the error   *)
(* returns without touching the claimed chunk.                             *)
OpenTemp(r) ==
    /\ req[r].pc = "open"
    /\ req' = [req EXCEPT ![r] = IF tempExists THEN [req[r] EXCEPT !.pc = "write"]
                                  ELSE Idle]
    /\ UNCHANGED <<session, chunks, expired, temp, tempExists, object, published>>

(* seek + write_all: a write past the end of file fills the gap with       *)
(* zeroes, and nothing keeps it inside the claimed chunk.                  *)
(* Mutant of WriteByte: the write lands one byte further.                  *)
WriteByteAfter(o, byte) ==
    [p \in Offsets \cup {o + 1} |-> IF p = o + 1 THEN byte
                                   ELSE IF p <= o /\ temp[p] = "none" THEN "zero"
                                   ELSE temp[p]]
WriteByte(o, byte) ==
    [p \in Offsets |-> IF p = o THEN byte
                       ELSE IF p < o /\ temp[p] = "none" THEN "zero"
                       ELSE temp[p]]

WriteTemp(r) ==
    /\ req[r].pc = "write"
    /\ temp' = WriteByte(req[r].at, req[r].body)
    /\ req' = [req EXCEPT ![r] = IF req[r].at < req[r].to
                                  THEN [req[r] EXCEPT !.at = req[r].at + 1]
                                  ELSE [pc |-> "mark", chunk |-> req[r].chunk]]
    /\ UNCHANGED <<session, chunks, expired, tempExists, object, published>>

MarkChunk(r) ==
    /\ req[r].pc = "mark"
    /\ chunks' = [chunks EXCEPT ![req[r].chunk] = "completed"]
    /\ req' = [req EXCEPT ![r] = [pc |-> "count"]]
    /\ UNCHANGED <<session, expired, temp, tempExists, object, published>>

CountChunk(r) ==
    /\ req[r].pc = "count"
    /\ session' = [status |-> IF session.status = "pending" THEN "in_progress"
                              ELSE session.status,
                   completed_chunks |-> session.completed_chunks + 1]
    /\ req' = [req EXCEPT ![r] = Idle]
    /\ UNCHANGED <<chunks, expired, temp, tempExists, object, published>>

-----------------------------------------------------------------------------
(* complete_session, then the rest of the complete handler.                *)
CompleteSession(r) ==
    /\ req[r] = Idle
    /\ GetSession
    /\ NotTerminal
    /\ req' = [req EXCEPT ![r] = [pc |-> "chunks"]]
    /\ UNCHANGED <<session, chunks, expired, temp, tempExists, object, published>>

(* Mutant of AllChunksCompleted: a claimed chunk is taken for a written one. *)
NoChunkPending == \A i \in Chunks : chunks[i] # "pending"
AllChunksCompleted == \A i \in Chunks : chunks[i] = "completed"

CountIncomplete(r) ==
    /\ req[r].pc = "chunks"
    /\ req' = [req EXCEPT ![r] = IF AllChunksCompleted THEN [pc |-> "hash"] ELSE Idle]
    /\ UNCHANGED <<session, chunks, expired, temp, tempExists, object, published>>

SizeMatches == \A o \in Offsets : temp[o] # "none" <=> o < TotalSize
ChecksumMatches == \A o \in Offsets : o < TotalSize => temp[o] = "good"

(* A missing file or a wrong size returns an error and leaves the status;  *)
(* a wrong checksum marks the session failed.                              *)
VerifyTemp(r) ==
    /\ req[r].pc = "hash"
    /\ req' = [req EXCEPT ![r] =
                 IF ~tempExists \/ ~SizeMatches THEN Idle
                 ELSE IF ChecksumMatches THEN [pc |-> "finish"]
                 ELSE [pc |-> "fail"]]
    /\ UNCHANGED <<session, chunks, expired, temp, tempExists, object, published>>

MarkFailed(r) ==
    /\ req[r].pc = "fail"
    /\ session' = [session EXCEPT !.status = "failed"]
    /\ req' = [req EXCEPT ![r] = Idle]
    /\ UNCHANGED <<chunks, expired, temp, tempExists, object, published>>

MarkCompleted(r) ==
    /\ req[r].pc = "finish"
    /\ session' = [session EXCEPT !.status = "completed"]
    /\ req' = [req EXCEPT ![r] = [pc |-> "copy"]]
    /\ UNCHANGED <<chunks, expired, temp, tempExists, object, published>>

(* put_file: the source is opened by name; once open, unlinking it no      *)
(* longer matters.  Copying in place truncates the destination first.      *)
BeginCopy(r) ==
    /\ req[r].pc = "copy"
    /\ IF tempExists
       THEN /\ req' = [req EXCEPT ![r] = [pc |-> "copying", content |->
                            IF SizeMatches /\ ChecksumMatches THEN "good" ELSE "bad"]]
            /\ object' = IF CopyInPlace THEN "torn" ELSE object
       ELSE /\ req' = [req EXCEPT ![r] = Idle]
            /\ UNCHANGED object
    /\ UNCHANGED <<session, chunks, expired, temp, tempExists, published>>

FinishCopy(r) ==
    /\ req[r].pc = "copying"
    /\ object' = req[r].content
    /\ req' = [req EXCEPT ![r] = [pc |-> "remove"]]
    /\ UNCHANGED <<session, chunks, expired, temp, tempExists, published>>

(* remove_file is best-effort: its failure is ignored.                     *)
TempRemoved ==
    /\ tempExists' \in BOOLEAN
    /\ tempExists' => tempExists

RemoveTemp(r) ==
    /\ req[r].pc = "remove"
    /\ TempRemoved
    /\ req' = [req EXCEPT ![r] = [pc |-> "insert"]]
    /\ UNCHANGED <<session, chunks, expired, temp, object, published>>

InsertArtifact(r) ==
    /\ req[r].pc = "insert"
    /\ published' = TRUE
    /\ req' = [req EXCEPT ![r] = Idle]
    /\ UNCHANGED <<session, chunks, expired, temp, tempExists, object>>

-----------------------------------------------------------------------------
(* cancel_session looks at neither the status nor the expiry.              *)
CancelSession(r) ==
    /\ req[r] = Idle
    /\ session.status # "absent"
    /\ req' = [req EXCEPT ![r] = [pc |-> "unlink"]]
    /\ UNCHANGED <<session, chunks, expired, temp, tempExists, object, published>>

UnlinkTemp(r) ==
    /\ req[r].pc = "unlink"
    /\ TempRemoved
    /\ req' = [req EXCEPT ![r] = [pc |-> "cancel"]]
    /\ UNCHANGED <<session, chunks, expired, temp, object, published>>

MarkCancelled(r) ==
    /\ req[r].pc = "cancel"
    /\ session' = [session EXCEPT !.status = "cancelled"]
    /\ req' = [req EXCEPT ![r] = Idle]
    /\ UNCHANGED <<chunks, expired, temp, tempExists, object, published>>

(* cleanup_expired: the snapshot of expired sessions, then for each the    *)
(* same two statements as a cancel, without a second look at the status.   *)
(* Mutant of Sweepable: failed sessions are left alone.                    *)
SweepableUnlessFailed == expired /\ session.status \in {"pending", "in_progress"}
Sweepable == expired /\ session.status \notin Terminal \cup {"absent"}

CleanupExpired ==
    /\ req[Sweeper] = Idle
    /\ Sweepable
    /\ req' = [req EXCEPT ![Sweeper] = [pc |-> "unlink"]]
    /\ UNCHANGED <<session, chunks, expired, temp, tempExists, object, published>>

Expire ==
    /\ session.status # "absent"
    /\ ~expired
    /\ expired' = TRUE
    /\ UNCHANGED <<session, chunks, temp, tempExists, object, published, req>>

(* The request stops where it is: client disconnect, I/O or database       *)
(* error, or the end of the process.  A copy in progress is abandoned.     *)
Abort(r) ==
    /\ req[r] # Idle
    /\ req' = [req EXCEPT ![r] = Idle]
    /\ UNCHANGED <<session, chunks, expired, temp, tempExists, object, published>>

-----------------------------------------------------------------------------
Proceed(r) ==
    \/ InsertSession(r)
    \/ ClaimChunk(r) \/ OpenTemp(r) \/ WriteTemp(r) \/ MarkChunk(r) \/ CountChunk(r)
    \/ CountIncomplete(r) \/ VerifyTemp(r) \/ MarkFailed(r) \/ MarkCompleted(r)
    \/ BeginCopy(r) \/ FinishCopy(r) \/ RemoveTemp(r) \/ InsertArtifact(r)
    \/ UnlinkTemp(r) \/ MarkCancelled(r)

Arrive(r) ==
    PreallocateTemp(r) \/ UploadChunk(r) \/ CompleteSession(r) \/ CancelSession(r)

Next ==
    \/ \E r \in Requests : Arrive(r)
    \/ \E r \in Processes : Proceed(r) \/ Abort(r)
    \/ CleanupExpired
    \/ Expire

Spec == Init /\ [][Next]_vars

(* Handlers run to an end or are dropped; time passes; the hourly task     *)
(* keeps running and does not fail at the same statement for ever.         *)
Fairness ==
    /\ \A r \in Processes : WF_vars(Proceed(r) \/ Abort(r))
    /\ SF_vars(UnlinkTemp(Sweeper))
    /\ SF_vars(MarkCancelled(Sweeper))
    /\ WF_vars(CleanupExpired)
    /\ WF_vars(Expire)

FairSpec == Spec /\ Fairness

-----------------------------------------------------------------------------
(* Whatever chunks, retries, finalizations, cancellations and crashes       *)
(* overlap, a completely written object under the declared checksum holds  *)
(* bytes that were verified against it, and no live row refers to a        *)
(* missing or unverified object.  upload_chunk's atomic claim is what      *)
(* keeps the file from changing between the hash and the copy.             *)
PublishedContentIsVerified ==
    /\ object # "bad"
    /\ published => object = "good" \/ (CopyInPlace /\ object = "torn")

CompletedChunks == {i \in Chunks : chunks[i] = "completed"}

(* The session's counter never runs ahead of the chunk rows: retries and   *)
(* concurrent uploads of one chunk are counted at most once, so progress   *)
(* is never reported for data that is not in the file.                     *)
CountersNeverOvertake ==
    session.completed_chunks <= Cardinality(CompletedChunks)

(* cleanup_expired eventually puts every expired session in a state no     *)
(* request leaves any more, whatever late completion or failure was still  *)
(* in flight when it expired.                                              *)
ExpiredSessionsSettle == expired ~> [](session.status \in Terminal)

(* What the upload amounts to once requests and files are forgotten: the   *)
(* content is open until the last chunk row is completed.                  *)
UploadedContent ==
    IF ~AllChunksCompleted THEN "open"
    ELSE IF SizeMatches /\ ChecksumMatches THEN "good" ELSE "bad"

Sealed == INSTANCE SealedUpload WITH content <- UploadedContent

(* The chunk rows, the temp file and the handlers together implement       *)
(* SealedUpload: no retry, late write, cancel or second completion changes *)
(* the content once its last chunk is recorded, and only sealed content    *)
(* that matches is stored under the declared checksum and published.       *)
ImplementsSealedUpload == Sealed!Spec

(* upload_chunk (upload_service.rs): "Mark chunk as completed and update   *)
(* session counters atomically".  With no request running, the counter is  *)
(* the number of completed chunks.                                         *)
CountersFollowChunks ==
    (\A r \in Processes : req[r] = Idle)
        => session.completed_chunks = Cardinality(CompletedChunks)

(* Migration 089: a claimed chunk is set to 'completed' or 'failed' after  *)
(* the write.  So a chunk is 'uploading' only while a request is writing   *)
(* it.                                                                     *)
ClaimsAreReleased ==
    \A i \in Chunks : chunks[i] = "uploading" =>
        \E r \in Requests : req[r].pc \in {"open", "write", "mark"} /\ req[r].chunk = i

(* filesystem.rs: a stored path flips "from old bytes to new bytes, never  *)
(* to a partial/empty state".  Readers of a live row see a whole object.   *)
ReadersSeeWholeObjects == published => object = "good"
=============================================================================
