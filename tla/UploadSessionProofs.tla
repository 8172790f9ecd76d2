------------------------ MODULE UploadSessionProofs ------------------------
(***************************************************************************)
(* Proofs about chunked upload sessions, for any number of concurrent      *)
(* requests and any file and chunk size.                                   *)
(***************************************************************************)
EXTENDS UploadSession, FiniteSetTheorems, TLAPS

Writing(r) == req[r].pc \in {"open", "write", "mark"}
StoredOrTorn == object = "good" \/ (CopyInPlace /\ object = "torn")

(* Every request that writes holds the claim of its chunk, alone.          *)
ClaimsHeld ==
    /\ \A r \in Processes : Writing(r) => chunks[req[r].chunk] = "uploading"
    /\ \A r, q \in Processes :
          Writing(r) /\ Writing(q) /\ r # q => req[r].chunk # req[q].chunk

(* Once a finalization has counted the chunks no claim is left, and once   *)
(* it has hashed the file the file stays as it was hashed.                 *)
CheckedFile(r) ==
    /\ req[r].pc \in {"hash", "finish", "copy", "copying", "remove", "insert"}
          => AllChunksCompleted
    /\ req[r].pc \in {"finish", "copy", "copying", "remove", "insert"}
          => SizeMatches /\ ChecksumMatches
    /\ req[r].pc = "copying" => req[r].content = "good"
    /\ req[r].pc \in {"remove", "insert"} => StoredOrTorn

UploadInv ==
    /\ TypeOK
    /\ ClaimsHeld
    /\ \A r \in Processes : CheckedFile(r)
    /\ PublishedContentIsVerified

-----------------------------------------------------------------------------
(* The fields a request carries are determined by where it is.             *)
LEMMA RequestFields ==
    ASSUME TypeOK, NEW r \in Processes
    PROVE  /\ req[r].pc = "claim" =>
                  /\ req[r].from \in Offsets
                  /\ req[r].to \in Offsets
                  /\ req[r].body \in {"good", "bad"}
           /\ req[r].pc \in {"open", "write"} =>
                  /\ req[r] = [pc |-> req[r].pc, chunk |-> req[r].chunk,
                               at |-> req[r].at, to |-> req[r].to,
                               body |-> req[r].body]
                  /\ req[r].chunk \in Chunks
                  /\ req[r].at \in Offsets
                  /\ req[r].to \in Offsets
                  /\ req[r].body \in {"good", "bad"}
           /\ req[r].pc = "mark" => req[r].chunk \in Chunks
           /\ req[r].pc = "copying" => req[r].content \in {"good", "bad"}
           /\ req[r].pc = "idle" => req[r] = Idle
  <1>1. req[r] \in {Idle} \cup Create \cup Upload \cup Finalize \cup Cancel
    BY DEF TypeOK
  <1>2. CASE req[r] \in {Idle} \cup Create \cup Cancel
    BY <1>2 DEF Idle, Create, Cancel
  <1>3. CASE req[r] \in Upload
    BY <1>3 DEF Upload
  <1>4. CASE req[r] \in Finalize
    BY <1>4 DEF Finalize
  <1> QED BY <1>1, <1>2, <1>3, <1>4

LEMMA OffsetsAreNat == Offsets \subseteq Nat /\ 0 \in Offsets /\ 0 < TotalSize
  BY SizesAssumption DEF Offsets

-----------------------------------------------------------------------------
(* Type correctness is inductive by itself.                                *)
LEMMA TypeStep == TypeOK /\ [Next]_vars => TypeOK'
  <1> SUFFICES ASSUME TypeOK, [Next]_vars PROVE TypeOK'
    OBVIOUS
  <1> USE DEF TypeOK
  <1>1. ASSUME NEW r \in Requests, Arrive(r) PROVE TypeOK'
    <2>1. r \in Processes
      BY DEF Processes
    <2>2. CASE PreallocateTemp(r)
      BY <2>1, <2>2 DEF PreallocateTemp, Create, Bytes
    <2>3. CASE UploadChunk(r)
      <3>1. PICK range \in ContentRanges, body \in {"good", "bad"} :
               req' = [req EXCEPT ![r] = [pc |-> "claim", from |-> range[1],
                                          to |-> range[2], body |-> body]]
        BY <2>3 DEF UploadChunk
      <3>2. range[1] \in Offsets /\ range[2] \in Offsets
        BY DEF ContentRanges
      <3>3. [pc |-> "claim", from |-> range[1], to |-> range[2], body |-> body] \in Upload
        BY <3>2 DEF Upload
      <3> QED BY <2>1, <2>3, <3>1, <3>3 DEF UploadChunk
    <2>4. CASE CompleteSession(r)
      BY <2>1, <2>4 DEF CompleteSession, Finalize
    <2>5. CASE CancelSession(r)
      BY <2>1, <2>5 DEF CancelSession, Cancel
    <2> QED BY <1>1, <2>2, <2>3, <2>4, <2>5 DEF Arrive
  <1>2. ASSUME NEW r \in Processes, Proceed(r) PROVE TypeOK'
    <2>1. CASE InsertSession(r)
      BY <2>1 DEF InsertSession, Statuses
    <2>2. CASE ClaimChunk(r)
      <3> DEFINE i == req[r].from \div ChunkSize
                 claimed == [pc |-> "open", chunk |-> i, at |-> req[r].from,
                             to |-> req[r].to, body |-> req[r].body]
      <3>1. CASE Claimable(i)
        <4>1. claimed \in Upload
          BY <2>2, <3>1, RequestFields DEF ClaimChunk, Claimable, Upload
        <4>2. chunks' = [chunks EXCEPT ![i] = "uploading"] /\ req' = [req EXCEPT ![r] = claimed]
          BY <2>2, <3>1 DEF ClaimChunk
        <4>3. UNCHANGED <<session, expired, temp, tempExists, object, published>>
          BY <2>2 DEF ClaimChunk
        <4> HIDE DEF claimed
        <4> QED BY <4>1, <4>2, <4>3
      <3>2. CASE ~Claimable(i)
        BY <2>2, <3>2 DEF ClaimChunk
      <3> QED BY <3>1, <3>2
    <2>3. CASE OpenTemp(r)
      <3>1. [req[r] EXCEPT !.pc = "write"] \in Upload
        BY <2>3, RequestFields DEF OpenTemp, Upload
      <3> QED BY <2>3, <3>1 DEF OpenTemp
    <2>4. CASE WriteTemp(r)
      <3>1. req[r].at < req[r].to => [req[r] EXCEPT !.at = req[r].at + 1] \in Upload
        <4>1. [req[r] EXCEPT !.at = req[r].at + 1]
                = [pc |-> "write", chunk |-> req[r].chunk, at |-> req[r].at + 1,
                   to |-> req[r].to, body |-> req[r].body]
          BY <2>4, RequestFields DEF WriteTemp
        <4>2. req[r].chunk \in Chunks /\ req[r].to \in Offsets /\ req[r].body \in {"good", "bad"}
          BY <2>4, RequestFields DEF WriteTemp
        <4>3. req[r].at < req[r].to => req[r].at + 1 \in Offsets
          BY <2>4, RequestFields, SizesAssumption DEF WriteTemp, Offsets
        <4> QED BY <4>1, <4>2, <4>3 DEF Upload
      <3>2. [pc |-> "mark", chunk |-> req[r].chunk] \in Upload
        BY <2>4, RequestFields DEF WriteTemp, Upload
      <3>3. temp' \in [Offsets -> Bytes]
        BY <2>4, RequestFields DEF WriteTemp, WriteByte, Bytes
      <3> QED BY <2>4, <3>1, <3>2, <3>3 DEF WriteTemp
    <2>5. CASE MarkChunk(r)
      BY <2>5 DEF MarkChunk, Upload
    <2>6. CASE CountChunk(r)
      BY <2>6 DEF CountChunk, Statuses
    <2>7. CASE CountIncomplete(r) \/ VerifyTemp(r)
      BY <2>7 DEF CountIncomplete, VerifyTemp, Finalize
    <2>8. CASE MarkFailed(r) \/ MarkCompleted(r)
      BY <2>8 DEF MarkFailed, MarkCompleted, Statuses, Finalize
    <2>9. CASE BeginCopy(r)
      BY <2>9 DEF BeginCopy, Finalize
    <2>10. CASE FinishCopy(r)
      <3>1. req[r].content \in {"good", "bad"}
        BY <2>10, RequestFields DEF FinishCopy
      <3> QED BY <2>10, <3>1 DEF FinishCopy, Finalize
    <2>11. CASE RemoveTemp(r)
      BY <2>11 DEF RemoveTemp, TempRemoved, Finalize
    <2>12. CASE InsertArtifact(r)
      BY <2>12 DEF InsertArtifact
    <2>13. CASE UnlinkTemp(r) \/ MarkCancelled(r)
      BY <2>13 DEF UnlinkTemp, TempRemoved, MarkCancelled, Cancel, Statuses
    <2> QED BY <1>2, <2>1, <2>2, <2>3, <2>4, <2>5, <2>6, <2>7, <2>8, <2>9, <2>10,
               <2>11, <2>12, <2>13 DEF Proceed
  <1>3. ASSUME NEW r \in Processes, Abort(r) PROVE TypeOK'
    BY <1>3 DEF Abort
  <1>4. CASE CleanupExpired
    BY <1>4 DEF CleanupExpired, Cancel, Processes
  <1>5. CASE Expire
    BY <1>5 DEF Expire
  <1>6. CASE UNCHANGED vars
    BY <1>6 DEF vars
  <1> QED BY <1>1, <1>2, <1>3, <1>4, <1>5, <1>6 DEF Next

(* Every variable of a chunked upload session keeps its type, and a        *)
(* request only ever names chunks and offsets of its own session.          *)
THEOREM TypeCorrect == Spec => []TypeOK
  <1>1. Init => TypeOK
    <2> SUFFICES ASSUME Init PROVE TypeOK
      OBVIOUS
    <2>1. object \in {"absent", "good", "bad", "torn"} /\ published \in BOOLEAN
      BY DEF Init
    <2> QED BY <2>1 DEF Init, TypeOK, Statuses, Bytes
  <1> QED BY <1>1, TypeStep, PTL DEF Spec

-----------------------------------------------------------------------------
(* Only a request with a claim writes the temp file, so a file that has    *)
(* been counted complete is not written any more.                          *)
LEMMA NoWriterOfCheckedFile ==
    ASSUME TypeOK, ClaimsHeld, AllChunksCompleted, NEW r \in Processes
    PROVE  ~Writing(r)
  BY RequestFields DEF ClaimsHeld, AllChunksCompleted, Writing

(* The claims: taken by ClaimChunk from 'pending', given up by MarkChunk.  *)
LEMMA ClaimsStep == TypeOK /\ ClaimsHeld /\ [Next]_vars => ClaimsHeld'
  <1> SUFFICES ASSUME TypeOK, ClaimsHeld, [Next]_vars PROVE ClaimsHeld'
    OBVIOUS
  <1>0. req \in [Processes -> {Idle} \cup Create \cup Upload \cup Finalize \cup Cancel]
        /\ chunks \in [Chunks -> {"pending", "uploading", "completed"}]
    BY DEF TypeOK
  <1>1. ASSUME NEW r \in Requests, Arrive(r) PROVE ClaimsHeld'
    <2>1. r \in Processes
      BY DEF Processes
    <2>2. /\ \A q \in Processes \ {r} : req'[q] = req[q]
          /\ req'[r].pc \in {"create", "claim", "chunks", "unlink"}
      BY <1>0, <1>1, <2>1 DEF Arrive, PreallocateTemp, UploadChunk, CompleteSession, CancelSession
    <2>3. UNCHANGED chunks
      BY <1>1 DEF Arrive, PreallocateTemp, UploadChunk, CompleteSession, CancelSession
    <2> QED BY <1>0, <2>1, <2>2, <2>3 DEF ClaimsHeld, Writing
  <1>2. ASSUME NEW r \in Processes, Proceed(r) PROVE ClaimsHeld'
    <2>1. CASE ClaimChunk(r)
      <3> DEFINE i == req[r].from \div ChunkSize
                 claimed == [pc |-> "open", chunk |-> i, at |-> req[r].from,
                             to |-> req[r].to, body |-> req[r].body]
      <3>1. CASE Claimable(i)
        <4>1. chunks' = [chunks EXCEPT ![i] = "uploading"] /\ req' = [req EXCEPT ![r] = claimed]
          BY <2>1, <3>1 DEF ClaimChunk
        <4>2. i \in Chunks /\ chunks[i] = "pending"
          BY <3>1 DEF Claimable
        <4>3. \A q \in Processes : Writing(q) => req[q].chunk # i
          BY <4>2 DEF ClaimsHeld
        <4>4. claimed.pc = "open" /\ claimed.chunk = i
          OBVIOUS
        <4> HIDE DEF i, claimed
        <4>5. \A q \in Processes : Writing(q) => req[q].chunk \in Chunks
          BY RequestFields DEF Writing
        <4> QED BY <1>0, <4>1, <4>2, <4>3, <4>4, <4>5 DEF ClaimsHeld, Writing
      <3>2. CASE ~Claimable(i)
        BY <1>0, <2>1, <3>2 DEF ClaimChunk, ClaimsHeld, Writing, Idle
      <3> QED BY <3>1, <3>2
    <2>2. CASE OpenTemp(r)
      <3>1. req[r] = [pc |-> req[r].pc, chunk |-> req[r].chunk, at |-> req[r].at,
                      to |-> req[r].to, body |-> req[r].body]
        BY <2>2, RequestFields DEF OpenTemp
      <3>2. /\ \A q \in Processes \ {r} : req'[q] = req[q]
            /\ req'[r] = Idle \/ req'[r].chunk = req[r].chunk
        BY <1>0, <2>2, <3>1 DEF OpenTemp
      <3>3. Writing(r) /\ UNCHANGED chunks
        BY <2>2 DEF OpenTemp, Writing
      <3> QED BY <1>0, <3>2, <3>3 DEF ClaimsHeld, Writing, Idle
    <2>3. CASE WriteTemp(r)
      <3>1. req[r] = [pc |-> req[r].pc, chunk |-> req[r].chunk, at |-> req[r].at,
                      to |-> req[r].to, body |-> req[r].body]
        BY <2>3, RequestFields DEF WriteTemp
      <3>2. /\ \A q \in Processes \ {r} : req'[q] = req[q]
            /\ req'[r].chunk = req[r].chunk
        BY <1>0, <2>3, <3>1 DEF WriteTemp
      <3>3. Writing(r) /\ UNCHANGED chunks
        BY <2>3 DEF WriteTemp, Writing
      <3> QED BY <1>0, <3>2, <3>3 DEF ClaimsHeld, Writing
    <2>4. CASE MarkChunk(r)
      <3>1. Writing(r) /\ req[r].chunk \in Chunks
        BY <2>4, RequestFields DEF MarkChunk, Writing
      <3>2. \A q \in Processes : Writing(q) => req[q].chunk \in Chunks
        BY RequestFields DEF Writing
      <3> QED BY <1>0, <2>4, <3>1, <3>2 DEF MarkChunk, ClaimsHeld, Writing
    <2>5. CASE ~(ClaimChunk(r) \/ OpenTemp(r) \/ WriteTemp(r) \/ MarkChunk(r))
      <3>1. /\ \A q \in Processes \ {r} : req'[q] = req[q]
            /\ req'[r].pc \in {"idle", "hash", "finish", "fail", "copy", "copying",
                               "remove", "insert", "cancel"}
        BY <1>0, <1>2, <2>5 DEF Proceed, InsertSession, CountChunk, CountIncomplete, VerifyTemp,
             MarkFailed, MarkCompleted, BeginCopy, FinishCopy, RemoveTemp, InsertArtifact,
             UnlinkTemp, MarkCancelled, Idle
      <3>2. UNCHANGED chunks
        BY <1>2, <2>5 DEF Proceed, InsertSession, CountChunk, CountIncomplete, VerifyTemp,
             MarkFailed, MarkCompleted, BeginCopy, FinishCopy, RemoveTemp, InsertArtifact,
             UnlinkTemp, MarkCancelled
      <3> QED BY <1>0, <3>1, <3>2 DEF ClaimsHeld, Writing
    <2> QED BY <2>1, <2>2, <2>3, <2>4, <2>5
  <1>3. ASSUME NEW r \in Processes, Abort(r) PROVE ClaimsHeld'
    BY <1>0, <1>3 DEF Abort, ClaimsHeld, Writing, Idle
  <1>4. CASE CleanupExpired
    BY <1>0, <1>4 DEF CleanupExpired, ClaimsHeld, Writing, Processes
  <1>5. CASE Expire
    BY <1>5 DEF Expire, ClaimsHeld, Writing
  <1>6. CASE UNCHANGED vars
    BY <1>6 DEF vars, ClaimsHeld, Writing
  <1> QED BY <1>1, <1>2, <1>3, <1>4, <1>5, <1>6 DEF Next

-----------------------------------------------------------------------------
(* A step that moves no chunk, writes no byte, and touches neither the     *)
(* object nor the rows keeps what is known of every request but its own.   *)
LEMMA QuietStep ==
    ASSUME UploadInv, NEW r \in Processes,
           \A q \in Processes \ {r} : req'[q] = req[q],
           UNCHANGED <<chunks, temp, object, published>>,
           CheckedFile(r)'
    PROVE  (\A q \in Processes : CheckedFile(q)') /\ PublishedContentIsVerified'
  <1>1. UNCHANGED <<AllChunksCompleted, SizeMatches, ChecksumMatches, StoredOrTorn,
                    PublishedContentIsVerified>>
    BY DEF AllChunksCompleted, SizeMatches, ChecksumMatches, StoredOrTorn,
           PublishedContentIsVerified
  <1>2. ASSUME NEW q \in Processes PROVE CheckedFile(q)'
    BY <1>1, <1>2 DEF UploadInv, CheckedFile
  <1> QED BY <1>1, <1>2 DEF UploadInv

LEMMA CheckedStep ==
    ASSUME UploadInv, [Next]_vars
    PROVE  (\A q \in Processes : CheckedFile(q)') /\ PublishedContentIsVerified'
  <1> DEFINE Goal == (\A q \in Processes : CheckedFile(q)') /\ PublishedContentIsVerified'
  <1>0. /\ req \in [Processes -> {Idle} \cup Create \cup Upload \cup Finalize \cup Cancel]
        /\ chunks \in [Chunks -> {"pending", "uploading", "completed"}]
        /\ temp \in [Offsets -> Bytes]
        /\ TypeOK /\ ClaimsHeld
    BY DEF UploadInv, TypeOK
  <1>1. ASSUME NEW r \in Requests, Arrive(r) PROVE Goal
    <2>1. r \in Processes
      BY DEF Processes
    <2>2. /\ \A q \in Processes \ {r} : req'[q] = req[q]
          /\ req'[r].pc \in {"create", "claim", "chunks", "unlink"}
      BY <1>0, <1>1, <2>1 DEF Arrive, PreallocateTemp, UploadChunk, CompleteSession,
           CancelSession
    <2>3. CheckedFile(r)'
      BY <2>2 DEF CheckedFile
    <2>4. CASE PreallocateTemp(r)
      <3>1. ~SizeMatches
        BY <2>4, OffsetsAreNat DEF PreallocateTemp, SizeMatches
      <3>2. UNCHANGED <<chunks, object, published>>
        BY <2>4 DEF PreallocateTemp
      <3>3. UNCHANGED <<AllChunksCompleted, StoredOrTorn, PublishedContentIsVerified>>
        BY <3>2 DEF AllChunksCompleted, StoredOrTorn, PublishedContentIsVerified
      <3>4. ASSUME NEW q \in Processes PROVE CheckedFile(q)'
        BY <2>2, <2>3, <3>1, <3>3 DEF UploadInv, CheckedFile
      <3> QED BY <3>3, <3>4 DEF UploadInv
    <2>5. CASE ~PreallocateTemp(r)
      <3>1. UNCHANGED <<chunks, temp, object, published>>
        BY <1>1, <2>5 DEF Arrive, UploadChunk, CompleteSession, CancelSession
      <3> QED BY <2>1, <2>2, <2>3, <3>1, QuietStep
    <2> QED BY <2>4, <2>5
  <1>2. ASSUME NEW r \in Processes, Proceed(r) PROVE Goal
    <2>0. \A q \in Processes \ {r} : req'[q] = req[q]
      BY <1>0, <1>2 DEF Proceed, InsertSession, ClaimChunk, OpenTemp, WriteTemp, MarkChunk,
           CountChunk, CountIncomplete, VerifyTemp, MarkFailed, MarkCompleted, BeginCopy,
           FinishCopy, RemoveTemp, InsertArtifact, UnlinkTemp, MarkCancelled
    <2>1. CASE InsertSession(r) \/ CountChunk(r) \/ MarkFailed(r) \/ UnlinkTemp(r)
               \/ MarkCancelled(r)
      <3>1. req'[r].pc \in {"idle", "cancel"}
        BY <1>0, <2>1 DEF InsertSession, CountChunk, MarkFailed, UnlinkTemp, MarkCancelled,
             Idle
      <3>2. UNCHANGED <<chunks, temp, object, published>>
        BY <2>1 DEF InsertSession, CountChunk, MarkFailed, UnlinkTemp, MarkCancelled
      <3> QED BY <2>0, <3>1, <3>2, QuietStep DEF CheckedFile
    <2>2. CASE ClaimChunk(r)
      <3>1. req'[r].pc \in {"idle", "open"}
        BY <1>0, <2>2 DEF ClaimChunk, Idle
      <3>2. UNCHANGED <<temp, object, published>>
        BY <2>2 DEF ClaimChunk
      <3>3. AllChunksCompleted => UNCHANGED chunks
        BY <2>2 DEF ClaimChunk, Claimable, AllChunksCompleted
      <3>4. UNCHANGED <<SizeMatches, ChecksumMatches, StoredOrTorn, PublishedContentIsVerified>>
        BY <3>2 DEF SizeMatches, ChecksumMatches, StoredOrTorn, PublishedContentIsVerified
      <3>5. AllChunksCompleted => AllChunksCompleted'
        BY <3>3 DEF AllChunksCompleted
      <3>6. ASSUME NEW q \in Processes PROVE CheckedFile(q)'
        BY <2>0, <3>1, <3>4, <3>5 DEF UploadInv, CheckedFile
      <3> QED BY <3>4, <3>6 DEF UploadInv
    <2>3. CASE OpenTemp(r)
      <3>1. req'[r].pc \in {"idle", "write"}
        <4>1. req[r] = [pc |-> req[r].pc, chunk |-> req[r].chunk, at |-> req[r].at,
                        to |-> req[r].to, body |-> req[r].body]
          BY <1>0, <2>3, RequestFields DEF OpenTemp
        <4> QED BY <1>0, <2>3, <4>1 DEF OpenTemp, Idle
      <3>2. UNCHANGED <<chunks, temp, object, published>>
        BY <2>3 DEF OpenTemp
      <3> QED BY <2>0, <3>1, <3>2, QuietStep DEF CheckedFile
    <2>4. CASE WriteTemp(r)
      <3>1. req'[r].pc \in {"write", "mark"}
        <4>1. req[r] = [pc |-> req[r].pc, chunk |-> req[r].chunk, at |-> req[r].at,
                        to |-> req[r].to, body |-> req[r].body]
          BY <1>0, <2>4, RequestFields DEF WriteTemp
        <4> QED BY <1>0, <2>4, <4>1 DEF WriteTemp
      <3>2. ~AllChunksCompleted
        BY <1>0, <2>4, NoWriterOfCheckedFile DEF WriteTemp, Writing
      <3>3. UNCHANGED <<chunks, object, published>>
        BY <2>4 DEF WriteTemp
      <3>4. UNCHANGED <<AllChunksCompleted, StoredOrTorn, PublishedContentIsVerified>>
        BY <3>3 DEF AllChunksCompleted, StoredOrTorn, PublishedContentIsVerified
      <3>5. ASSUME NEW q \in Processes PROVE CheckedFile(q)'
        BY <2>0, <3>1, <3>2, <3>4 DEF UploadInv, CheckedFile
      <3> QED BY <3>4, <3>5 DEF UploadInv
    <2>5. CASE MarkChunk(r)
      <3>1. req'[r].pc = "count"
        BY <1>0, <2>5 DEF MarkChunk
      <3>2. UNCHANGED <<temp, object, published>>
        BY <2>5 DEF MarkChunk
      <3>3. AllChunksCompleted => AllChunksCompleted'
        BY <1>0, <2>5 DEF MarkChunk, AllChunksCompleted
      <3>4. UNCHANGED <<SizeMatches, ChecksumMatches, StoredOrTorn, PublishedContentIsVerified>>
        BY <3>2 DEF SizeMatches, ChecksumMatches, StoredOrTorn, PublishedContentIsVerified
      <3>5. ASSUME NEW q \in Processes PROVE CheckedFile(q)'
        BY <2>0, <3>1, <3>3, <3>4 DEF UploadInv, CheckedFile
      <3> QED BY <3>4, <3>5 DEF UploadInv
    <2>6. CASE CountIncomplete(r) \/ VerifyTemp(r) \/ MarkCompleted(r)
      <3>1. UNCHANGED <<chunks, temp, object, published>>
        BY <2>6 DEF CountIncomplete, VerifyTemp, MarkCompleted
      <3>2. UNCHANGED <<AllChunksCompleted, SizeMatches, ChecksumMatches>>
        BY <3>1 DEF AllChunksCompleted, SizeMatches, ChecksumMatches
      <3>3. CheckedFile(r)
        BY DEF UploadInv
      <3>4. CASE CountIncomplete(r)
        <4>1. req'[r].pc = "idle" \/ (req'[r].pc = "hash" /\ AllChunksCompleted)
          BY <1>0, <3>4 DEF CountIncomplete, Idle
        <4>2. CheckedFile(r)'
          BY <3>2, <4>1 DEF CheckedFile
        <4> QED BY <2>0, <3>1, <4>2, QuietStep
      <3>5. CASE VerifyTemp(r)
        <4>1. \/ req'[r].pc \in {"idle", "fail"}
              \/ req'[r].pc = "finish" /\ SizeMatches /\ ChecksumMatches
          BY <1>0, <3>5 DEF VerifyTemp, Idle
        <4>2. AllChunksCompleted
          BY <3>3, <3>5 DEF VerifyTemp, CheckedFile
        <4>3. CheckedFile(r)'
          BY <3>2, <4>1, <4>2 DEF CheckedFile
        <4> QED BY <2>0, <3>1, <4>3, QuietStep
      <3>6. CASE MarkCompleted(r)
        <4>1. req'[r].pc = "copy" /\ req[r].pc = "finish"
          BY <1>0, <3>6 DEF MarkCompleted
        <4>2. CheckedFile(r)'
          BY <3>2, <3>3, <4>1 DEF CheckedFile
        <4> QED BY <2>0, <3>1, <4>2, QuietStep
      <3> QED BY <2>6, <3>4, <3>5, <3>6
    <2>7. CASE BeginCopy(r)
      <3>1. AllChunksCompleted /\ SizeMatches /\ ChecksumMatches
        BY <2>7 DEF BeginCopy, UploadInv, CheckedFile
      <3>2. req'[r].pc = "idle" \/ (req'[r].pc = "copying" /\ req'[r].content = "good")
        BY <1>0, <2>7, <3>1 DEF BeginCopy, Idle
      <3>3. UNCHANGED <<chunks, temp, published>>
        BY <2>7 DEF BeginCopy
      <3>4. UNCHANGED <<AllChunksCompleted, SizeMatches, ChecksumMatches>>
        BY <3>3 DEF AllChunksCompleted, SizeMatches, ChecksumMatches
      <3>5. object' = object \/ (CopyInPlace /\ object' = "torn")
        BY <2>7 DEF BeginCopy
      <3>6. (StoredOrTorn => StoredOrTorn') /\ PublishedContentIsVerified'
        BY <3>3, <3>5 DEF StoredOrTorn, PublishedContentIsVerified, UploadInv
      <3>7. ASSUME NEW q \in Processes PROVE CheckedFile(q)'
        BY <2>0, <3>1, <3>2, <3>4, <3>6 DEF UploadInv, CheckedFile
      <3> QED BY <3>6, <3>7
    <2>8. CASE FinishCopy(r)
      <3>1. /\ req'[r].pc = "remove" /\ object' = "good"
            /\ AllChunksCompleted /\ SizeMatches /\ ChecksumMatches
        BY <1>0, <2>8 DEF FinishCopy, UploadInv, CheckedFile
      <3>2. UNCHANGED <<chunks, temp, published>>
        BY <2>8 DEF FinishCopy
      <3>3. UNCHANGED <<AllChunksCompleted, SizeMatches, ChecksumMatches>>
        BY <3>2 DEF AllChunksCompleted, SizeMatches, ChecksumMatches
      <3>4. StoredOrTorn' /\ PublishedContentIsVerified'
        BY <3>1 DEF StoredOrTorn, PublishedContentIsVerified
      <3>5. ASSUME NEW q \in Processes PROVE CheckedFile(q)'
        BY <2>0, <3>1, <3>3, <3>4 DEF UploadInv, CheckedFile
      <3> QED BY <3>4, <3>5
    <2>9. CASE RemoveTemp(r)
      <3>1. req'[r].pc = "insert" /\ req[r].pc = "remove"
        BY <1>0, <2>9 DEF RemoveTemp
      <3>2. UNCHANGED <<chunks, temp, object, published>>
        BY <2>9 DEF RemoveTemp
      <3>3. UNCHANGED <<AllChunksCompleted, SizeMatches, ChecksumMatches, StoredOrTorn>>
        BY <3>2 DEF AllChunksCompleted, SizeMatches, ChecksumMatches, StoredOrTorn
      <3>4. CheckedFile(r)'
        BY <3>1, <3>3 DEF UploadInv, CheckedFile
      <3> QED BY <2>0, <3>2, <3>4, QuietStep
    <2>10. CASE InsertArtifact(r)
      <3>1. req'[r].pc = "idle" /\ req[r].pc = "insert"
        BY <1>0, <2>10 DEF InsertArtifact, Idle
      <3>2. UNCHANGED <<chunks, temp, object>>
        BY <2>10 DEF InsertArtifact
      <3>3. UNCHANGED <<AllChunksCompleted, SizeMatches, ChecksumMatches, StoredOrTorn>>
        BY <3>2 DEF AllChunksCompleted, SizeMatches, ChecksumMatches, StoredOrTorn
      <3>4. PublishedContentIsVerified'
        BY <3>1, <3>2 DEF UploadInv, CheckedFile, StoredOrTorn, PublishedContentIsVerified
      <3>5. ASSUME NEW q \in Processes PROVE CheckedFile(q)'
        BY <2>0, <3>1, <3>3 DEF UploadInv, CheckedFile
      <3> QED BY <3>4, <3>5
    <2> QED BY <1>2, <2>1, <2>2, <2>3, <2>4, <2>5, <2>6, <2>7, <2>8, <2>9, <2>10
            DEF Proceed
  <1>3. ASSUME NEW r \in Processes, Abort(r) PROVE Goal
    <2>1. req'[r].pc = "idle" /\ \A q \in Processes \ {r} : req'[q] = req[q]
      BY <1>0, <1>3 DEF Abort, Idle
    <2>2. UNCHANGED <<chunks, temp, object, published>>
      BY <1>3 DEF Abort
    <2> QED BY <2>1, <2>2, QuietStep DEF CheckedFile
  <1>4. CASE CleanupExpired
    <2>1. req'[Sweeper].pc = "unlink" /\ \A q \in Processes \ {Sweeper} : req'[q] = req[q]
      BY <1>0, <1>4 DEF CleanupExpired, Processes
    <2>2. UNCHANGED <<chunks, temp, object, published>>
      BY <1>4 DEF CleanupExpired
    <2> QED BY <2>1, <2>2, QuietStep DEF CheckedFile, Processes
  <1>5. CASE Expire \/ UNCHANGED vars
    <2>1. UNCHANGED <<chunks, temp, object, published, req>>
      BY <1>5 DEF Expire, vars
    <2>2. UNCHANGED <<AllChunksCompleted, SizeMatches, ChecksumMatches, StoredOrTorn,
                      PublishedContentIsVerified>>
      BY <2>1 DEF AllChunksCompleted, SizeMatches, ChecksumMatches, StoredOrTorn,
           PublishedContentIsVerified
    <2> QED BY <2>1, <2>2 DEF UploadInv, CheckedFile
  <1> QED BY <1>1, <1>2, <1>3, <1>4, <1>5 DEF Next

(* The inductive invariant of the session.                                 *)
LEMMA UploadInvariant == Spec => []UploadInv
  <1>1. Init => UploadInv
    <2> SUFFICES ASSUME Init PROVE UploadInv
      OBVIOUS
    <2>1. TypeOK
      <3>1. object \in {"absent", "good", "bad", "torn"} /\ published \in BOOLEAN
        BY DEF Init
      <3> QED BY <3>1 DEF Init, TypeOK, Statuses, Bytes
    <2>2. ClaimsHeld /\ \A r \in Processes : CheckedFile(r)
      BY DEF Init, Idle, ClaimsHeld, Writing, CheckedFile
    <2>3. PublishedContentIsVerified
      BY DEF Init, PublishedContentIsVerified
    <2> QED BY <2>1, <2>2, <2>3 DEF UploadInv
  <1>2. UploadInv /\ [Next]_vars => UploadInv'
    BY TypeStep, ClaimsStep, CheckedStep DEF UploadInv
  <1> QED BY <1>1, <1>2, PTL DEF Spec

(* What chunked uploads store and publish has been verified against the    *)
(* declared checksum, for any number of concurrent requests of any kind    *)
(* and any sizes.                                                          *)
THEOREM VerifiedContent == Spec => []PublishedContentIsVerified
  <1>1. UploadInv => PublishedContentIsVerified
    BY DEF UploadInv
  <1> QED BY <1>1, UploadInvariant, PTL

(* Readers of a published artifact see a whole object where the storage    *)
(* backend replaces objects at once: the copy onto the final path          *)
(* (FilesystemStorage::put_file) is all that stands in the way.            *)
THEOREM AtomicBackendServesWholeObjects ==
    ASSUME CopyInPlace = FALSE
    PROVE  Spec => []ReadersSeeWholeObjects
  <1>1. PublishedContentIsVerified => ReadersSeeWholeObjects
    BY DEF PublishedContentIsVerified, ReadersSeeWholeObjects
  <1> QED BY <1>1, VerifiedContent, PTL

-----------------------------------------------------------------------------
(* The refinement.  The content is sealed by the step that completes the   *)
(* last chunk; afterwards no request writes, so no step changes it.        *)
LEMMA ContentKept ==
    ASSUME UNCHANGED <<chunks, temp, object, published>>
    PROVE  UNCHANGED Sealed!vars
  <1>1. UNCHANGED <<AllChunksCompleted, SizeMatches, ChecksumMatches>>
    BY DEF AllChunksCompleted, SizeMatches, ChecksumMatches
  <1>2. UNCHANGED UploadedContent
    BY <1>1 DEF UploadedContent
  <1> QED BY <1>2 DEF Sealed!vars

(* A step that keeps unfinished chunks unfinished leaves the content open. *)
LEMMA StaysOpen ==
    ASSUME ~AllChunksCompleted, UNCHANGED <<chunks, object, published>>
    PROVE  UNCHANGED Sealed!vars
  <1>1. UNCHANGED AllChunksCompleted
    BY DEF AllChunksCompleted
  <1> QED BY <1>1 DEF UploadedContent, Sealed!vars

LEMMA SealedStep == UploadInv /\ [Next]_vars => [Sealed!Next]_(Sealed!vars)
  <1> SUFFICES ASSUME UploadInv, [Next]_vars PROVE [Sealed!Next]_(Sealed!vars)
    OBVIOUS
  <1>0. /\ req \in [Processes -> {Idle} \cup Create \cup Upload \cup Finalize \cup Cancel]
        /\ chunks \in [Chunks -> {"pending", "uploading", "completed"}]
        /\ temp \in [Offsets -> Bytes]
        /\ TypeOK /\ ClaimsHeld
    BY DEF UploadInv, TypeOK
  <1>1. ASSUME NEW r \in Requests, PreallocateTemp(r) PROVE UNCHANGED Sealed!vars
    <2>1. ~SizeMatches
      BY <1>1, OffsetsAreNat DEF PreallocateTemp, SizeMatches
    <2>2. ~ChecksumMatches'
      BY <1>1, OffsetsAreNat DEF PreallocateTemp, ChecksumMatches
    <2>3. UNCHANGED <<chunks, object, published>>
      BY <1>1 DEF PreallocateTemp
    <2>4. UNCHANGED AllChunksCompleted
      BY <2>3 DEF AllChunksCompleted
    <2> QED BY <2>1, <2>2, <2>3, <2>4 DEF UploadedContent, Sealed!vars
  <1>2. ASSUME NEW r \in Processes, ClaimChunk(r) PROVE UNCHANGED Sealed!vars
    <2>1. CASE AllChunksCompleted
      <3>1. UNCHANGED <<chunks, temp, object, published>>
        BY <1>2, <2>1 DEF ClaimChunk, Claimable, AllChunksCompleted
      <3> QED BY <3>1, ContentKept
    <2>2. CASE ~AllChunksCompleted
      <3>1. ~AllChunksCompleted'
        <4>1. CASE Claimable(req[r].from \div ChunkSize)
          <5> DEFINE i == req[r].from \div ChunkSize
          <5>1. i \in Chunks /\ chunks' = [chunks EXCEPT ![i] = "uploading"]
            BY <1>2, <4>1 DEF ClaimChunk, Claimable
          <5> HIDE DEF i
          <5>2. chunks'[i] = "uploading"
            BY <1>0, <5>1
          <5> QED BY <5>1, <5>2 DEF AllChunksCompleted
        <4>2. CASE ~Claimable(req[r].from \div ChunkSize)
          <5>1. UNCHANGED chunks
            BY <1>2, <4>2 DEF ClaimChunk
          <5> QED BY <2>2, <5>1 DEF AllChunksCompleted
        <4> QED BY <4>1, <4>2
      <3>2. UNCHANGED <<object, published>>
        BY <1>2 DEF ClaimChunk
      <3> QED BY <2>2, <3>1, <3>2 DEF UploadedContent, Sealed!vars
    <2> QED BY <2>1, <2>2
  <1>3. ASSUME NEW r \in Processes, WriteTemp(r) PROVE UNCHANGED Sealed!vars
    <2>1. ~AllChunksCompleted
      BY <1>0, <1>3, NoWriterOfCheckedFile DEF WriteTemp, Writing
    <2>2. UNCHANGED <<chunks, object, published>>
      BY <1>3 DEF WriteTemp
    <2> QED BY <2>1, <2>2, StaysOpen
  <1>4. ASSUME NEW r \in Processes, MarkChunk(r) PROVE Sealed!Seal \/ UNCHANGED Sealed!vars
    <2>1. UNCHANGED <<temp, object, published>>
      BY <1>4 DEF MarkChunk
    <2>2. ~AllChunksCompleted
      BY <1>0, <1>4, NoWriterOfCheckedFile DEF MarkChunk, Writing
    <2>3. UploadedContent = "open"
      BY <2>2 DEF UploadedContent
    <2>4. UploadedContent' \in {"open", "good", "bad"}
      BY DEF UploadedContent
    <2> QED BY <2>1, <2>3, <2>4 DEF Sealed!Seal, Sealed!vars
  <1>5. ASSUME NEW r \in Processes, BeginCopy(r) PROVE Sealed!BeginStore \/ UNCHANGED Sealed!vars
    <2>1. AllChunksCompleted /\ SizeMatches /\ ChecksumMatches
      BY <1>5 DEF BeginCopy, UploadInv, CheckedFile
    <2>2. UNCHANGED <<chunks, temp, published>>
      BY <1>5 DEF BeginCopy
    <2>3. UNCHANGED <<AllChunksCompleted, SizeMatches, ChecksumMatches>>
      BY <2>2 DEF AllChunksCompleted, SizeMatches, ChecksumMatches
    <2>4. object' = object \/ (CopyInPlace /\ object' = "torn")
      BY <1>5 DEF BeginCopy
    <2> QED BY <2>1, <2>2, <2>3, <2>4 DEF UploadedContent, Sealed!BeginStore, Sealed!vars
  <1>6. ASSUME NEW r \in Processes, FinishCopy(r) PROVE Sealed!Store
    <2>1. /\ object' = "good"
          /\ AllChunksCompleted /\ SizeMatches /\ ChecksumMatches
      BY <1>6 DEF FinishCopy, UploadInv, CheckedFile
    <2>2. UNCHANGED <<chunks, temp, published>>
      BY <1>6 DEF FinishCopy
    <2>3. UNCHANGED <<AllChunksCompleted, SizeMatches, ChecksumMatches>>
      BY <2>2 DEF AllChunksCompleted, SizeMatches, ChecksumMatches
    <2> QED BY <2>1, <2>2, <2>3 DEF UploadedContent, Sealed!Store
  <1>7. ASSUME NEW r \in Processes, InsertArtifact(r) PROVE Sealed!Publish
    <2>1. AllChunksCompleted /\ SizeMatches /\ ChecksumMatches /\ StoredOrTorn
      BY <1>7 DEF InsertArtifact, UploadInv, CheckedFile
    <2>2. published' = TRUE /\ UNCHANGED <<chunks, temp, object>>
      BY <1>7 DEF InsertArtifact
    <2>3. UNCHANGED <<AllChunksCompleted, SizeMatches, ChecksumMatches>>
      BY <2>2 DEF AllChunksCompleted, SizeMatches, ChecksumMatches
    <2> QED BY <2>1, <2>2, <2>3 DEF UploadedContent, StoredOrTorn, Sealed!Publish
  <1>8. ASSUME NEW r \in Requests, UploadChunk(r) \/ CompleteSession(r) \/ CancelSession(r)
        PROVE  UNCHANGED Sealed!vars
    <2>1. UNCHANGED <<chunks, temp, object, published>>
      BY <1>8 DEF UploadChunk, CompleteSession, CancelSession
    <2> QED BY <2>1, ContentKept
  <1>9. ASSUME NEW r \in Processes,
               \/ InsertSession(r) \/ OpenTemp(r) \/ CountChunk(r) \/ CountIncomplete(r)
               \/ VerifyTemp(r) \/ MarkFailed(r) \/ MarkCompleted(r) \/ RemoveTemp(r)
               \/ UnlinkTemp(r) \/ MarkCancelled(r) \/ Abort(r)
        PROVE  UNCHANGED Sealed!vars
    <2>1. UNCHANGED <<chunks, temp, object, published>>
      BY <1>9 DEF InsertSession, OpenTemp, CountChunk, CountIncomplete, VerifyTemp, MarkFailed,
           MarkCompleted, RemoveTemp, UnlinkTemp, MarkCancelled, Abort
    <2> QED BY <2>1, ContentKept
  <1>10. CASE CleanupExpired \/ Expire \/ UNCHANGED vars
    <2>1. UNCHANGED <<chunks, temp, object, published>>
      BY <1>10 DEF CleanupExpired, Expire, vars
    <2> QED BY <2>1, ContentKept
  <1> QED BY <1>1, <1>2, <1>3, <1>4, <1>5, <1>6, <1>7, <1>8, <1>9, <1>10
          DEF Next, Arrive, Proceed, Sealed!Next

(* A chunked upload implements SealedUpload: its content does not change   *)
(* after its last chunk is recorded, and nothing else is ever stored or    *)
(* published, whatever requests interleave or stop.                        *)
THEOREM SealedContent == Spec => ImplementsSealedUpload
  <1>1. Init => Sealed!Init
    <2> SUFFICES ASSUME Init PROVE Sealed!Init
      OBVIOUS
    <2>1. 0 \in Chunks
      BY SizesAssumption DEF Chunks, TotalChunks
    <2>2. ~AllChunksCompleted
      BY <2>1 DEF Init, AllChunksCompleted
    <2> QED BY <2>2 DEF Init, UploadedContent, Sealed!Init
  <1> QED BY <1>1, SealedStep, UploadInvariant, PTL DEF Spec, ImplementsSealedUpload, Sealed!Spec

-----------------------------------------------------------------------------
(* The strengthening of CountersNeverOvertake: a chunk is marked before it *)
(* is counted, so the requests between the two are owed to the counter.    *)
Uncounted == {r \in Processes : req[r].pc = "count"}

(* The completed chunks that the counter misses, and that nobody is about  *)
(* to count.                                                               *)
Missed == Cardinality(CompletedChunks) - (session.completed_chunks + Cardinality(Uncounted))

CountInv == Missed >= 0

(* No request is dropped between marking its chunk and counting it.        *)
CountsKept == \A r \in Processes : req[r].pc = "count" => ~Abort(r)

LEMMA FiniteProcesses == IsFiniteSet(Processes) /\ IsFiniteSet(Chunks)
  <1>1. IsFiniteSet(Processes)
    BY RequestsAssumption, FS_AddElement DEF Processes
  <1>2. TotalChunks - 1 \in Int
    BY SizesAssumption DEF TotalChunks
  <1> QED BY <1>1, <1>2, FS_Interval DEF Chunks

LEMMA CountsFinite ==
    /\ IsFiniteSet(Uncounted) /\ Cardinality(Uncounted) \in Nat
    /\ IsFiniteSet(Uncounted') /\ Cardinality(Uncounted') \in Nat
    /\ IsFiniteSet(CompletedChunks) /\ Cardinality(CompletedChunks) \in Nat
    /\ IsFiniteSet(CompletedChunks') /\ Cardinality(CompletedChunks') \in Nat
  <1>1. /\ Uncounted \in SUBSET Processes /\ Uncounted' \in SUBSET Processes
        /\ CompletedChunks \in SUBSET Chunks /\ CompletedChunks' \in SUBSET Chunks
    BY DEF Uncounted, CompletedChunks
  <1> QED BY <1>1, FiniteProcesses, FS_Subset, FS_CardinalityType

(* A step that completes no chunk and counts none misses at most those     *)
(* that were about to be counted.                                          *)
LEMMA NothingCounted ==
    ASSUME TypeOK, session'.completed_chunks = session.completed_chunks,
           CompletedChunks' = CompletedChunks,
           \A r \in Processes : req'[r].pc = "count" => req[r].pc = "count"
    PROVE  /\ Missed' >= Missed
           /\ (\A r \in Processes : req[r].pc = "count" => req'[r].pc = "count") => Missed' = Missed
  <1>1. Uncounted' \in SUBSET Uncounted
    BY DEF Uncounted
  <1>2. Cardinality(Uncounted') <= Cardinality(Uncounted)
    BY <1>1, CountsFinite, FS_Subset
  <1>3. session.completed_chunks \in Nat
    BY DEF TypeOK
  <1>4. (\A r \in Processes : req[r].pc = "count" => req'[r].pc = "count")
          => Uncounted' = Uncounted
    BY DEF Uncounted
  <1>5. Missed' >= Missed
    BY <1>2, <1>3, CountsFinite DEF Missed
  <1>6. Uncounted' = Uncounted => Missed' = Missed
    BY DEF Missed
  <1> QED BY <1>4, <1>5, <1>6

LEMMA MissedStep ==
    ASSUME UploadInv, [Next]_vars
    PROVE  Missed' >= Missed /\ (CountsKept => Missed' = Missed)
  <1> DEFINE Goal == Missed' >= Missed /\ (CountsKept => Missed' = Missed)
  <1>0. /\ TypeOK /\ ClaimsHeld
        /\ req \in [Processes -> {Idle} \cup Create \cup Upload \cup Finalize \cup Cancel]
        /\ chunks \in [Chunks -> {"pending", "uploading", "completed"}]
        /\ session \in [status : Statuses, completed_chunks : Nat]
        /\ session.completed_chunks \in Nat
    BY DEF UploadInv, TypeOK
  <1>1. ASSUME NEW r \in Requests, Arrive(r) PROVE Goal
    <2>1. r \in Processes
      BY DEF Processes
    <2>2. UNCHANGED <<session, chunks>>
      BY <1>1 DEF Arrive, PreallocateTemp, UploadChunk, CompleteSession, CancelSession
    <2>3. \A q \in Processes : req'[q].pc = "count" <=> req[q].pc = "count"
      BY <1>0, <1>1, <2>1 DEF Arrive, PreallocateTemp, UploadChunk, CompleteSession, CancelSession,
         Idle
    <2> QED BY <1>0, <2>2, <2>3, NothingCounted DEF CompletedChunks
  <1>2. ASSUME NEW r \in Processes, Proceed(r) PROVE Goal
    <2>1. CASE MarkChunk(r)
      <3> DEFINE i == req[r].chunk
      <3>1. i \in Chunks /\ chunks[i] = "uploading"
        BY <1>0, <2>1, RequestFields DEF MarkChunk, ClaimsHeld, Writing
      <3>2. CompletedChunks' = CompletedChunks \cup {i} /\ i \notin CompletedChunks
        BY <1>0, <2>1, <3>1 DEF MarkChunk, CompletedChunks
      <3>3. Uncounted' = Uncounted \cup {r} /\ r \notin Uncounted
        BY <1>0, <2>1 DEF MarkChunk, Uncounted
      <3>4. session' = session
        BY <2>1 DEF MarkChunk
      <3>5. /\ Cardinality(CompletedChunks') = Cardinality(CompletedChunks) + 1
            /\ Cardinality(Uncounted') = Cardinality(Uncounted) + 1
        BY <3>2, <3>3, CountsFinite, FS_AddElement
      <3> QED BY <1>0, <3>4, <3>5, CountsFinite DEF Missed
    <2>2. CASE CountChunk(r)
      <3>1. Uncounted' = Uncounted \ {r} /\ r \in Uncounted
        BY <1>0, <2>2 DEF CountChunk, Uncounted, Idle
      <3>2. Cardinality(Uncounted') = Cardinality(Uncounted) - 1
        BY <3>1, CountsFinite, FS_RemoveElement
      <3>3. /\ CompletedChunks' = CompletedChunks
            /\ session'.completed_chunks = session.completed_chunks + 1
        BY <2>2 DEF CountChunk, CompletedChunks
      <3> QED BY <1>0, <3>2, <3>3, CountsFinite DEF Missed
    <2>3. CASE ClaimChunk(r)
      <3>1. CompletedChunks' = CompletedChunks
        BY <1>0, <2>3 DEF ClaimChunk, Claimable, CompletedChunks
      <3>2. \A q \in Processes : req'[q].pc = "count" <=> req[q].pc = "count"
        BY <1>0, <2>3 DEF ClaimChunk, Idle
      <3>3. session' = session
        BY <2>3 DEF ClaimChunk
      <3> QED BY <1>0, <3>1, <3>2, <3>3, NothingCounted
    <2>4. CASE OpenTemp(r) \/ WriteTemp(r)
      <3>1. req[r] = [pc |-> req[r].pc, chunk |-> req[r].chunk, at |-> req[r].at,
                      to |-> req[r].to, body |-> req[r].body]
        BY <1>0, <2>4, RequestFields DEF OpenTemp, WriteTemp
      <3>2. \A q \in Processes : req'[q].pc = "count" <=> req[q].pc = "count"
        BY <1>0, <2>4, <3>1 DEF OpenTemp, WriteTemp, Idle
      <3>3. UNCHANGED <<session, chunks>>
        BY <2>4 DEF OpenTemp, WriteTemp
      <3> QED BY <1>0, <3>2, <3>3, NothingCounted DEF CompletedChunks
    <2>5. CASE ~(MarkChunk(r) \/ CountChunk(r) \/ ClaimChunk(r) \/ OpenTemp(r) \/ WriteTemp(r))
      <3>1. chunks' = chunks /\ session'.completed_chunks = session.completed_chunks
        BY <1>0, <1>2, <2>5 DEF Proceed, InsertSession, CountIncomplete, VerifyTemp,
           MarkFailed, MarkCompleted, BeginCopy, FinishCopy, RemoveTemp, InsertArtifact,
           UnlinkTemp, MarkCancelled
      <3>2. \A q \in Processes : req'[q].pc = "count" <=> req[q].pc = "count"
        BY <1>0, <1>2, <2>5 DEF Proceed, InsertSession, CountIncomplete, VerifyTemp,
           MarkFailed, MarkCompleted, BeginCopy, FinishCopy, RemoveTemp, InsertArtifact,
           UnlinkTemp, MarkCancelled, Idle
      <3> QED BY <1>0, <3>1, <3>2, NothingCounted DEF CompletedChunks
    <2> QED BY <2>1, <2>2, <2>3, <2>4, <2>5
  <1>3. ASSUME NEW r \in Processes, Abort(r) PROVE Goal
    <2>1. \A q \in Processes : req'[q].pc = "count" => req[q].pc = "count"
      BY <1>0, <1>3 DEF Abort, Idle
    <2>2. CountsKept => \A q \in Processes : req[q].pc = "count" => req'[q].pc = "count"
      BY <1>0, <1>3 DEF Abort, CountsKept
    <2>3. session' = session /\ CompletedChunks' = CompletedChunks
      BY <1>3 DEF Abort, CompletedChunks
    <2> QED BY <1>0, <2>1, <2>2, <2>3, NothingCounted
  <1>4. CASE CleanupExpired
    <2>1. \A q \in Processes : req'[q].pc = "count" <=> req[q].pc = "count"
      BY <1>0, <1>4 DEF CleanupExpired, Processes, Idle
    <2> QED BY <1>0, <1>4, <2>1, NothingCounted DEF CleanupExpired, CompletedChunks
  <1>5. CASE Expire \/ UNCHANGED vars
    <2>1. session' = session /\ req' = req /\ CompletedChunks' = CompletedChunks
      BY <1>5 DEF Expire, vars, CompletedChunks
    <2> QED BY <1>0, <2>1, NothingCounted
  <1> QED BY <1>1, <1>2, <1>3, <1>4, <1>5 DEF Next

LEMMA NothingMissed == Init => Missed = 0
  <1> SUFFICES ASSUME Init PROVE Missed = 0
    OBVIOUS
  <1>1. Uncounted = {} /\ CompletedChunks = {}
    BY DEF Init, Uncounted, CompletedChunks, Idle
  <1> QED BY <1>1, FS_EmptySet DEF Init, Missed

LEMMA MissedIsInteger == UploadInv => Missed \in Int
  BY CountsFinite DEF UploadInv, TypeOK, Missed

(* completed_chunks never counts a chunk twice nor one that is not marked  *)
(* completed, for any number of concurrent and aborted chunk requests.     *)
THEOREM CountersBounded == Spec => []CountersNeverOvertake
  <1>1. Init => CountInv
    BY NothingMissed DEF CountInv
  <1>2. UploadInv /\ UploadInv' /\ CountInv /\ [Next]_vars => CountInv'
    <2> SUFFICES ASSUME UploadInv, UploadInv', CountInv, [Next]_vars PROVE CountInv'
      OBVIOUS
    <2>1. Missed \in Int /\ Missed' \in Int
      BY MissedIsInteger, CountsFinite DEF UploadInv, TypeOK, Missed
    <2>2. Missed' >= Missed
      BY MissedStep
    <2> QED BY <2>1, <2>2 DEF CountInv
  <1>3. UploadInv /\ CountInv => CountersNeverOvertake
    BY CountsFinite DEF UploadInv, TypeOK, CountInv, Missed, CountersNeverOvertake
  <1> QED BY <1>1, <1>2, <1>3, UploadInvariant, PTL DEF Spec

(* upload_chunk promises that the chunk's row and the session's counter    *)
(* are updated "atomically".  They are two statements, and being dropped   *)
(* between them is the only way to part them: as long as no request is,    *)
(* the counter is the number of completed chunks whenever no request runs, *)
(* for any number of concurrent, retried and aborted chunks.               *)
THEOREM UndroppedCountsFollow ==
    Spec /\ [][CountsKept]_vars => []CountersFollowChunks
  <1>1. UploadInv /\ Missed = 0 => CountersFollowChunks
    <2> SUFFICES ASSUME UploadInv, Missed = 0, \A r \in Processes : req[r] = Idle
                 PROVE  session.completed_chunks = Cardinality(CompletedChunks)
      BY DEF CountersFollowChunks
    <2>1. Uncounted = {}
      BY DEF Uncounted, Idle
    <2>2. session.completed_chunks \in Nat
      BY DEF UploadInv, TypeOK
    <2> QED BY <2>1, <2>2, CountsFinite, FS_EmptySet DEF Missed
  <1>2. UploadInv /\ Missed = 0 /\ [Next /\ CountsKept]_vars => (Missed = 0)'
    <2> SUFFICES ASSUME UploadInv, Missed = 0, [Next /\ CountsKept]_vars PROVE Missed' = 0
      OBVIOUS
    <2>1. CASE UNCHANGED vars
      BY <2>1 DEF vars, Missed, CompletedChunks, Uncounted
    <2>2. CASE Next /\ CountsKept
      BY <2>2, MissedStep
    <2> QED BY <2>1, <2>2
  <1>3. [Next]_vars /\ [CountsKept]_vars => [Next /\ CountsKept]_vars
    OBVIOUS
  <1> QED BY <1>1, <1>2, <1>3, NothingMissed, UploadInvariant, PTL DEF Spec

-----------------------------------------------------------------------------
(* The claims of chunks: given up only by the request that took them.      *)
(* No request is dropped while it holds a claim, and none finds that its   *)
(* file is gone.                                                           *)
ClaimsKept ==
    \A r \in Processes : /\ Writing(r) => ~Abort(r)
                         /\ OpenTemp(r) => tempExists

(* Every claim has its request, and the sweeper claims nothing.            *)
ReleaseInv ==
    /\ ClaimsAreReleased
    /\ req[Sweeper].pc \in {"idle", "unlink", "cancel"}

LEMMA SweeperSweeps ==
    ASSUME UploadInv, ReleaseInv, [Next]_vars
    PROVE  req'[Sweeper].pc \in {"idle", "unlink", "cancel"}
  <1>0. /\ req \in [Processes -> {Idle} \cup Create \cup Upload \cup Finalize \cup Cancel]
        /\ Sweeper \in Processes /\ Sweeper \notin Requests
    BY RequestsAssumption DEF UploadInv, TypeOK, Processes
  <1>1. ASSUME NEW r \in Processes, r # Sweeper, Arrive(r) \/ Proceed(r)
        PROVE  req'[Sweeper] = req[Sweeper]
    <2>1. \E q : req' = [req EXCEPT ![r] = q]
      BY <1>1 DEF Arrive, PreallocateTemp, UploadChunk, CompleteSession, CancelSession, Proceed,
         InsertSession, ClaimChunk, OpenTemp, WriteTemp, MarkChunk, CountChunk, CountIncomplete,
         VerifyTemp, MarkFailed, MarkCompleted, BeginCopy, FinishCopy, RemoveTemp,
         InsertArtifact, UnlinkTemp, MarkCancelled
    <2> QED BY <1>0, <1>1, <2>1
  <1>2. CASE Proceed(Sweeper)
    BY <1>0, <1>2 DEF ReleaseInv, Proceed,
         InsertSession, ClaimChunk, OpenTemp, WriteTemp, MarkChunk, CountChunk, CountIncomplete,
         VerifyTemp, MarkFailed, MarkCompleted, BeginCopy, FinishCopy, RemoveTemp,
         InsertArtifact, UnlinkTemp, MarkCancelled, Idle
  <1>3. ASSUME NEW r \in Processes, Abort(r)
        PROVE  req'[Sweeper].pc \in {"idle", "unlink", "cancel"}
    BY <1>0, <1>3 DEF ReleaseInv, Abort, Idle
  <1>4. CASE CleanupExpired
    BY <1>0, <1>4 DEF CleanupExpired
  <1>5. CASE Expire \/ UNCHANGED vars
    BY <1>5 DEF ReleaseInv, Expire, vars
  <1>6. Requests \subseteq Processes
    BY DEF Processes
  <1> QED BY <1>0, <1>1, <1>2, <1>3, <1>4, <1>5, <1>6 DEF Next, ReleaseInv

(* A step of one request that neither claims a chunk nor marks one.        *)
LEMMA StillHeld ==
    ASSUME ClaimsAreReleased, chunks' = chunks, NEW r \in Processes,
           \A q \in Processes \ {r} : req'[q] = req[q],
           Writing(r) => Writing(r)' /\ req'[r].chunk = req[r].chunk
    PROVE  ClaimsAreReleased'
  <1> SUFFICES ASSUME NEW i \in Chunks, chunks[i] = "uploading"
               PROVE  \E q \in Requests : Writing(q)' /\ req'[q].chunk = i
    BY DEF ClaimsAreReleased, Writing
  <1>1. PICK q \in Requests : Writing(q) /\ req[q].chunk = i
    BY DEF ClaimsAreReleased, Writing
  <1>2. Writing(q)' /\ req'[q].chunk = i
    BY <1>1 DEF Writing, Processes
  <1> QED BY <1>2

LEMMA ReleaseStep ==
    ASSUME UploadInv, ReleaseInv, Next, ClaimsKept
    PROVE  ClaimsAreReleased'
  <1>0. /\ req \in [Processes -> {Idle} \cup Create \cup Upload \cup Finalize \cup Cancel]
        /\ chunks \in [Chunks -> {"pending", "uploading", "completed"}]
        /\ TypeOK /\ ClaimsAreReleased /\ ~Writing(Sweeper)
        /\ Sweeper \in Processes /\ \A r \in Processes : r \in Requests \/ r = Sweeper
    BY DEF UploadInv, TypeOK, ReleaseInv, Writing, Processes
  <1>1. ASSUME NEW r \in Requests, Arrive(r) PROVE ClaimsAreReleased'
    <2>1. r \in Processes
      BY DEF Processes
    <2>2. ~Writing(r) /\ chunks' = chunks /\ \A q \in Processes \ {r} : req'[q] = req[q]
      BY <1>0, <1>1, <2>1 DEF Arrive, PreallocateTemp, UploadChunk, CompleteSession,
         CancelSession, Writing, Idle
    <2> QED BY <1>0, <2>1, <2>2, StillHeld
  <1>2. ASSUME NEW r \in Processes, Proceed(r) PROVE ClaimsAreReleased'
    <2>1. CASE ClaimChunk(r)
      <3> DEFINE i == req[r].from \div ChunkSize
                 claimed == [pc |-> "open", chunk |-> i, at |-> req[r].from,
                             to |-> req[r].to, body |-> req[r].body]
      <3>1. CASE Claimable(i)
        <4>1. chunks' = [chunks EXCEPT ![i] = "uploading"] /\ req' = [req EXCEPT ![r] = claimed]
          BY <2>1, <3>1 DEF ClaimChunk
        <4>2. ~Writing(r) /\ r \in Requests
          BY <1>0, <2>1 DEF ClaimChunk, Writing, ReleaseInv
        <4>3. claimed.pc = "open" /\ claimed.chunk = i
          OBVIOUS
        <4> HIDE DEF i, claimed
        <4>4. ASSUME NEW j \in Chunks, chunks'[j] = "uploading"
              PROVE  \E q \in Requests : req'[q].pc \in {"open", "write", "mark"}
                                         /\ req'[q].chunk = j
          <5>1. CASE j = i
            BY <1>0, <4>1, <4>2, <4>3, <5>1
          <5>2. CASE j # i
            <6>1. chunks[j] = "uploading"
              BY <1>0, <4>1, <4>4, <5>2
            <6>2. PICK q \in Requests : Writing(q) /\ req[q].chunk = j
              BY <1>0, <6>1 DEF ClaimsAreReleased, Writing
            <6>3. q # r /\ q \in Processes
              BY <4>2, <6>2 DEF Processes
            <6>4. req'[q] = req[q]
              BY <1>0, <4>1, <6>3
            <6> QED BY <6>2, <6>4 DEF Writing
          <5> QED BY <5>1, <5>2
        <4> QED BY <4>4 DEF ClaimsAreReleased
      <3>2. CASE ~Claimable(i)
        <4>1. ~Writing(r) /\ chunks' = chunks /\ \A q \in Processes \ {r} : req'[q] = req[q]
          BY <1>0, <2>1, <3>2 DEF ClaimChunk, Writing
        <4> QED BY <1>0, <4>1, StillHeld
      <3> QED BY <3>1, <3>2
    <2>2. CASE OpenTemp(r) \/ WriteTemp(r)
      <3>1. req[r] = [pc |-> req[r].pc, chunk |-> req[r].chunk, at |-> req[r].at,
                      to |-> req[r].to, body |-> req[r].body]
        BY <1>0, <2>2, RequestFields DEF OpenTemp, WriteTemp
      <3>2. OpenTemp(r) => tempExists
        BY DEF ClaimsKept
      <3>3. Writing(r)' /\ req'[r].chunk = req[r].chunk
        BY <1>0, <2>2, <3>1, <3>2 DEF OpenTemp, WriteTemp, Writing
      <3>4. chunks' = chunks /\ \A q \in Processes \ {r} : req'[q] = req[q]
        BY <1>0, <2>2 DEF OpenTemp, WriteTemp
      <3> QED BY <1>0, <3>3, <3>4, StillHeld
    <2>3. CASE MarkChunk(r)
      <3>1. chunks' = [chunks EXCEPT ![req[r].chunk] = "completed"]
            /\ \A q \in Processes \ {r} : req'[q] = req[q]
        BY <1>0, <2>3 DEF MarkChunk
      <3>2. ASSUME NEW j \in Chunks, chunks'[j] = "uploading"
            PROVE  \E q \in Requests : req'[q].pc \in {"open", "write", "mark"}
                                       /\ req'[q].chunk = j
        <4>1. chunks[j] = "uploading" /\ j # req[r].chunk
          BY <1>0, <3>1, <3>2
        <4>2. PICK q \in Requests : Writing(q) /\ req[q].chunk = j
          BY <1>0, <4>1 DEF ClaimsAreReleased, Writing
        <4>3. req'[q] = req[q]
          BY <3>1, <4>1, <4>2 DEF Processes
        <4> QED BY <4>2, <4>3 DEF Writing
      <3> QED BY <3>2 DEF ClaimsAreReleased
    <2>4. CASE ~(ClaimChunk(r) \/ OpenTemp(r) \/ WriteTemp(r) \/ MarkChunk(r))
      <3>1. \E q : req' = [req EXCEPT ![r] = q]
        BY <1>2, <2>4 DEF Proceed, InsertSession, CountChunk, CountIncomplete, VerifyTemp,
           MarkFailed, MarkCompleted, BeginCopy, FinishCopy, RemoveTemp, InsertArtifact,
           UnlinkTemp, MarkCancelled
      <3>2. ~Writing(r) /\ chunks' = chunks
        BY <1>2, <2>4 DEF Proceed, InsertSession, CountChunk, CountIncomplete, VerifyTemp,
           MarkFailed, MarkCompleted, BeginCopy, FinishCopy, RemoveTemp, InsertArtifact,
           UnlinkTemp, MarkCancelled, Writing
      <3>3. \A q \in Processes \ {r} : req'[q] = req[q]
        BY <1>0, <3>1
      <3> QED BY <1>0, <3>2, <3>3, StillHeld
    <2> QED BY <2>1, <2>2, <2>3, <2>4
  <1>3. ASSUME NEW r \in Processes, Abort(r) PROVE ClaimsAreReleased'
    <2>1. ~Writing(r)
      BY <1>3 DEF ClaimsKept
    <2>2. chunks' = chunks /\ \A q \in Processes \ {r} : req'[q] = req[q]
      BY <1>0, <1>3 DEF Abort
    <2> QED BY <1>0, <2>1, <2>2, StillHeld
  <1>4. CASE CleanupExpired
    <2>1. chunks' = chunks /\ \A q \in Processes \ {Sweeper} : req'[q] = req[q]
      BY <1>0, <1>4 DEF CleanupExpired
    <2> QED BY <1>0, <2>1, StillHeld
  <1>5. CASE Expire
    BY <1>0, <1>5 DEF Expire, ClaimsAreReleased
  <1> QED BY <1>1, <1>2, <1>3, <1>4, <1>5 DEF Next

(* Migration 089 says that a claimed chunk becomes 'completed' or 'failed' *)
(* after the write; upload_chunk has no statement for the second.  So a    *)
(* request that is dropped while it holds its claim, or that finds the     *)
(* temp file gone, leaves a chunk that is 'uploading' for ever, and as     *)
(* long as neither happens none is: for any number of concurrent requests. *)
THEOREM KeptClaimsAreReleased ==
    Spec /\ [][ClaimsKept]_vars => []ClaimsAreReleased
  <1>1. Init => ReleaseInv
    <2>1. Init => req[Sweeper].pc = "idle" /\ \A i \in Chunks : chunks[i] = "pending"
      BY DEF Init, Idle, Processes
    <2> QED BY <2>1 DEF ReleaseInv, ClaimsAreReleased
  <1>2. UploadInv /\ ReleaseInv /\ [Next /\ ClaimsKept]_vars => ReleaseInv'
    <2> SUFFICES ASSUME UploadInv, ReleaseInv, [Next /\ ClaimsKept]_vars PROVE ReleaseInv'
      OBVIOUS
    <2>1. CASE UNCHANGED vars
      BY <2>1 DEF vars, ReleaseInv, ClaimsAreReleased
    <2>2. CASE Next /\ ClaimsKept
      BY <2>2, ReleaseStep, SweeperSweeps DEF ReleaseInv
    <2> QED BY <2>1, <2>2
  <1>3. ReleaseInv => ClaimsAreReleased
    BY DEF ReleaseInv
  <1>4. [Next]_vars /\ [ClaimsKept]_vars => [Next /\ ClaimsKept]_vars
    OBVIOUS
  <1> QED BY <1>1, <1>2, <1>3, <1>4, UploadInvariant, PTL DEF Spec
=============================================================================
