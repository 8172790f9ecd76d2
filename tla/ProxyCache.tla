----------------------------- MODULE ProxyCache -----------------------------
(***************************************************************************)
(* The proxy cache of a remote repository, for one cached path: a body     *)
(* object and a metadata sidecar, written one after the other and read one *)
(* after the other, by requests of several server processes.               *)
(*                                                                         *)
(* Buffered requests (fetch_artifact and what is built on it) hydrate the  *)
(* entry under a lease that is local to the process; streaming requests    *)
(* tee the upstream stream to a background writer and take no lease.       *)
(* Bytes are known by the upstream version they come from and by how much  *)
(* of it they are; a checksum or an ETag is the bytes it is computed from, *)
(* the length and content type of an answer are those of the response that *)
(* the sidecar describes.  TTLs are an expiry that may come at any time,   *)
(* retries, authentication and upstream headers are left out.              *)
(***************************************************************************)
EXTENDS Integers, FiniteSets

CONSTANTS Requests,
          Processes,
          ProcessOf,     \* ProcessOf[r]: the server process that handles r
          Workloads,     \* the kinds of the requests made together
          HasEtags,      \* the backend has ETags (S3, GCS, Azure)
          MaxVersion,    \* model bound on upstream versions
          MaxFaults,     \* model bound on failures, departures and crashes
          Nil

Kinds == {"fetch", "detect", "invalidate", "redirect", "stream"}

ASSUME RequestsAssumption == ProcessOf \in [Requests -> Processes] /\ Nil \notin Requests
ASSUME WorkloadsAssumption == Workloads \subseteq [Requests -> Kinds] /\ HasEtags \in BOOLEAN
ASSUME BoundsAssumption == MaxVersion \in Nat \ {0} /\ MaxFaults \in Nat

VARIABLES upstream,    \* the version upstream serves
          body,        \* the object at cache_key
          sidecar,     \* the object at metadata_key
          lease,       \* lease[n]: the request whose slot is in the map of process n
          req,         \* req[r]: the request
          faults       \* failures, departures and crashes so far

vars == <<upstream, body, sidecar, lease, req, faults>>

Versions == 1..MaxVersion
Empty == [version |-> 0, extent |-> "none"]
Content == [version : Versions, extent : {"whole", "part", "cut"}] \cup {Empty}
Whole(v) == [version |-> v, extent |-> "whole"]

(* What the source's CacheMetadata says of the body.                       *)
CacheMetadata == [sum : Content, etag : Content \cup {Nil}, fresh : BOOLEAN]

ASSUME NilAssumption == Nil \notin Content /\ Nil \notin CacheMetadata

Filling == {"put", "pin", "mark"}
Places == {"idle", "unlink", "unmark", "check", "verify", "join", "wait", "fetch", "stale",
           "reverify", "release", "probe", "head", "follow", "open", "openbody",
           "fetchstream", "tee", "erase", "latebody", "latemark", "done"} \cup Filling

(* from says where the answer comes from, got is the fetched or served     *)
(* content, seen the sidecar read.  since and floor are history: the       *)
(* upstream version when a detecting request came, and the versions that   *)
(* it and the fetches in flight at that moment held.                       *)
Request == [kind : Kinds, pc : Places, seen : CacheMetadata \cup {Nil},
            got : Content \cup {Nil}, etag : Content \cup {Nil},
            from : {"none", "cache", "stale", "upstream", "redirect", "gone", "error"},
            since : 0..MaxVersion, floor : SUBSET (0..MaxVersion)]

Blank(kind, pc, from) ==
    [kind |-> kind, pc |-> pc, seen |-> Nil, got |-> Nil, etag |-> Nil,
     from |-> from, since |-> 0, floor |-> {}]

TypeOK ==
    /\ upstream \in Versions
    /\ body \in Content \cup {Nil}
    /\ sidecar \in CacheMetadata \cup {Nil}
    /\ lease \in [Processes -> Requests \cup {Nil}]
    /\ req \in [Requests -> Request]
    /\ faults \in 0..MaxFaults

Init ==
    /\ upstream = 1
    /\ body = Nil
    /\ sidecar = Nil
    /\ lease = [n \in Processes |-> Nil]
    /\ \E kind \in Workloads : req = [r \in Requests |-> Blank(kind[r], "idle", "none")]
    /\ faults = 0

-----------------------------------------------------------------------------
At(r, pc) == req[r].pc = pc
Leads(r) == lease[ProcessOf[r]] = r
Unexpired(metadata) == metadata # Nil /\ metadata.fresh
Fault == faults < MaxFaults /\ faults' = faults + 1
Fine == UNCHANGED faults

Become(r, request) == req' = [req EXCEPT ![r] = request]
GoTo(r, pc) == Become(r, [req[r] EXCEPT !.pc = pc])
Read(r, pc) == Become(r, [req[r] EXCEPT !.pc = pc, !.seen = sidecar])
Miss(r, pc) == Become(r, [req[r] EXCEPT !.pc = pc, !.seen = Nil])
Answer(r, from, content, pc) ==
    Become(r, [req[r] EXCEPT !.pc = pc, !.from = from, !.got = content])
Fail(r, pc) == Become(r, [req[r] EXCEPT !.pc = pc, !.from = "error", !.seen = Nil])
Gone(r) == Blank(req[r].kind, "done", "gone")

(* Requests that hold bytes they are still to write into the cache.        *)
InFlight == {r \in Requests : req[r].pc \in Filling \cup {"tee", "latebody", "latemark"}}
KnownVersions == {upstream} \cup
                 {req[r].got.version : r \in {s \in InFlight : req[s].got # Empty}}

(* Mutant of FirstStep: the detecting fetch does not invalidate first.      *)
FirstStepUncleared(kind) == CASE kind = "invalidate" -> "unlink"
                              [] kind = "redirect" -> "probe"
                              [] kind = "stream" -> "open"
                              [] OTHER -> "check"

FirstStep(kind) == CASE kind \in {"detect", "invalidate"} -> "unlink"
                     [] kind = "redirect" -> "probe"
                     [] kind = "stream" -> "open"
                     [] OTHER -> "check"

Arrive(r) ==
    /\ At(r, "idle")
    /\ Become(r, IF req[r].kind = "detect"
                 THEN [req[r] EXCEPT !.pc = FirstStep("detect"), !.since = upstream,
                                     !.floor = KnownVersions]
                 ELSE [req[r] EXCEPT !.pc = FirstStep(req[r].kind)])
    /\ UNCHANGED <<upstream, body, sidecar, lease, faults>>

(* invalidate_cache_by_key: both deletes are best effort.                  *)
DeleteBody(r) ==
    /\ At(r, "unlink")
    /\ \/ body' = Nil /\ Fine
       \/ UNCHANGED body /\ Fault
    /\ GoTo(r, "unmark")
    /\ UNCHANGED <<upstream, sidecar, lease>>

DeleteSidecar(r) ==
    /\ At(r, "unmark")
    /\ LET next == IF req[r].kind = "detect" THEN "check" ELSE "done"
       IN  \/ sidecar' = Nil /\ GoTo(r, next) /\ Fine
           \/ /\ Become(r, [req[r] EXCEPT !.pc = next, !.floor = @ \cup {0}])
              /\ UNCHANGED sidecar /\ Fault
    /\ UNCHANGED <<upstream, body, lease>>

-----------------------------------------------------------------------------
(* get_cached_artifact, under the coordinator: a follower's miss leads to  *)
(* the election, the leader's to the fetch.  The check made just before    *)
(* the coordinator repeats it is not a step of its own.                    *)
AfterMiss(r) == IF Leads(r) THEN "fetch" ELSE "join"

CheckSidecar(r) ==
    /\ At(r, "check")
    /\ \/ Unexpired(sidecar) /\ Read(r, "verify") /\ Fine
       \/ ~Unexpired(sidecar) /\ Miss(r, AfterMiss(r)) /\ Fine
       \/ Miss(r, AfterMiss(r)) /\ Fault
    /\ UNCHANGED <<upstream, body, sidecar, lease>>

(* Mutant of Verified: the body is there, whatever its checksum.            *)
VerifiedBySight(r) == body # Nil

Verified(r) == body # Nil /\ body = req[r].seen.sum

CheckBody(r) ==
    /\ At(r, "verify")
    /\ \/ Verified(r) /\ Answer(r, "cache", body, "release") /\ Fine
       \/ ~Verified(r) /\ Miss(r, AfterMiss(r)) /\ Fine
       \/ Miss(r, AfterMiss(r)) /\ Fault
    /\ UNCHANGED <<upstream, body, sidecar, lease>>

(* acquire_local_hydration: the first takes the slot, others wait.         *)
Acquire(r) ==
    /\ At(r, "join")
    /\ \/ /\ lease[ProcessOf[r]] = Nil
          /\ lease' = [lease EXCEPT ![ProcessOf[r]] = r]
          /\ GoTo(r, "check")
       \/ /\ lease[ProcessOf[r]] # Nil
          /\ GoTo(r, "wait")
          /\ UNCHANGED lease
    /\ UNCHANGED <<upstream, body, sidecar, faults>>

(* Mutant of Wake: a follower wakes for a hit only.                         *)
WakeOnHit(r) ==
    /\ At(r, "wait") /\ Unexpired(sidecar)
    /\ GoTo(r, "check")
    /\ UNCHANGED <<upstream, body, sidecar, lease, faults>>

(* Notified, or the wait slice is over: check again.                       *)
Wake(r) ==
    /\ At(r, "wait")
    /\ GoTo(r, "check")
    /\ UNCHANGED <<upstream, body, sidecar, lease, faults>>

(* The drop of LeaderLease.                                                *)
Dropped(r) == [n \in Processes |-> IF lease[n] = r THEN Nil ELSE lease[n]]

(* The 65 s deadline is over when it is looked at.                         *)
TimeOut(r) ==
    /\ req[r].pc \in {"join", "fetch"}
    /\ Fail(r, "done")
    /\ lease' = Dropped(r)
    /\ UNCHANGED <<upstream, body, sidecar, faults>>

(* The producer: an empty body is served and never cached; a failure falls *)
(* back on the entry whatever its age.                                     *)
FetchUpstream(r) ==
    /\ At(r, "fetch")
    /\ \/ Answer(r, "upstream", Whole(upstream), "put") /\ Fine
       \/ Answer(r, "upstream", Empty, "release") /\ Fault
       \/ GoTo(r, "stale") /\ Fault
    /\ UNCHANGED <<upstream, body, sidecar, lease>>

(* get_stale_cached_artifact.                                              *)
ReadStaleSidecar(r) ==
    /\ At(r, "stale")
    /\ \/ sidecar # Nil /\ Read(r, "reverify") /\ Fine
       \/ sidecar = Nil /\ Fail(r, "release") /\ Fine
       \/ Fail(r, "release") /\ Fault
    /\ UNCHANGED <<upstream, body, sidecar, lease>>

ReadStaleBody(r) ==
    /\ At(r, "reverify")
    /\ \/ Verified(r) /\ Answer(r, "stale", body, "release") /\ Fine
       \/ ~Verified(r) /\ Fail(r, "release") /\ Fine
       \/ Fail(r, "release") /\ Fault
    /\ UNCHANGED <<upstream, body, sidecar, lease>>

-----------------------------------------------------------------------------
(* cache_artifact, and the background writer of a tee: put the body, pin   *)
(* the ETag the backend reports now, put the sidecar.  A failed put ends   *)
(* it; the buffered request answers with what it fetched all the same.     *)
AfterWrite(r) == IF req[r].kind = "stream" THEN "done" ELSE "release"
(* Mutant of AfterPut: an empty body gets its sidecar too.                  *)
AfterAnyPut(r) == "pin"

AfterPut(r) == IF req[r].got = Empty THEN "erase" ELSE "pin"

PutBody(r) ==
    /\ At(r, "put")
    /\ \/ body' = req[r].got /\ GoTo(r, AfterPut(r)) /\ Fine
       \/ GoTo(r, AfterWrite(r)) /\ UNCHANGED body /\ Fault
    /\ UNCHANGED <<upstream, sidecar, lease>>

(* An empty stream was written: delete it, and write no sidecar.           *)
EraseEmpty(r) ==
    /\ At(r, "erase")
    /\ \/ body' = Nil /\ Fine
       \/ UNCHANGED body /\ Fault
    /\ GoTo(r, "done")
    /\ UNCHANGED <<upstream, sidecar, lease>>

PinStorageEtag(r) ==
    /\ At(r, "pin")
    /\ \/ HasEtags /\ Become(r, [req[r] EXCEPT !.pc = "mark", !.etag = body]) /\ Fine
       \/ ~HasEtags /\ GoTo(r, "mark") /\ Fine
       \/ HasEtags /\ GoTo(r, "mark") /\ Fault
    /\ UNCHANGED <<upstream, body, sidecar, lease>>

(* Mutant of Described: the two digests change places.                     *)
DescribedSwapped(r) == [sum |-> req[r].etag, etag |-> req[r].got, fresh |-> TRUE]
Described(r) == [sum |-> req[r].got, etag |-> req[r].etag, fresh |-> TRUE]

PutSidecar(r) ==
    /\ At(r, "mark")
    /\ Become(r, [req[r] EXCEPT !.pc = AfterWrite(r), !.etag = Nil])
    /\ \/ sidecar' = Described(r) /\ Fine
       \/ UNCHANGED sidecar /\ Fault
    /\ UNCHANGED <<upstream, body, lease>>

(* A request whose future was dropped in the middle of a put: the storage  *)
(* completes the write on its own.                                         *)
LateWrite(r) ==
    /\ \/ At(r, "latebody") /\ body' = req[r].got /\ UNCHANGED sidecar
       \/ At(r, "latemark") /\ sidecar' = Described(r) /\ UNCHANGED body
    /\ Become(r, Gone(r))
    /\ UNCHANGED <<upstream, lease, faults>>

(* The buffered request ends: a lease it holds is dropped.  A redirect     *)
(* request that got its bytes sends the client to the cache object.        *)
Release(r) ==
    /\ At(r, "release")
    /\ lease' = Dropped(r)
    /\ GoTo(r, IF req[r].kind = "redirect" /\ req[r].from # "error" THEN "follow" ELSE "done")
    /\ UNCHANGED <<upstream, body, sidecar, faults>>

-----------------------------------------------------------------------------
(* is_cache_fresh: the entry is unexpired and the object is there, with    *)
(* the ETag that was pinned if one was; the slow path otherwise.           *)
Probe(r) ==
    /\ At(r, "probe")
    /\ \/ Unexpired(sidecar) /\ Read(r, "head") /\ Fine
       \/ ~Unexpired(sidecar) /\ GoTo(r, "check") /\ Fine
       \/ GoTo(r, "check") /\ Fault
    /\ UNCHANGED <<upstream, body, sidecar, lease>>

SameObject(r) == body # Nil /\ req[r].seen.etag \in {Nil, body}

HeadBody(r) ==
    /\ At(r, "head")
    /\ \/ SameObject(r) /\ GoTo(r, "follow") /\ Fine
       \/ ~SameObject(r) /\ Miss(r, "check") /\ Fine
       \/ Miss(r, "check") /\ Fault
    /\ UNCHANGED <<upstream, body, sidecar, lease>>

(* The client reads what the presigned URL leads to.                       *)
FollowRedirect(r) ==
    /\ At(r, "follow")
    /\ Answer(r, "redirect", body, "done")
    /\ UNCHANGED <<upstream, body, sidecar, lease, faults>>

-----------------------------------------------------------------------------
(* fetch_artifact_streaming: a hit is streamed under the sidecar's length  *)
(* and type, and not verified.                                             *)
OpenSidecar(r) ==
    /\ At(r, "open")
    /\ \/ Unexpired(sidecar) /\ Read(r, "openbody") /\ Fine
       \/ ~Unexpired(sidecar) /\ GoTo(r, "fetchstream") /\ Fine
       \/ Fail(r, "done") /\ Fault
    /\ UNCHANGED <<upstream, body, sidecar, lease>>

OpenBody(r) ==
    /\ At(r, "openbody")
    /\ \/ body # Nil /\ Answer(r, "cache", body, "done") /\ Fine
       \/ body = Nil /\ Miss(r, "fetchstream") /\ Fine
       \/ Fail(r, "done") /\ Fault
    /\ UNCHANGED <<upstream, body, sidecar, lease>>

FetchStreaming(r) ==
    /\ At(r, "fetchstream")
    /\ \/ Answer(r, "none", Whole(upstream), "tee") /\ Fine
       \/ Answer(r, "none", Empty, "tee") /\ Fault
       \/ Fail(r, "done") /\ Fault
    /\ UNCHANGED <<upstream, body, sidecar, lease>>

Extent(content, extent) == IF content = Empty THEN Empty ELSE [content EXCEPT !.extent = extent]

(* The tee: upstream's end of file is the writer's.                        *)
StreamEnds(r) ==
    /\ At(r, "tee")
    /\ Answer(r, "upstream", req[r].got, "put")
    /\ UNCHANGED <<upstream, body, sidecar, lease, faults>>

(* Mutant of StreamBreaks: the writer takes the error for the end.          *)
StreamBreaksAsEof(r) ==
    /\ At(r, "tee")
    /\ Answer(r, "error", Extent(req[r].got, "cut"), "put")
    /\ Fault
    /\ UNCHANGED <<upstream, body, sidecar, lease>>

(* Upstream breaks off: the writer sees the error and aborts.              *)
StreamBreaks(r) ==
    /\ At(r, "tee")
    /\ Fail(r, "done")
    /\ Fault
    /\ UNCHANGED <<upstream, body, sidecar, lease>>

(* The client leaves: the stream and its sender are dropped, which is an   *)
(* end of file to the writer, after no chunk or after some.                *)
StreamAbandoned(r) ==
    /\ At(r, "tee")
    /\ \E sent \in {Empty, Extent(req[r].got, "part")} : Answer(r, "gone", sent, "put")
    /\ Fault
    /\ UNCHANGED <<upstream, body, sidecar, lease>>

-----------------------------------------------------------------------------
(* Mutant of Cancel: the slot is released by a call, not by a drop.         *)
CancelUndropped(r) ==
    /\ req[r].pc \notin {"idle", "tee", "erase", "latebody", "latemark", "follow", "done"}
    /\ ~(req[r].kind = "stream" /\ req[r].pc \in Filling)
    /\ Become(r, Gone(r))
    /\ Fault
    /\ UNCHANGED <<upstream, body, sidecar, lease>>

(* The client of a buffered request leaves and its future is dropped.      *)
Cancel(r) ==
    /\ req[r].pc \notin {"idle", "tee", "erase", "latebody", "latemark", "follow", "done"}
    /\ ~(req[r].kind = "stream" /\ req[r].pc \in Filling)
    /\ \/ Become(r, Gone(r))
       \/ At(r, "put") /\ Answer(r, "gone", req[r].got, "latebody")
       \/ At(r, "mark") /\ Answer(r, "gone", req[r].got, "latemark")
    /\ lease' = Dropped(r)
    /\ Fault
    /\ UNCHANGED <<upstream, body, sidecar>>

(* A server process dies, with its requests, writers and leases.           *)
Crash(n) ==
    /\ req' = [r \in Requests |->
                  IF ProcessOf[r] = n /\ req[r].pc \notin {"idle", "follow", "done"}
                  THEN Gone(r)
                  ELSE req[r]]
    /\ lease' = [lease EXCEPT ![n] = Nil]
    /\ Fault
    /\ UNCHANGED <<upstream, body, sidecar>>

Publish ==
    /\ upstream < MaxVersion
    /\ upstream' = upstream + 1
    /\ UNCHANGED <<body, sidecar, lease, req, faults>>

Expire ==
    /\ Unexpired(sidecar)
    /\ sidecar' = [sidecar EXCEPT !.fresh = FALSE]
    /\ UNCHANGED <<upstream, body, lease, req, faults>>

Proceed(r) ==
    \/ DeleteBody(r) \/ DeleteSidecar(r)
    \/ CheckSidecar(r) \/ CheckBody(r) \/ Acquire(r) \/ Wake(r) \/ Release(r)
    \/ FetchUpstream(r) \/ ReadStaleSidecar(r) \/ ReadStaleBody(r)
    \/ PutBody(r) \/ EraseEmpty(r) \/ PinStorageEtag(r) \/ PutSidecar(r) \/ LateWrite(r)
    \/ Probe(r) \/ HeadBody(r) \/ FollowRedirect(r)
    \/ OpenSidecar(r) \/ OpenBody(r) \/ FetchStreaming(r)
    \/ StreamEnds(r) \/ StreamBreaks(r) \/ StreamAbandoned(r)

Next ==
    \/ \E r \in Requests : Arrive(r) \/ Proceed(r) \/ TimeOut(r) \/ Cancel(r)
    \/ \E n \in Processes : Crash(n)
    \/ Publish \/ Expire

Spec == Init /\ [][Next]_vars

(* The runtime polls every live request, and reqwest's timeouts and the    *)
(* wait slice end every await.  Nothing is assumed of the deadline, of     *)
(* clients that arrive or leave, of upstream's versions or of expiry.      *)
Fairness == \A r \in Requests : WF_vars(Proceed(r))

FairSpec == Spec /\ Fairness

-----------------------------------------------------------------------------
(* Single flight: the slot of a process belongs to a live request that is  *)
(* past its election, and only that request fetches and fills under it.    *)
(* A slot that outlives its request would make every later one a follower. *)
Producing(r) ==
    /\ req[r].kind # "stream"
    /\ req[r].pc \in {"fetch", "stale", "reverify"} \cup Filling

OneHydrationPerProcess ==
    /\ \A r \in Requests : Producing(r) => Leads(r)
    /\ \A n \in Processes : lease[n] # Nil =>
          /\ ProcessOf[lease[n]] = n
          /\ req[lease[n]].pc \in {"check", "verify", "release", "fetch", "stale", "reverify"}
                                  \cup Filling

(* Body and sidecar are two objects that several writers replace one after *)
(* the other: a buffered answer from the cache is still of one response,   *)
(* its bytes those that its content type was received with.                *)
HitsAreOneResponse ==
    \A r \in Requests : req[r].kind # "stream" /\ req[r].from \in {"cache", "stale"} =>
        req[r].got = req[r].seen.sum

(* No sidecar ever vouches for an empty body, or for bytes of a stream     *)
(* that upstream broke off, and no such bytes are left at the cache key.   *)
BrokenBodiesAreNotHits ==
    /\ sidecar # Nil => sidecar.sum # Empty /\ sidecar.sum.extent # "cut"
    /\ body # Nil => body.extent # "cut"

(* After fetch_dists_detecting_change has invalidated the entry, what it   *)
(* answers is no older than what upstream served when it came, or than one *)
(* of the fetches in flight then: an invalidated version never comes back. *)
InvalidationIsKept ==
    \A r \in Requests :
        /\ req[r].kind = "detect"
        /\ req[r].from \in {"cache", "stale", "upstream"}
        /\ req[r].got # Empty
        => \E v \in req[r].floor : req[r].got.version >= v

(* "This guarantees we observe the latest upstream Release": what a        *)
(* detecting fetch answers is no older than what upstream served when the  *)
(* request came.                                                           *)
DetectsLatest ==
    \A r \in Requests :
        /\ req[r].kind = "detect"
        /\ req[r].from \in {"cache", "upstream"}
        /\ req[r].got # Empty
        => req[r].got.version >= req[r].since

(* Every request is answered, with no help from the 65 s deadline: the     *)
(* followers of a leader that finished, left or failed are not stuck.  (A  *)
(* request is made once, so a stuck one would keep this false for ever.)   *)
RequestsAreAnswered == []<>(\A r \in Requests : req[r].pc \in {"idle", "done"})

(* Partial bytes are not promoted to a cache hit.                          *)
HitsAreWhole ==
    \A r \in Requests : req[r].from = "cache" => req[r].got.extent = "whole"

(* "ETag matched: object is present and unchanged since cache write": what *)
(* a redirect on the fast path is about to serve is what the sidecar says. *)
FastPathServesDescribed ==
    \A r \in Requests : req[r].pc = "head" /\ sidecar = req[r].seen /\ SameObject(r) =>
        body = req[r].seen.sum
=============================================================================
