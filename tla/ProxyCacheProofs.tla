-------------------------- MODULE ProxyCacheProofs --------------------------
(***************************************************************************)
(* The safety properties of ProxyCache, for any number of requests,        *)
(* processes, upstream versions and failures.                              *)
(*                                                                         *)
(* CacheInv adds three things to them.  RequestOK says what a request      *)
(* holds where it stands: a writer's bytes are not of a broken stream and, *)
(* once they are to be described by a sidecar, not empty; an answer from   *)
(* the cache is what the sidecar it was checked against describes.         *)
(* LeaseOK ties the slots to the requests.  FloorOK follows an             *)
(* invalidation: from then on whatever a sidecar describes, and whatever   *)
(* a writer holds, is no older than one of the versions known when the     *)
(* detecting request came.                                                 *)
(***************************************************************************)
EXTENDS ProxyCache, TLAPS

StreamOnly == {"open", "openbody", "fetchstream", "tee", "erase"}
BufferedOnly == {"unlink", "unmark", "check", "verify", "join", "wait", "fetch", "stale",
                 "reverify", "release", "probe", "head", "follow", "latebody", "latemark"}
Unanswered == {"idle", "unlink", "unmark", "check", "verify", "join", "wait", "fetch",
               "stale", "reverify", "probe", "head"}
Holding == Filling \cup {"tee", "latebody", "latemark"}
Leading == {"check", "verify", "release", "fetch", "stale", "reverify"} \cup Filling

Fits(kind, pc, from, got, seen) ==
    /\ IF kind = "stream" THEN pc \notin BufferedOnly ELSE pc \notin StreamOnly
    /\ pc \in Unanswered => from = "none"
    /\ pc \in Holding => got \in Content /\ got.extent # "cut"
    /\ pc \in {"pin", "mark", "latebody", "latemark"} => got # Empty
    /\ pc = "put" /\ kind # "stream" => got # Empty
    /\ pc \in {"verify", "reverify"} => seen # Nil
    /\ pc \in {"idle", "unlink", "unmark"} => seen = Nil
    /\ kind # "stream" /\ from \in {"cache", "stale"} => seen # Nil /\ got = seen.sum
    /\ kind # "stream" /\ from = "gone" => pc \in {"latebody", "latemark", "done"}

RequestOK(q) == Fits(q.kind, q.pc, q.from, q.got, q.seen)

Act(r) == Arrive(r) \/ Proceed(r) \/ TimeOut(r) \/ Cancel(r)

(* What a step of r leaves of it is a request, in order, and of its kind.  *)
Moved(r) == /\ req' = [req EXCEPT ![r] = req'[r]]
            /\ req'[r] \in Request
            /\ RequestOK(req'[r])
            /\ req'[r].kind = req[r].kind

LEMMA Becomes ==
  ASSUME TypeOK, NEW r \in Requests, NEW q \in Request, Become(r, q), RequestOK(q),
         q.kind = req[r].kind
  PROVE  Moved(r)
  BY DEF TypeOK, Become, Moved

LEMMA Goes ==
  ASSUME TypeOK, NEW r \in Requests, NEW pc \in Places, GoTo(r, pc),
         Fits(req[r].kind, pc, req[r].from, req[r].got, req[r].seen)
  PROVE  Moved(r)
  <1> DEFINE q == [req[r] EXCEPT !.pc = pc]
  <1>1. q \in Request /\ RequestOK(q) /\ q.kind = req[r].kind
    BY DEF TypeOK, Request, RequestOK
  <1>2. Become(r, q)
    BY DEF GoTo
  <1> QED BY <1>1, <1>2, Becomes

LEMMA Reads ==
  ASSUME TypeOK, NEW r \in Requests, NEW pc \in Places, Read(r, pc),
         Fits(req[r].kind, pc, req[r].from, req[r].got, sidecar)
  PROVE  Moved(r)
  <1> DEFINE q == [req[r] EXCEPT !.pc = pc, !.seen = sidecar]
  <1>1. q \in Request /\ RequestOK(q) /\ q.kind = req[r].kind
    BY DEF TypeOK, Request, RequestOK
  <1>2. Become(r, q)
    BY DEF Read
  <1> QED BY <1>1, <1>2, Becomes

LEMMA Misses ==
  ASSUME TypeOK, NEW r \in Requests, NEW pc \in Places, Miss(r, pc),
         Fits(req[r].kind, pc, req[r].from, req[r].got, Nil)
  PROVE  Moved(r)
  <1> DEFINE q == [req[r] EXCEPT !.pc = pc, !.seen = Nil]
  <1>1. q \in Request /\ RequestOK(q) /\ q.kind = req[r].kind
    BY DEF TypeOK, Request, RequestOK
  <1>2. Become(r, q)
    BY DEF Miss
  <1> QED BY <1>1, <1>2, Becomes

LEMMA Fails ==
  ASSUME TypeOK, NEW r \in Requests, NEW pc \in Places, Fail(r, pc),
         Fits(req[r].kind, pc, "error", req[r].got, Nil)
  PROVE  Moved(r)
  <1> DEFINE q == [req[r] EXCEPT !.pc = pc, !.from = "error", !.seen = Nil]
  <1>1. q \in Request /\ RequestOK(q) /\ q.kind = req[r].kind
    BY DEF TypeOK, Request, RequestOK
  <1>2. Become(r, q)
    BY DEF Fail
  <1> QED BY <1>1, <1>2, Becomes

LEMMA Answers ==
  ASSUME TypeOK, NEW r \in Requests, NEW pc \in Places, NEW content \in Content \cup {Nil},
         NEW from \in {"none", "cache", "stale", "upstream", "redirect", "gone", "error"},
         Answer(r, from, content, pc),
         Fits(req[r].kind, pc, from, content, req[r].seen)
  PROVE  Moved(r)
  <1> DEFINE q == [req[r] EXCEPT !.pc = pc, !.from = from, !.got = content]
  <1>1. q \in Request /\ RequestOK(q) /\ q.kind = req[r].kind
    BY DEF TypeOK, Request, RequestOK
  <1>2. Become(r, q)
    BY DEF Answer
  <1> QED BY <1>1, <1>2, Becomes

LEMMA Leaves ==
  ASSUME TypeOK, NEW r \in Requests
  PROVE  Gone(r) \in Request /\ RequestOK(Gone(r)) /\ Gone(r).kind = req[r].kind
  <1> DEFINE g == [kind |-> req[r].kind, pc |-> "done", seen |-> Nil, got |-> Nil,
                   etag |-> Nil, from |-> "gone", since |-> 0, floor |-> {}]
  <1>1. Gone(r) = g
    BY DEF Gone, Blank
  <1>2. req[r].kind \in Kinds
    BY DEF TypeOK, Request
  <1>3. g \in Request
    BY <1>2, BoundsAssumption DEF Request, Places
  <1>4. RequestOK(g)
    BY DEF RequestOK, Fits, BufferedOnly, StreamOnly, Unanswered, Holding, Filling
  <1> QED BY <1>1, <1>3, <1>4

LEMMA Refloored ==
  ASSUME NEW q \in Request, NEW pc \in Places, NEW since \in 0..MaxVersion,
         NEW floor \in SUBSET (0..MaxVersion)
  PROVE  /\ [q EXCEPT !.pc = pc, !.since = since, !.floor = floor] \in Request
         /\ [q EXCEPT !.pc = pc, !.floor = floor] \in Request
  BY DEF Request

LEMMA Retagged ==
  ASSUME NEW q \in Request, NEW pc \in Places, NEW etag \in Content \cup {Nil}
  PROVE  [q EXCEPT !.pc = pc, !.etag = etag] \in Request
  BY DEF Request

LEMMA KnownAreVersions ==
  ASSUME TypeOK, \A s \in Requests : RequestOK(req[s])
  PROVE  KnownVersions \in SUBSET (0..MaxVersion)
  <1>1. \A s \in InFlight : req[s].got \in Content
    BY DEF InFlight, RequestOK, Fits, Holding
  <1>2. \A c \in Content : c.version \in 0..MaxVersion
    BY BoundsAssumption DEF Content, Empty, Versions
  <1> QED BY <1>1, <1>2 DEF KnownVersions, TypeOK, Versions

LEMMA RequestStep ==
  ASSUME TypeOK, \A s \in Requests : RequestOK(req[s]), NEW r \in Requests, Act(r)
  PROVE  Moved(r)
  <1> DEFINE old == req[r]
  <1>o. old \in Request /\ RequestOK(old)
    BY DEF TypeOK
  <1> USE DEF At, Fits, RequestOK, Places, Filling, StreamOnly, BufferedOnly, Unanswered, Holding
  <1>k. old.kind \in Kinds /\ old.pc \in Places /\ old.got \in Content \cup {Nil}
    BY <1>o DEF Request
  <1>t. /\ upstream \in Versions /\ body \in Content \cup {Nil}
        /\ sidecar \in CacheMetadata \cup {Nil}
    BY DEF TypeOK
  <1>w. Whole(upstream) \in Content /\ Empty \in Content /\ Whole(upstream) # Empty
        /\ Whole(upstream).extent # "cut" /\ Empty.extent # "cut"
    BY <1>t DEF Whole, Content, Empty
  <1>1. CASE Arrive(r)
    <2>1. At(r, "idle")
      BY <1>1 DEF Arrive
    <2>2. CASE old.kind = "detect"
      <3> DEFINE q == [old EXCEPT !.pc = FirstStep("detect"), !.since = upstream,
                                  !.floor = KnownVersions]
      <3>1. KnownVersions \in SUBSET (0..MaxVersion)
        BY <1>t, KnownAreVersions
      <3>2. FirstStep("detect") = "unlink"
        BY DEF FirstStep
      <3>6. FirstStep("detect") \in Places
        BY <3>2
      <3>7. upstream \in 0..MaxVersion
        BY <1>t, BoundsAssumption DEF Versions
      <3>3. q \in Request
        <4> HIDE DEF Places
        <4> QED BY <1>o, <3>1, <3>6, <3>7, Refloored
      <3>5. RequestOK(q) /\ q.kind = old.kind
        BY <1>o, <2>1, <2>2, <3>2 DEF Request
      <3>4. Become(r, q)
        BY <1>1, <2>2 DEF Arrive
      <3> QED BY <3>3, <3>4, <3>5, Becomes
    <2>3. CASE old.kind # "detect"
      BY <1>1, <1>o, <1>k, <2>1, <2>3, Goes DEF Arrive, FirstStep, GoTo, Kinds
    <2> QED BY <2>2, <2>3
  <1>2. CASE DeleteBody(r)
    BY <1>2, <1>o, <1>k, <1>t, <1>w, Goes, Reads, Misses, Fails, Answers, NilAssumption DEF DeleteBody
  <1>3. CASE DeleteSidecar(r)
    <2> DEFINE next == IF old.kind = "detect" THEN "check" ELSE "done"
               q == [old EXCEPT !.pc = next, !.floor = @ \cup {0}]
    <2>1. At(r, "unmark")
      BY <1>3 DEF DeleteSidecar
    <2>2. GoTo(r, next) \/ Become(r, q)
      BY <1>3 DEF DeleteSidecar
    <2>3. old.floor \cup {0} \in SUBSET (0..MaxVersion) /\ next \in Places
      BY <1>o, BoundsAssumption DEF Request
    <2>4. q \in Request
      BY <1>o, <2>3, Refloored
    <2>5. RequestOK(q) /\ q.kind = old.kind
      BY <1>o, <2>1 DEF Request
    <2> QED BY <1>o, <2>1, <2>2, <2>4, <2>5, Goes, Becomes
  <1>4. CASE CheckSidecar(r)
    BY <1>4, <1>o, <1>k, <1>t, <1>w, Goes, Reads, Misses, Fails, Answers, NilAssumption
       DEF CheckSidecar, AfterMiss, Unexpired
  <1>5. CASE CheckBody(r)
    BY <1>5, <1>o, <1>k, <1>t, <1>w, Goes, Reads, Misses, Fails, Answers, NilAssumption
       DEF CheckBody, AfterMiss, Verified
  <1>6. CASE Acquire(r)
    BY <1>6, <1>o, <1>k, <1>t, <1>w, Goes, Reads, Misses, Fails, Answers, NilAssumption DEF Acquire
  <1>7. CASE Wake(r)
    BY <1>7, <1>o, <1>k, <1>t, <1>w, Goes, Reads, Misses, Fails, Answers, NilAssumption DEF Wake
  <1>8. CASE Release(r)
    BY <1>8, <1>o, <1>k, <1>t, <1>w, Goes, Reads, Misses, Fails, Answers, NilAssumption DEF Release
  <1>9. CASE FetchUpstream(r)
    BY <1>9, <1>o, <1>k, <1>t, <1>w, Goes, Reads, Misses, Fails, Answers, NilAssumption DEF FetchUpstream
  <1>10. CASE ReadStaleSidecar(r)
    BY <1>10, <1>o, <1>k, <1>t, <1>w, Goes, Reads, Misses, Fails, Answers, NilAssumption DEF ReadStaleSidecar
  <1>11. CASE ReadStaleBody(r)
    BY <1>11, <1>o, <1>k, <1>t, <1>w, Goes, Reads, Misses, Fails, Answers, NilAssumption
       DEF ReadStaleBody, Verified
  <1>12. CASE PutBody(r)
    BY <1>12, <1>o, <1>k, <1>t, <1>w, Goes, Reads, Misses, Fails, Answers, NilAssumption
       DEF PutBody, AfterPut, AfterWrite
  <1>13. CASE EraseEmpty(r)
    BY <1>13, <1>o, <1>k, <1>t, <1>w, Goes, Reads, Misses, Fails, Answers, NilAssumption DEF EraseEmpty
  <1>14. CASE PinStorageEtag(r)
    <2> DEFINE q == [old EXCEPT !.pc = "mark", !.etag = body]
    <2>1. At(r, "pin") /\ (GoTo(r, "mark") \/ Become(r, q))
      BY <1>14 DEF PinStorageEtag
    <2>2. q \in Request
      <3> HIDE DEF RequestOK, Fits
      <3> QED BY <1>o, <1>t, Retagged
    <2>3. q.pc = "mark" /\ q.kind = old.kind /\ RequestOK(q)
      BY <1>o, <2>1 DEF Request
    <2>4. GoTo(r, "mark") => Moved(r)
      BY <1>o, <2>1, Goes
    <2> QED BY <2>1, <2>2, <2>3, <2>4, Becomes
  <1>15. CASE PutSidecar(r)
    <2> DEFINE q == [old EXCEPT !.pc = AfterWrite(r), !.etag = Nil]
    <2>1. At(r, "mark") /\ Become(r, q)
      BY <1>15 DEF PutSidecar
    <2>2. AfterWrite(r) \in Places
      BY DEF AfterWrite
    <2>3. q \in Request
      <3> HIDE DEF RequestOK, Fits, Places
      <3> QED BY <1>o, <2>2, Retagged
    <2>4. q.pc = AfterWrite(r) /\ q.kind = old.kind /\ q.from = old.from /\ q.got = old.got
          /\ q.seen = old.seen
      BY <1>o DEF Request
    <2>5. RequestOK(q)
      BY <1>o, <2>1, <2>4 DEF AfterWrite
    <2> QED BY <2>1, <2>3, <2>4, <2>5, Becomes
  <1>16. CASE LateWrite(r)
    BY <1>16, Leaves, Becomes DEF LateWrite
  <1>17. CASE Probe(r)
    BY <1>17, <1>o, <1>k, <1>t, <1>w, Goes, Reads, Misses, Fails, Answers, NilAssumption DEF Probe
  <1>18. CASE HeadBody(r)
    BY <1>18, <1>o, <1>k, <1>t, <1>w, Goes, Reads, Misses, Fails, Answers, NilAssumption DEF HeadBody
  <1>19. CASE FollowRedirect(r)
    BY <1>19, <1>o, <1>k, <1>t, <1>w, Goes, Reads, Misses, Fails, Answers, NilAssumption DEF FollowRedirect
  <1>20. CASE OpenSidecar(r)
    BY <1>20, <1>o, <1>k, <1>t, <1>w, Goes, Reads, Misses, Fails, Answers, NilAssumption DEF OpenSidecar
  <1>21. CASE OpenBody(r)
    BY <1>21, <1>o, <1>k, <1>t, <1>w, Goes, Reads, Misses, Fails, Answers, NilAssumption DEF OpenBody
  <1>22. CASE FetchStreaming(r)
    BY <1>22, <1>o, <1>k, <1>t, <1>w, Goes, Reads, Misses, Fails, Answers, NilAssumption DEF FetchStreaming
  <1>23. CASE StreamEnds(r)
    BY <1>23, <1>o, <1>k, <1>t, <1>w, Goes, Reads, Misses, Fails, Answers, NilAssumption DEF StreamEnds
  <1>24. CASE StreamBreaks(r)
    BY <1>24, <1>o, <1>k, <1>t, <1>w, Goes, Reads, Misses, Fails, Answers, NilAssumption DEF StreamBreaks
  <1>25. CASE StreamAbandoned(r)
    <2>1. At(r, "tee")
      BY <1>25 DEF StreamAbandoned
    <2>2. PICK sent \in {Empty, Extent(old.got, "part")} : Answer(r, "gone", sent, "put")
      BY <1>25 DEF StreamAbandoned
    <2>3. sent \in Content /\ sent.extent # "cut"
      BY <1>o, <1>w, <2>1 DEF Extent, Content
    <2> QED BY <1>o, <1>k, <2>1, <2>2, <2>3, Answers
  <1>26. CASE TimeOut(r)
    BY <1>26, <1>o, <1>k, <1>t, <1>w, Goes, Reads, Misses, Fails, Answers, NilAssumption DEF TimeOut
  <1>27. CASE Cancel(r)
    <2>1. /\ old.kind # "stream" \/ old.pc \notin Filling
          /\ \/ Become(r, Gone(r))
             \/ At(r, "put") /\ Answer(r, "gone", old.got, "latebody")
             \/ At(r, "mark") /\ Answer(r, "gone", old.got, "latemark")
      BY <1>27 DEF Cancel
    <2>2. CASE Become(r, Gone(r))
      BY <2>2, Leaves, Becomes
    <2>3. CASE ~Become(r, Gone(r))
      BY <1>o, <1>k, <2>1, <2>3, Answers
    <2> QED BY <2>2, <2>3
  <1> QED BY <1>1, <1>2, <1>3, <1>4, <1>5, <1>6, <1>7, <1>8, <1>9, <1>10, <1>11, <1>12, <1>13, <1>14, <1>15, <1>16, <1>17, <1>18, <1>19, <1>20, <1>21, <1>22, <1>23, <1>24, <1>25, <1>26, <1>27 DEF Act, Proceed

(* What each kind of update leaves in the request.                         *)
LEMMA Effects ==
  ASSUME TypeOK, NEW r \in Requests
  PROVE  /\ \A pc : GoTo(r, pc) => /\ req'[r].pc = pc /\ req'[r].from = req[r].from
                                   /\ req'[r].got = req[r].got /\ req'[r].seen = req[r].seen
                                   /\ req'[r].floor = req[r].floor
         /\ \A pc : Read(r, pc) => /\ req'[r].pc = pc /\ req'[r].from = req[r].from
                                   /\ req'[r].got = req[r].got /\ req'[r].seen = sidecar
                                   /\ req'[r].floor = req[r].floor
         /\ \A pc : Miss(r, pc) => /\ req'[r].pc = pc /\ req'[r].from = req[r].from
                                   /\ req'[r].got = req[r].got /\ req'[r].seen = Nil
                                   /\ req'[r].floor = req[r].floor
         /\ \A pc : Fail(r, pc) => /\ req'[r].pc = pc /\ req'[r].from = "error"
                                   /\ req'[r].seen = Nil /\ req'[r].floor = req[r].floor
         /\ \A from, content, pc : Answer(r, from, content, pc) =>
               /\ req'[r].pc = pc /\ req'[r].from = from /\ req'[r].got = content
               /\ req'[r].seen = req[r].seen /\ req'[r].floor = req[r].floor
         /\ Become(r, Gone(r)) => req'[r].pc = "done" /\ req'[r].from = "gone"
  <1>1. req[r] \in Request
    BY DEF TypeOK
  <1>2. \A q : Become(r, q) => req'[r] = q
    BY DEF Become, TypeOK
  <1>3. Gone(r).pc = "done" /\ Gone(r).from = "gone"
    BY DEF Gone, Blank
  <1> QED BY <1>1, <1>2, <1>3 DEF GoTo, Read, Miss, Fail, Answer, Request

LEMMA OwnEffects ==
  ASSUME TypeOK, NEW r \in Requests
  PROVE  /\ Arrive(r) => /\ req'[r].pc = FirstStep(req[r].kind) /\ req'[r].from = req[r].from
                         /\ req'[r].got = req[r].got /\ req'[r].seen = req[r].seen
                         /\ req[r].kind = "detect" => req'[r].floor = KnownVersions
         /\ DeleteSidecar(r) =>
               /\ req'[r].pc = IF req[r].kind = "detect" THEN "check" ELSE "done"
               /\ req'[r].from = req[r].from
               /\ req'[r].got = req[r].got /\ req'[r].seen = req[r].seen
               /\ \/ sidecar' = Nil /\ req'[r].floor = req[r].floor
                  \/ req'[r].floor = req[r].floor \cup {0}
         /\ PinStorageEtag(r) =>
               /\ req'[r].pc = "mark" /\ req'[r].from = req[r].from
               /\ req'[r].got = req[r].got /\ req'[r].seen = req[r].seen
               /\ req'[r].floor = req[r].floor
         /\ PutSidecar(r) =>
               /\ req'[r].pc = AfterWrite(r) /\ req'[r].from = req[r].from
               /\ req'[r].got = req[r].got /\ req'[r].seen = req[r].seen
               /\ req'[r].floor = req[r].floor
  <1>1. req[r] \in Request
    BY DEF TypeOK
  <1>2. \A q : Become(r, q) => req'[r] = q
    BY DEF Become, TypeOK
  <1>3. Arrive(r) => /\ req'[r].pc = FirstStep(req[r].kind) /\ req'[r].from = req[r].from
                     /\ req'[r].got = req[r].got /\ req'[r].seen = req[r].seen
                     /\ req[r].kind = "detect" => req'[r].floor = KnownVersions
    <2> SUFFICES ASSUME Arrive(r)
                 PROVE  /\ req'[r].pc = FirstStep(req[r].kind) /\ req'[r].from = req[r].from
                        /\ req'[r].got = req[r].got /\ req'[r].seen = req[r].seen
                        /\ req[r].kind = "detect" => req'[r].floor = KnownVersions
      OBVIOUS
    <2>1. CASE req[r].kind = "detect"
      <3> DEFINE q == [req[r] EXCEPT !.pc = FirstStep("detect"), !.since = upstream,
                                     !.floor = KnownVersions]
      <3>1. req'[r] = q
        BY <1>2, <2>1 DEF Arrive
      <3> QED BY <1>1, <2>1, <3>1 DEF Request
    <2>2. CASE req[r].kind # "detect"
      <3>1. req'[r] = [req[r] EXCEPT !.pc = FirstStep(req[r].kind)]
        BY <1>2, <2>2 DEF Arrive
      <3> QED BY <1>1, <2>2, <3>1 DEF Request
    <2> QED BY <2>1, <2>2
  <1>4. DeleteSidecar(r) =>
               /\ req'[r].pc = IF req[r].kind = "detect" THEN "check" ELSE "done"
               /\ req'[r].from = req[r].from
               /\ req'[r].got = req[r].got /\ req'[r].seen = req[r].seen
               /\ \/ sidecar' = Nil /\ req'[r].floor = req[r].floor
                  \/ req'[r].floor = req[r].floor \cup {0}
    <2> DEFINE next == IF req[r].kind = "detect" THEN "check" ELSE "done"
               q == [req[r] EXCEPT !.pc = next, !.floor = @ \cup {0}]
    <2>1. /\ q.pc = next /\ q.from = req[r].from /\ q.got = req[r].got
          /\ q.seen = req[r].seen /\ q.floor = req[r].floor \cup {0}
      BY <1>1 DEF Request
    <2>2. DeleteSidecar(r) => (sidecar' = Nil /\ GoTo(r, next)) \/ Become(r, q)
      BY DEF DeleteSidecar
    <2> HIDE DEF q
    <2> QED BY <1>2, <2>1, <2>2, Effects
  <1>5. PinStorageEtag(r) \/ PutSidecar(r) =>
           /\ req'[r].pc = IF PutSidecar(r) THEN AfterWrite(r) ELSE "mark"
           /\ req'[r].from = req[r].from
           /\ req'[r].got = req[r].got /\ req'[r].seen = req[r].seen
           /\ req'[r].floor = req[r].floor
    <2>1. PutSidecar(r) => req'[r] = [req[r] EXCEPT !.pc = AfterWrite(r), !.etag = Nil]
      BY <1>2 DEF PutSidecar
    <2>2. PinStorageEtag(r) => \/ GoTo(r, "mark")
                               \/ req'[r] = [req[r] EXCEPT !.pc = "mark", !.etag = body]
      BY <1>2 DEF PinStorageEtag
    <2> QED BY <1>1, <2>1, <2>2, Effects DEF Request
  <1>6. PinStorageEtag(r) => ~PutSidecar(r)
    BY DEF PinStorageEtag, PutSidecar, At
  <1> QED BY <1>3, <1>4, <1>5, <1>6

LEMMA EntryStep ==
  ASSUME TypeOK, NEW r \in Requests, Act(r)
  PROVE  /\ upstream' = upstream
         /\ faults' \in 0..MaxFaults
         /\ \/ body' = body \/ body' = Nil
            \/ req[r].pc \in {"put", "latebody"} /\ body' = req[r].got
         /\ \/ sidecar' = sidecar \/ sidecar' = Nil
            \/ req[r].pc \in {"mark", "latemark"} /\ sidecar' = Described(r)
  <1> USE BoundsAssumption DEF TypeOK, Fault, Fine, At
  <1>1. CASE Arrive(r)
    BY <1>1 DEF Arrive
  <1>2. CASE DeleteBody(r)
    BY <1>2 DEF DeleteBody
  <1>3. CASE DeleteSidecar(r)
    BY <1>3 DEF DeleteSidecar
  <1>4. CASE CheckSidecar(r)
    BY <1>4 DEF CheckSidecar
  <1>5. CASE CheckBody(r)
    BY <1>5 DEF CheckBody
  <1>6. CASE Acquire(r)
    BY <1>6 DEF Acquire
  <1>7. CASE Wake(r)
    BY <1>7 DEF Wake
  <1>8. CASE Release(r)
    BY <1>8 DEF Release
  <1>9. CASE FetchUpstream(r)
    BY <1>9 DEF FetchUpstream
  <1>10. CASE ReadStaleSidecar(r)
    BY <1>10 DEF ReadStaleSidecar
  <1>11. CASE ReadStaleBody(r)
    BY <1>11 DEF ReadStaleBody
  <1>12. CASE PutBody(r)
    BY <1>12 DEF PutBody
  <1>13. CASE EraseEmpty(r)
    BY <1>13 DEF EraseEmpty
  <1>14. CASE PinStorageEtag(r)
    BY <1>14 DEF PinStorageEtag
  <1>15. CASE PutSidecar(r)
    BY <1>15 DEF PutSidecar
  <1>16. CASE LateWrite(r)
    BY <1>16 DEF LateWrite
  <1>17. CASE Probe(r)
    BY <1>17 DEF Probe
  <1>18. CASE HeadBody(r)
    BY <1>18 DEF HeadBody
  <1>19. CASE FollowRedirect(r)
    BY <1>19 DEF FollowRedirect
  <1>20. CASE OpenSidecar(r)
    BY <1>20 DEF OpenSidecar
  <1>21. CASE OpenBody(r)
    BY <1>21 DEF OpenBody
  <1>22. CASE FetchStreaming(r)
    BY <1>22 DEF FetchStreaming
  <1>23. CASE StreamEnds(r)
    BY <1>23 DEF StreamEnds
  <1>24. CASE StreamBreaks(r)
    BY <1>24 DEF StreamBreaks
  <1>25. CASE StreamAbandoned(r)
    BY <1>25 DEF StreamAbandoned
  <1>26. CASE TimeOut(r)
    BY <1>26 DEF TimeOut
  <1>27. CASE Cancel(r)
    BY <1>27 DEF Cancel
  <1> QED BY <1>1, <1>2, <1>3, <1>4, <1>5, <1>6, <1>7, <1>8, <1>9, <1>10, <1>11, <1>12, <1>13, <1>14, <1>15, <1>16, <1>17, <1>18, <1>19, <1>20, <1>21, <1>22, <1>23, <1>24, <1>25, <1>26, <1>27 DEF Act, Proceed

Produces(q) == q.kind # "stream" /\ q.pc \in {"fetch", "stale", "reverify"} \cup Filling

(* A slot is held by a buffered request that has a place for it.           *)
LeaseOK ==
    /\ \A r \in Requests : Produces(req[r]) => Leads(r)
    /\ \A n \in Processes : lease[n] # Nil =>
          /\ ProcessOf[lease[n]] = n
          /\ req[lease[n]].kind # "stream" /\ req[lease[n]].pc \in Leading

LEMMA LeaseStep ==
  ASSUME TypeOK, LeaseOK, NEW r \in Requests, \A s \in Requests : RequestOK(req[s]), Act(r),
         Moved(r)
  PROVE  \/ /\ lease' = lease
            /\ Leads(r) => req'[r].pc \in Leading
            /\ Produces(req'[r]) => Leads(r)
         \/ lease' = Dropped(r) /\ ~Produces(req'[r])
         \/ /\ lease[ProcessOf[r]] = Nil /\ lease' = [lease EXCEPT ![ProcessOf[r]] = r]
            /\ req[r].kind # "stream" /\ req'[r].pc = "check"
  <1> USE Effects, OwnEffects DEF At
  <1>k. req'[r].kind = req[r].kind /\ req[r].kind \in Kinds
    BY DEF Moved, TypeOK, Request
  <1>f. /\ IF req[r].kind = "stream" THEN req[r].pc \notin BufferedOnly
                                     ELSE req[r].pc \notin StreamOnly
        /\ Leads(r) => req[r].kind # "stream" /\ req[r].pc \in Leading
        /\ Produces(req[r]) => Leads(r)
        /\ req[r].pc = "put" /\ req[r].kind # "stream" => req[r].got # Empty
    <2>1. ProcessOf[r] \in Processes /\ r # Nil
      BY RequestsAssumption
    <2> QED BY <2>1 DEF RequestOK, Fits, LeaseOK, Leads
  <1> USE DEF Produces, Leading, Filling, BufferedOnly, StreamOnly
  <1>1. CASE Arrive(r)
    BY <1>1, <1>k, <1>f DEF Arrive, FirstStep, Kinds
  <1>2. CASE DeleteBody(r)
    BY <1>2, <1>k, <1>f DEF DeleteBody
  <1>3. CASE DeleteSidecar(r)
    BY <1>3, <1>k, <1>f DEF DeleteSidecar
  <1>4. CASE CheckSidecar(r)
    BY <1>4, <1>k, <1>f DEF CheckSidecar, AfterMiss
  <1>5. CASE CheckBody(r)
    BY <1>5, <1>k, <1>f DEF CheckBody, AfterMiss
  <1>6. CASE Acquire(r)
    BY <1>6, <1>k, <1>f DEF Acquire, Leads
  <1>7. CASE Wake(r)
    BY <1>7, <1>k, <1>f DEF Wake
  <1>8. CASE Release(r)
    BY <1>8, <1>k, <1>f DEF Release
  <1>9. CASE FetchUpstream(r)
    BY <1>9, <1>k, <1>f DEF FetchUpstream
  <1>10. CASE ReadStaleSidecar(r)
    BY <1>10, <1>k, <1>f DEF ReadStaleSidecar
  <1>11. CASE ReadStaleBody(r)
    BY <1>11, <1>k, <1>f DEF ReadStaleBody
  <1>12. CASE PutBody(r)
    BY <1>12, <1>k, <1>f DEF PutBody, AfterPut, AfterWrite
  <1>13. CASE EraseEmpty(r)
    BY <1>13, <1>k, <1>f DEF EraseEmpty
  <1>14. CASE PinStorageEtag(r)
    BY <1>14, <1>k, <1>f DEF PinStorageEtag
  <1>15. CASE PutSidecar(r)
    BY <1>15, <1>k, <1>f DEF PutSidecar, AfterWrite
  <1>16. CASE LateWrite(r)
    BY <1>16, <1>k, <1>f DEF LateWrite
  <1>17. CASE Probe(r)
    BY <1>17, <1>k, <1>f DEF Probe
  <1>18. CASE HeadBody(r)
    BY <1>18, <1>k, <1>f DEF HeadBody
  <1>19. CASE FollowRedirect(r)
    BY <1>19, <1>k, <1>f DEF FollowRedirect
  <1>20. CASE OpenSidecar(r)
    BY <1>20, <1>k, <1>f DEF OpenSidecar
  <1>21. CASE OpenBody(r)
    BY <1>21, <1>k, <1>f DEF OpenBody
  <1>22. CASE FetchStreaming(r)
    BY <1>22, <1>k, <1>f DEF FetchStreaming
  <1>23. CASE StreamEnds(r)
    BY <1>23, <1>k, <1>f DEF StreamEnds
  <1>24. CASE StreamBreaks(r)
    BY <1>24, <1>k, <1>f DEF StreamBreaks
  <1>25. CASE StreamAbandoned(r)
    BY <1>25, <1>k, <1>f DEF StreamAbandoned
  <1>26. CASE TimeOut(r)
    BY <1>26, <1>k, <1>f DEF TimeOut
  <1>27. CASE Cancel(r)
    BY <1>27, <1>k, <1>f DEF Cancel
  <1> QED BY <1>1, <1>2, <1>3, <1>4, <1>5, <1>6, <1>7, <1>8, <1>9, <1>10, <1>11, <1>12, <1>13, <1>14, <1>15, <1>16, <1>17, <1>18, <1>19, <1>20, <1>21, <1>22, <1>23, <1>24, <1>25, <1>26, <1>27 DEF Act, Proceed

-----------------------------------------------------------------------------
NoOlder(v, floor) == \E f \in floor : v >= f
Watching(r) == req[r].kind = "detect" /\ req[r].pc # "idle" /\ req[r].from # "gone"
Cleared(r) == Watching(r) /\ req[r].pc \notin {"unlink", "unmark"}
Holds(r) == req[r].pc \in Holding /\ req[r].got # Empty
Answered == {"cache", "stale", "upstream"}

(* What is written, described or answered after an invalidation.           *)
FloorOK ==
    \A r \in Requests :
        /\ Watching(r) =>
              /\ NoOlder(upstream, req[r].floor)
              /\ \A s \in Requests : Holds(s) => NoOlder(req[s].got.version, req[r].floor)
        /\ Cleared(r) =>
              /\ sidecar # Nil => NoOlder(sidecar.sum.version, req[r].floor)
              /\ req[r].seen # Nil => NoOlder(req[r].seen.sum.version, req[r].floor)
              /\ req[r].from \in Answered /\ req[r].got # Empty =>
                    NoOlder(req[r].got.version, req[r].floor)

CacheInv == /\ TypeOK
            /\ \A r \in Requests : RequestOK(req[r])
            /\ LeaseOK
            /\ BrokenBodiesAreNotHits
            /\ FloorOK

(* What a step of r does to the contents and versions it knows.            *)
DataMoves(r) ==
    /\ req'[r].pc \in Holding /\ req'[r].got # Empty =>
          \/ req'[r].got.version = upstream
          \/ Holds(r) /\ req'[r].got.version = req[r].got.version
    /\ req[r].kind = "detect" /\ req'[r].from # "gone" =>
          /\ \/ req[r].pc = "idle" /\ req'[r].pc = "unlink" /\ req'[r].floor = KnownVersions
             \/ Watching(r) /\ req[r].floor \subseteq req'[r].floor
          /\ req'[r].pc \notin {"unlink", "unmark"} /\ req[r].pc = "unmark" =>
                /\ sidecar' = Nil \/ 0 \in req'[r].floor
                /\ req'[r].seen = req[r].seen
          /\ req'[r].pc \notin {"unlink", "unmark"} => req[r].pc \notin {"idle", "unlink"}
          /\ req'[r].seen \in {Nil, req[r].seen, sidecar}
          /\ req'[r].from \in Answered /\ req'[r].got # Empty =>
                \/ req'[r].from = req[r].from /\ req'[r].got = req[r].got
                \/ req'[r].got.version = upstream
                \/ req[r].seen # Nil /\ req'[r].got = req[r].seen.sum

LEMMA DataStep ==
  ASSUME TypeOK, NEW r \in Requests, RequestOK(req[r]), Act(r), Moved(r)
  PROVE  DataMoves(r)
  <1> USE Effects, OwnEffects DEF At, DataMoves, Holds, Watching
  <1>k. req'[r].kind = req[r].kind /\ req[r].kind \in Kinds
    BY DEF Moved, TypeOK, Request
  <1>f. Fits(req[r].kind, req[r].pc, req[r].from, req[r].got, req[r].seen)
    BY DEF RequestOK
  <1> USE DEF Fits, Holding, Filling, BufferedOnly, StreamOnly, Unanswered, Answered
  <1>1. CASE Arrive(r)
    BY <1>1, <1>k, <1>f DEF Arrive, FirstStep
  <1>2. CASE DeleteBody(r)
    BY <1>2, <1>k, <1>f DEF DeleteBody
  <1>3. CASE DeleteSidecar(r)
    BY <1>3, <1>k, <1>f DEF DeleteSidecar
  <1>4. CASE CheckSidecar(r)
    BY <1>4, <1>k, <1>f DEF CheckSidecar, AfterMiss
  <1>5. CASE CheckBody(r)
    BY <1>5, <1>k, <1>f DEF CheckBody, AfterMiss, Verified
  <1>6. CASE Acquire(r)
    BY <1>6, <1>k, <1>f DEF Acquire
  <1>7. CASE Wake(r)
    BY <1>7, <1>k, <1>f DEF Wake
  <1>8. CASE Release(r)
    BY <1>8, <1>k, <1>f DEF Release
  <1>9. CASE FetchUpstream(r)
    BY <1>9, <1>k, <1>f DEF FetchUpstream, Whole
  <1>10. CASE ReadStaleSidecar(r)
    BY <1>10, <1>k, <1>f DEF ReadStaleSidecar
  <1>11. CASE ReadStaleBody(r)
    BY <1>11, <1>k, <1>f DEF ReadStaleBody, Verified
  <1>12. CASE PutBody(r)
    BY <1>12, <1>k, <1>f DEF PutBody, AfterPut, AfterWrite
  <1>13. CASE EraseEmpty(r)
    BY <1>13, <1>k, <1>f DEF EraseEmpty
  <1>14. CASE PinStorageEtag(r)
    BY <1>14, <1>k, <1>f DEF PinStorageEtag
  <1>15. CASE PutSidecar(r)
    BY <1>15, <1>k, <1>f DEF PutSidecar, AfterWrite
  <1>16. CASE LateWrite(r)
    BY <1>16, <1>k, <1>f DEF LateWrite
  <1>17. CASE Probe(r)
    BY <1>17, <1>k, <1>f DEF Probe
  <1>18. CASE HeadBody(r)
    BY <1>18, <1>k, <1>f DEF HeadBody
  <1>19. CASE FollowRedirect(r)
    BY <1>19, <1>k, <1>f DEF FollowRedirect
  <1>20. CASE OpenSidecar(r)
    BY <1>20, <1>k, <1>f DEF OpenSidecar
  <1>21. CASE OpenBody(r)
    BY <1>21, <1>k, <1>f DEF OpenBody
  <1>22. CASE FetchStreaming(r)
    BY <1>22, <1>k, <1>f DEF FetchStreaming, Whole
  <1>23. CASE StreamEnds(r)
    BY <1>23, <1>k, <1>f DEF StreamEnds
  <1>24. CASE StreamBreaks(r)
    BY <1>24, <1>k, <1>f DEF StreamBreaks
  <1>25. CASE StreamAbandoned(r)
    <2>1. At(r, "tee")
      BY <1>25 DEF StreamAbandoned
    <2>2. PICK sent \in {Empty, Extent(req[r].got, "part")} : Answer(r, "gone", sent, "put")
      BY <1>25 DEF StreamAbandoned
    <2>3. req[r].got \in Content
      BY <1>f, <2>1
    <2>4. sent # Empty => Holds(r) /\ sent.version = req[r].got.version
      BY <2>1, <2>2, <2>3 DEF Extent, Content
    <2> QED BY <1>k, <1>f, <2>1, <2>2, <2>4
  <1>26. CASE TimeOut(r)
    BY <1>26, <1>k, <1>f DEF TimeOut
  <1>27. CASE Cancel(r)
    BY <1>27, <1>k, <1>f DEF Cancel
  <1> QED BY <1>1, <1>2, <1>3, <1>4, <1>5, <1>6, <1>7, <1>8, <1>9, <1>10, <1>11, <1>12, <1>13, <1>14, <1>15, <1>16, <1>17, <1>18, <1>19, <1>20, <1>21, <1>22, <1>23, <1>24, <1>25, <1>26, <1>27 DEF Act, Proceed

LEMMA TypeStep ==
  ASSUME CacheInv, NEW r \in Requests, Act(r)
  PROVE  TypeOK' /\ Moved(r)
  <1>1. Moved(r) /\ RequestOK(req[r])
    BY RequestStep DEF CacheInv
  <1>2. req[r].pc \in Holding => req[r].got \in Content
    BY <1>1 DEF RequestOK, Fits
  <1>3. req[r].etag \in Content \cup {Nil}
    BY DEF CacheInv, TypeOK, Request
  <1>4. req[r].pc \in Holding => Described(r) \in CacheMetadata
    BY <1>2, <1>3 DEF Described, CacheMetadata
  <1>5. /\ body' \in Content \cup {Nil} /\ sidecar' \in CacheMetadata \cup {Nil}
        /\ upstream' \in Versions /\ faults' \in 0..MaxFaults
    BY <1>2, <1>4, EntryStep DEF CacheInv, TypeOK, Holding, Filling
  <1>6. lease' \in [Processes -> Requests \cup {Nil}]
    BY <1>1, LeaseStep DEF CacheInv, TypeOK, Dropped
  <1>7. req' \in [Requests -> Request]
    BY <1>1 DEF CacheInv, TypeOK, Moved
  <1> QED BY <1>1, <1>5, <1>6, <1>7 DEF TypeOK

LEMMA OthersStay ==
  ASSUME TypeOK, NEW r \in Requests, Moved(r)
  PROVE  \A s \in Requests : s # r => req'[s] = req[s]
  BY DEF TypeOK, Moved

LEMMA LeaseKept ==
  ASSUME CacheInv, NEW r \in Requests, Act(r), Moved(r)
  PROVE  LeaseOK'
  <1>1. \A s \in Requests : s # r => req'[s] = req[s]
    BY OthersStay DEF CacheInv
  <1>2. /\ \A s \in Requests : ProcessOf[s] \in Processes /\ s # Nil
        /\ lease \in [Processes -> Requests \cup {Nil}] /\ LeaseOK
    BY RequestsAssumption DEF CacheInv, TypeOK
  <1>3. req'[r].kind = req[r].kind
    BY DEF Moved
  <1>4. CASE /\ lease' = lease
             /\ Leads(r) => req'[r].pc \in Leading
             /\ Produces(req'[r]) => Leads(r)
    BY <1>1, <1>2, <1>3, <1>4 DEF LeaseOK, Leads
  <1>5. CASE lease' = Dropped(r) /\ ~Produces(req'[r])
    BY <1>1, <1>2, <1>5 DEF LeaseOK, Leads, Dropped
  <1>6. CASE /\ lease[ProcessOf[r]] = Nil /\ lease' = [lease EXCEPT ![ProcessOf[r]] = r]
             /\ req[r].kind # "stream" /\ req'[r].pc = "check"
    BY <1>1, <1>2, <1>3, <1>6 DEF LeaseOK, Leads, Leading
  <1> QED BY <1>4, <1>5, <1>6, LeaseStep DEF CacheInv

LEMMA BrokenStep ==
  ASSUME CacheInv, NEW r \in Requests, Act(r)
  PROVE  BrokenBodiesAreNotHits'
  <1>1. /\ req[r].pc \in Holding => req[r].got.extent # "cut"
        /\ req[r].pc \in {"mark", "latemark"} => req[r].got # Empty
    BY DEF CacheInv, RequestOK, Fits
  <1>2. Described(r).sum = req[r].got
    BY DEF Described
  <1> QED BY <1>1, <1>2, EntryStep DEF CacheInv, BrokenBodiesAreNotHits, Holding, Filling

LEMMA FloorStep ==
  ASSUME CacheInv, TypeOK', NEW r \in Requests, Act(r), Moved(r)
  PROVE  FloorOK'
  <1>1. \A s \in Requests : s # r => req'[s] = req[s]
    BY OthersStay DEF CacheInv
  <1>2. DataMoves(r)
    BY DataStep DEF CacheInv
  <1>3. /\ upstream' = upstream /\ upstream \in Nat
        /\ \/ sidecar' = sidecar \/ sidecar' = Nil
           \/ sidecar' # Nil /\ Holds(r) /\ sidecar'.sum = req[r].got
    <2>1. req[r].pc \in {"mark", "latemark"} => Holds(r)
      BY DEF CacheInv, RequestOK, Fits, Holds, Holding, Filling
    <2>2. Described(r).sum = req[r].got
      BY DEF Described
    <2>3. req[r].pc \in {"mark", "latemark"} => Described(r) # Nil
      <3>1. req[r].etag \in Content \cup {Nil}
        BY DEF CacheInv, TypeOK, Request
      <3>2. req[r].pc \in {"mark", "latemark"} => req[r].got \in Content
        BY DEF CacheInv, RequestOK, Fits, Holding, Filling
      <3>3. req[r].pc \in {"mark", "latemark"} => Described(r) \in CacheMetadata
        BY <3>1, <3>2 DEF Described, CacheMetadata
      <3> QED BY <3>3, NilAssumption
    <2>4. upstream \in Nat
      BY DEF CacheInv, TypeOK, Versions
    <2> QED BY <2>1, <2>2, <2>3, <2>4, EntryStep DEF CacheInv
  <1>4. /\ sidecar' # Nil => sidecar'.sum.version \in Nat
        /\ FloorOK /\ RequestOK(req[r]) /\ req'[r].kind = req[r].kind
    <2>1. \A c \in Content : c.version \in Nat
      BY DEF Content, Empty, Versions
    <2> QED BY <2>1 DEF CacheInv, TypeOK, CacheMetadata, Moved
  <1>5. ASSUME NEW t \in Requests, t # r
        PROVE  /\ Watching(t)' =>
                     /\ NoOlder(upstream', req'[t].floor)
                     /\ \A s \in Requests : Holds(s)' =>
                           NoOlder(req'[s].got.version, req'[t].floor)
               /\ Cleared(t)' =>
                     /\ sidecar' # Nil => NoOlder(sidecar'.sum.version, req'[t].floor)
                     /\ req'[t].seen # Nil => NoOlder(req'[t].seen.sum.version, req'[t].floor)
                     /\ req'[t].from \in Answered /\ req'[t].got # Empty =>
                           NoOlder(req'[t].got.version, req'[t].floor)
    <2>1. req'[t] = req[t]
      BY <1>1, <1>5
    <2>2. /\ Watching(t)' => Watching(t)
          /\ Cleared(t)' => Cleared(t) /\ Watching(t)
      BY <2>1 DEF Watching, Cleared
    <2>3. ASSUME Watching(t), NEW s \in Requests, Holds(s)'
          PROVE  NoOlder(req'[s].got.version, req[t].floor)
      <3>1. CASE s = r
        <4>1. \/ req'[r].got.version = upstream
              \/ Holds(r) /\ req'[r].got.version = req[r].got.version
          BY <1>2, <2>3, <3>1 DEF DataMoves, Holds
        <4> QED BY <1>4, <2>3, <3>1, <4>1 DEF FloorOK
      <3>2. CASE s # r
        <4>1. Holds(s) /\ req'[s] = req[s]
          BY <1>1, <2>3, <3>2 DEF Holds
        <4> QED BY <1>4, <2>3, <4>1 DEF FloorOK
      <3> QED BY <3>1, <3>2
    <2>4. Watching(t) => NoOlder(upstream', req[t].floor)
      BY <1>3, <1>4 DEF FloorOK
    <2>5. Cleared(t) /\ sidecar' # Nil => NoOlder(sidecar'.sum.version, req[t].floor)
      BY <1>3, <1>4 DEF FloorOK, Cleared
    <2> QED BY <1>4, <2>1, <2>2, <2>3, <2>4, <2>5 DEF FloorOK
  <1>6. /\ Watching(r)' =>
              /\ NoOlder(upstream', req'[r].floor)
              /\ \A s \in Requests : Holds(s)' => NoOlder(req'[s].got.version, req'[r].floor)
        /\ Cleared(r)' =>
              /\ sidecar' # Nil => NoOlder(sidecar'.sum.version, req'[r].floor)
              /\ req'[r].seen # Nil => NoOlder(req'[r].seen.sum.version, req'[r].floor)
              /\ req'[r].from \in Answered /\ req'[r].got # Empty =>
                    NoOlder(req'[r].got.version, req'[r].floor)
    <2>1. Watching(r)' => req[r].kind = "detect" /\ req'[r].from # "gone"
      BY <1>4 DEF Watching
    <2>2. CASE req[r].kind = "detect" /\ req'[r].from # "gone"
               /\ req[r].pc = "idle" /\ req'[r].pc = "unlink"
               /\ req'[r].floor = KnownVersions
      <3>1. \A s \in Requests : Holds(s)' => Holds(s) /\ req'[s] = req[s]
        BY <1>1, <2>2 DEF Holds, Holding, Filling
      <3>2. \A s \in Requests : Holds(s) => req[s].got.version \in KnownVersions
        BY DEF Holds, Holding, KnownVersions, InFlight
      <3>3. \A s \in Requests : Holds(s) => req[s].got.version \in Nat
        BY DEF Holds, CacheInv, RequestOK, Fits, Content, Empty, Versions
      <3>4. ~Cleared(r)'
        BY <2>2 DEF Cleared
      <3>5. NoOlder(upstream', req'[r].floor)
        BY <1>3, <2>2 DEF NoOlder, KnownVersions
      <3>6. \A s \in Requests : Holds(s)' => NoOlder(req'[s].got.version, req'[r].floor)
        <4> HIDE DEF KnownVersions
        <4> QED BY <2>2, <3>1, <3>2, <3>3 DEF NoOlder
      <3> QED BY <3>4, <3>5, <3>6
    <2>3. CASE req[r].kind = "detect" /\ req'[r].from # "gone"
               /\ Watching(r) /\ req[r].floor \subseteq req'[r].floor
      <3>1. \A v : NoOlder(v, req[r].floor) => NoOlder(v, req'[r].floor)
        BY <2>3 DEF NoOlder
      <3>2. NoOlder(upstream', req'[r].floor)
        BY <1>3, <1>4, <2>3, <3>1 DEF FloorOK
      <3>3. ASSUME NEW s \in Requests, Holds(s)'
            PROVE  NoOlder(req'[s].got.version, req'[r].floor)
        <4>1. CASE s = r
          BY <1>2, <1>3, <1>4, <2>3, <3>1, <3>2, <3>3, <4>1 DEF FloorOK, DataMoves, Holds
        <4>2. CASE s # r
          BY <1>1, <1>4, <2>3, <3>1, <3>3, <4>2 DEF FloorOK, Holds
        <4> QED BY <4>1, <4>2
      <3>4. CASE Cleared(r)' /\ Cleared(r)
        <4>1. sidecar' # Nil => NoOlder(sidecar'.sum.version, req'[r].floor)
          BY <1>3, <1>4, <2>3, <3>1, <3>4 DEF FloorOK
        <4>2. req'[r].seen # Nil => NoOlder(req'[r].seen.sum.version, req'[r].floor)
          BY <1>2, <1>4, <2>3, <3>1, <3>4 DEF FloorOK, DataMoves
        <4>3. req'[r].from \in Answered /\ req'[r].got # Empty =>
                NoOlder(req'[r].got.version, req'[r].floor)
          BY <1>2, <1>3, <1>4, <2>3, <3>1, <3>2, <3>4 DEF FloorOK, DataMoves
        <4> QED BY <3>2, <3>3, <4>1, <4>2, <4>3
      <3>5. CASE Cleared(r)' /\ ~Cleared(r)
        <4>1. /\ req'[r].pc \notin {"unlink", "unmark"}
              /\ req[r].pc = "unmark" /\ req[r].from = "none" /\ req[r].seen = Nil
          BY <1>2, <1>4, <2>3, <3>5
             DEF Cleared, Watching, DataMoves, RequestOK, Fits, Unanswered
        <4>2. /\ sidecar' = Nil \/ 0 \in req'[r].floor
              /\ req'[r].seen = Nil
              /\ req'[r].from \in Answered /\ req'[r].got # Empty =>
                    req'[r].got.version = upstream
          BY <1>2, <2>3, <4>1 DEF DataMoves, Answered
        <4> QED BY <1>3, <1>4, <3>2, <3>3, <4>2 DEF NoOlder
      <3> QED BY <3>2, <3>3, <3>4, <3>5
    <2> QED BY <1>2, <2>1, <2>2, <2>3 DEF DataMoves, Cleared
  <1> QED BY <1>5, <1>6 DEF FloorOK

LEMMA CrashStep ==
  ASSUME CacheInv, NEW n \in Processes, Crash(n)
  PROVE  CacheInv'
  <1> DEFINE Lost(s) == ProcessOf[s] = n /\ req[s].pc \notin {"idle", "follow", "done"}
  <1>1. /\ \A s \in Requests : Lost(s) => req'[s] = Gone(s)
        /\ \A s \in Requests : ~Lost(s) => req'[s] = req[s]
        /\ DOMAIN req' = Requests /\ req' = [s \in Requests |-> req'[s]]
        /\ lease' = [lease EXCEPT ![n] = Nil]
        /\ UNCHANGED <<upstream, body, sidecar>>
    BY DEF Crash
  <1>2. /\ \A s \in Requests : Gone(s) \in Request /\ RequestOK(Gone(s))
        /\ \A s \in Requests : Gone(s).pc = "done" /\ Gone(s).from = "gone"
    BY Leaves DEF CacheInv, Gone, Blank
  <1>3. TypeOK /\ lease \in [Processes -> Requests \cup {Nil}]
    BY DEF CacheInv, TypeOK
  <1>4. TypeOK'
    <2>1. req' \in [Requests -> Request]
      BY <1>1, <1>2, <1>3 DEF TypeOK
    <2>2. faults' \in 0..MaxFaults
      BY <1>3, BoundsAssumption DEF Crash, Fault, TypeOK
    <2> QED BY <1>1, <1>3, <2>1, <2>2 DEF TypeOK
  <1>5. \A s \in Requests : RequestOK(req'[s])
    BY <1>1, <1>2 DEF CacheInv
  <1>6. LeaseOK'
    <2>1. ASSUME NEW s \in Requests, Produces(req'[s])
          PROVE  Leads(s)'
      <3>1. ~Lost(s)
        BY <1>1, <1>2, <2>1 DEF Produces, Filling
      <3>2. ProcessOf[s] # n /\ Produces(req[s])
        BY <1>1, <2>1, <3>1 DEF Produces, Filling
      <3> QED BY <1>1, <1>3, <3>2, RequestsAssumption DEF CacheInv, LeaseOK, Leads
    <2>2. ASSUME NEW m \in Processes, lease'[m] # Nil
          PROVE  /\ ProcessOf[lease'[m]] = m
                 /\ req'[lease'[m]].kind # "stream" /\ req'[lease'[m]].pc \in Leading
      <3>1. m # n /\ lease'[m] = lease[m] /\ lease[m] \in Requests
        BY <1>1, <1>3, <2>2
      <3> QED BY <1>1, <2>2, <3>1 DEF CacheInv, LeaseOK
    <2> QED BY <2>1, <2>2 DEF LeaseOK
  <1>7. BrokenBodiesAreNotHits'
    BY <1>1 DEF CacheInv, BrokenBodiesAreNotHits
  <1>8. FloorOK'
    <2>1. \A s \in Requests : Holds(s)' => Holds(s) /\ req'[s] = req[s]
      BY <1>1, <1>2 DEF Holds, Holding, Filling
    <2>2. \A s \in Requests : Watching(s)' => Watching(s) /\ req'[s] = req[s]
      BY <1>1, <1>2 DEF Watching
    <2>3. \A s \in Requests : Cleared(s)' => Cleared(s) /\ req'[s] = req[s]
      BY <2>2 DEF Cleared
    <2>4. FloorOK
      BY DEF CacheInv
    <2> QED BY <1>1, <2>1, <2>2, <2>3, <2>4 DEF FloorOK
  <1> QED BY <1>4, <1>5, <1>6, <1>7, <1>8 DEF CacheInv

LEMMA CacheStep ==
  ASSUME CacheInv, [Next]_vars
  PROVE  CacheInv'
  <1>1. ASSUME NEW r \in Requests, Act(r)
        PROVE  CacheInv'
    <2>1. TypeOK' /\ Moved(r)
      BY <1>1, TypeStep
    <2>2. \A s \in Requests : RequestOK(req'[s])
      <3>1. \A s \in Requests : s # r => req'[s] = req[s]
        BY <2>1, OthersStay DEF CacheInv
      <3> QED BY <2>1, <3>1 DEF Moved, CacheInv
    <2>3. LeaseOK' /\ BrokenBodiesAreNotHits' /\ FloorOK'
      BY <1>1, <2>1, LeaseKept, BrokenStep, FloorStep
    <2> QED BY <2>1, <2>2, <2>3 DEF CacheInv
  <1>2. CASE Publish
    <2>1. upstream' \in Versions /\ upstream \in Nat /\ upstream' = upstream + 1
      BY <1>2, BoundsAssumption DEF Publish, CacheInv, TypeOK, Versions
    <2>2. UNCHANGED <<body, sidecar, lease, req, faults>>
      BY <1>2 DEF Publish
    <2>3. \A r \in Requests : NoOlder(upstream, req[r].floor) => NoOlder(upstream', req[r].floor)
      <3>1. \A r \in Requests : req[r].floor \subseteq Int
        BY DEF CacheInv, TypeOK, Request
      <3> QED BY <2>1, <3>1 DEF NoOlder
    <2>4. FloorOK'
      BY <2>2, <2>3 DEF FloorOK, CacheInv, Watching, Cleared, Holds
    <2>5. TypeOK' /\ LeaseOK' /\ BrokenBodiesAreNotHits'
      BY <2>1, <2>2 DEF CacheInv, TypeOK, LeaseOK, Leads, BrokenBodiesAreNotHits
    <2> QED BY <2>2, <2>4, <2>5 DEF CacheInv
  <1>3. CASE Expire
    <2>1. /\ UNCHANGED <<upstream, body, lease, req, faults>>
          /\ sidecar # Nil /\ sidecar' = [sidecar EXCEPT !.fresh = FALSE]
      BY <1>3 DEF Expire, Unexpired
    <2>2. sidecar' \in CacheMetadata /\ sidecar'.sum = sidecar.sum
      BY <2>1 DEF CacheInv, TypeOK, CacheMetadata
    <2>3. FloorOK'
      BY <2>1, <2>2 DEF FloorOK, CacheInv, Watching, Cleared, Holds
    <2>4. TypeOK' /\ LeaseOK' /\ BrokenBodiesAreNotHits'
      BY <2>1, <2>2 DEF CacheInv, TypeOK, LeaseOK, Leads, BrokenBodiesAreNotHits
    <2> QED BY <2>1, <2>3, <2>4 DEF CacheInv
  <1>4. CASE UNCHANGED vars
    BY <1>4 DEF vars, CacheInv, TypeOK, LeaseOK, Leads, BrokenBodiesAreNotHits, FloorOK,
                Watching, Cleared, Holds
  <1> QED BY <1>1, <1>2, <1>3, <1>4, CrashStep DEF Next, Act

LEMMA CacheStart ==
  ASSUME Init
  PROVE  CacheInv
  <1>1. PICK kind \in Workloads : req = [r \in Requests |-> Blank(kind[r], "idle", "none")]
    BY DEF Init
  <1>2. \A r \in Requests : kind[r] \in Kinds
    BY WorkloadsAssumption
  <1>3. \A r \in Requests :
           req[r] = [kind |-> kind[r], pc |-> "idle", seen |-> Nil, got |-> Nil, etag |-> Nil,
                     from |-> "none", since |-> 0, floor |-> {}]
    BY <1>1 DEF Blank
  <1>4. ASSUME NEW r \in Requests
        PROVE  /\ req[r] \in Request /\ req[r].kind = kind[r] /\ req[r].pc = "idle"
               /\ req[r].from = "none" /\ req[r].seen = Nil
    <2> DEFINE g == [kind |-> kind[r], pc |-> "idle", seen |-> Nil, got |-> Nil, etag |-> Nil,
                     from |-> "none", since |-> 0, floor |-> {}]
    <2>1. req[r] = g
      BY <1>3
    <2>2. kind[r] \in Kinds
      BY <1>2
    <2>3. g \in Request
      BY <2>2, BoundsAssumption DEF Request, Places
    <2> QED BY <2>1, <2>3
  <1>5. TypeOK
    BY <1>1, <1>4, BoundsAssumption DEF Init, TypeOK, Versions
  <1>6. \A r \in Requests : RequestOK(req[r])
    BY <1>4 DEF RequestOK, Fits, BufferedOnly, StreamOnly, Unanswered, Holding, Filling
  <1>7. LeaseOK
    BY <1>4, RequestsAssumption DEF LeaseOK, Produces, Filling, Init
  <1>8. BrokenBodiesAreNotHits
    BY DEF BrokenBodiesAreNotHits, Init
  <1>9. FloorOK
    BY <1>4 DEF FloorOK, Watching, Cleared
  <1> QED BY <1>5, <1>6, <1>7, <1>8, <1>9 DEF CacheInv

LEMMA CacheAlways == Spec => []CacheInv
  <1> QED BY CacheStart, CacheStep, PTL DEF Spec

(* Every variable keeps its type: a request holds well-formed contents     *)
(* and versions wherever its handler stands.                               *)
THEOREM TypeCorrect == Spec => []TypeOK
  <1>1. CacheInv => TypeOK
    BY DEF CacheInv
  <1> QED BY <1>1, CacheAlways, PTL

(* However requests arrive, fail, leave or crash, the local hydration slot *)
(* of a process belongs to one live request, and only that one fetches and *)
(* fills the entry for the buffered requests of the process.               *)
THEOREM SingleFlight == Spec => []OneHydrationPerProcess
  <1>1. CacheInv => OneHydrationPerProcess
    BY RequestsAssumption
       DEF CacheInv, LeaseOK, OneHydrationPerProcess, Producing, Produces, Leading
  <1> QED BY <1>1, CacheAlways, PTL

(* A buffered answer from the cache has the bytes of the response that its *)
(* sidecar describes, whoever replaces body and sidecar meanwhile.         *)
THEOREM VerifiedAnswers == Spec => []HitsAreOneResponse
  <1>1. CacheInv => HitsAreOneResponse
    BY DEF CacheInv, RequestOK, Fits, HitsAreOneResponse
  <1> QED BY <1>1, CacheAlways, PTL

(* A sidecar never describes an empty body or one that upstream broke off. *)
THEOREM NoBrokenHits == Spec => []BrokenBodiesAreNotHits
  <1>1. CacheInv => BrokenBodiesAreNotHits
    BY DEF CacheInv
  <1> QED BY <1>1, CacheAlways, PTL

(* What a detecting fetch answers after its invalidation is no older than  *)
(* a version that was upstream's, or in flight, when it came.              *)
THEOREM InvalidationHolds == Spec => []InvalidationIsKept
  <1>1. ASSUME CacheInv
        PROVE  InvalidationIsKept
    <2>1. ASSUME NEW r \in Requests, req[r].kind = "detect", req[r].got # Empty,
                 req[r].from \in {"cache", "stale", "upstream"}
          PROVE  \E v \in req[r].floor : req[r].got.version >= v
      <3>1. req[r].pc \notin Unanswered
        BY <1>1, <2>1 DEF CacheInv, RequestOK, Fits
      <3>2. Cleared(r)
        BY <2>1, <3>1 DEF Cleared, Watching, Unanswered
      <3> QED BY <1>1, <2>1, <3>2 DEF CacheInv, FloorOK, Answered, NoOlder
    <2> QED BY <2>1 DEF InvalidationIsKept
  <1> QED BY <1>1, CacheAlways, PTL

-----------------------------------------------------------------------------
(* The two events that shorten a stream without the writer's seeing an     *)
(* error: the client leaves before the end, and upstream answers with an   *)
(* empty body.                                                             *)
StreamsReachTheirEnd ==
    \A r \in Requests : ~StreamAbandoned(r) /\ ~(FetchStreaming(r) /\ req'[r].got = Empty)

(* Then whatever is or is about to be at the cache key is whole.           *)
WholeBodies ==
    /\ body # Nil => body.extent = "whole"
    /\ \A r \in Requests :
          req[r].pc \in {"put", "pin", "mark", "tee", "latebody"} \/ req[r].from = "cache"
             => req[r].got.extent = "whole"

HoldsWhole(r) == req[r].pc \in {"put", "pin", "mark", "tee", "latebody"} \/ req[r].from = "cache"

LEMMA WholeOwn ==
  ASSUME TypeOK, WholeBodies, \A s \in Requests : RequestOK(req[s]), NEW r \in Requests, Act(r),
         StreamsReachTheirEnd
  PROVE  /\ body' # Nil => body'.extent = "whole"
         /\ HoldsWhole(r)' => req'[r].got.extent = "whole"
  <1>w. Whole(upstream).extent = "whole"
    BY DEF Whole
  <1>o. HoldsWhole(r) => req[r].got.extent = "whole"
    BY DEF WholeBodies, HoldsWhole
  <1>b. body # Nil => body.extent = "whole"
    BY DEF WholeBodies
  <1>f. req[r].pc \in Unanswered => req[r].from = "none"
    BY DEF RequestOK, Fits
  <1> USE DEF HoldsWhole, At
  <1>1. CASE Arrive(r)
    BY <1>1, <1>o, <1>b, <1>f, OwnEffects DEF Arrive, FirstStep, Unanswered
  <1>2. CASE DeleteBody(r)
    BY <1>2, <1>o, <1>b, Effects DEF DeleteBody
  <1>3. CASE DeleteSidecar(r)
    BY <1>3, <1>o, <1>b, OwnEffects DEF DeleteSidecar
  <1>4. CASE CheckSidecar(r) \/ Acquire(r) \/ Wake(r) \/ Release(r) \/ Probe(r) \/ HeadBody(r)
    BY <1>4, <1>o, <1>b, Effects
    DEF CheckSidecar, AfterMiss, Acquire, Wake, Release, Probe, HeadBody
  <1>5. CASE CheckBody(r) \/ ReadStaleBody(r) \/ ReadStaleSidecar(r)
    BY <1>5, <1>o, <1>b, Effects DEF CheckBody, AfterMiss, Verified, ReadStaleBody, ReadStaleSidecar
  <1>6. CASE FetchUpstream(r)
    BY <1>6, <1>o, <1>b, <1>w, Effects DEF FetchUpstream
  <1>7. CASE PutBody(r) \/ EraseEmpty(r)
    BY <1>7, <1>o, <1>b, Effects DEF PutBody, AfterPut, AfterWrite, EraseEmpty
  <1>8. CASE PinStorageEtag(r)
    BY <1>8, <1>o, <1>b, OwnEffects DEF PinStorageEtag
  <1>9. CASE PutSidecar(r)
    BY <1>9, <1>o, <1>b, OwnEffects DEF PutSidecar, AfterWrite
  <1>10. CASE LateWrite(r)
    BY <1>10, <1>o, <1>b, Effects DEF LateWrite
  <1>11. CASE FollowRedirect(r) \/ OpenSidecar(r) \/ OpenBody(r) \/ TimeOut(r) \/ StreamEnds(r)
              \/ StreamBreaks(r)
    BY <1>11, <1>o, <1>b, Effects
    DEF FollowRedirect, OpenSidecar, OpenBody, TimeOut, StreamEnds, StreamBreaks
  <1>12. CASE FetchStreaming(r)
    BY <1>12, <1>o, <1>b, <1>w, Effects DEF FetchStreaming, StreamsReachTheirEnd
  <1>13. CASE Cancel(r)
    BY <1>13, <1>o, <1>b, Effects DEF Cancel
  <1> QED
    BY <1>1, <1>2, <1>3, <1>4, <1>5, <1>6, <1>7, <1>8, <1>9, <1>10, <1>11, <1>12, <1>13
    DEF Act, Proceed, StreamsReachTheirEnd

LEMMA WholeStep ==
  ASSUME CacheInv, WholeBodies, [Next /\ StreamsReachTheirEnd]_vars
  PROVE  WholeBodies'
  <1>0. TypeOK /\ \A s \in Requests : RequestOK(req[s])
    BY DEF CacheInv
  <1>1. ASSUME NEW r \in Requests, Act(r), StreamsReachTheirEnd PROVE WholeBodies'
    <2>1. \A s \in Requests \ {r} : req'[s] = req[s]
      BY <1>0, <1>1, RequestStep DEF Moved, TypeOK
    <2> QED BY <1>0, <1>1, <2>1, WholeOwn DEF WholeBodies, HoldsWhole
  <1>2. ASSUME NEW n \in Processes, Crash(n) PROVE WholeBodies'
    <2>1. body' = body /\ \A r \in Requests : req'[r] = req[r] \/ req'[r] = Gone(r)
      BY <1>2 DEF Crash
    <2>2. \A r \in Requests : Gone(r).pc = "done" /\ Gone(r).from = "gone"
      BY DEF Gone, Blank
    <2> QED BY <2>1, <2>2 DEF WholeBodies
  <1>3. CASE UNCHANGED <<body, req>>
    BY <1>3 DEF WholeBodies
  <1> QED BY <1>1, <1>2, <1>3 DEF Next, Act, vars, Publish, Expire

(* Partial bytes become a cache hit only through a client that leaves its  *)
(* stream or an upstream that sends nothing: crashes, cancelled requests,  *)
(* failed puts and deletes, broken streams and racing writers never make   *)
(* one.                                                                    *)
THEOREM WholeHits == Spec /\ [][StreamsReachTheirEnd]_vars => []HitsAreWhole
  <1>1. Init => WholeBodies
    BY DEF Init, WholeBodies, Blank
  <1>2. CacheInv /\ WholeBodies /\ [Next /\ StreamsReachTheirEnd]_vars => WholeBodies'
    BY WholeStep
  <1>3. [Next]_vars /\ [StreamsReachTheirEnd]_vars => [Next /\ StreamsReachTheirEnd]_vars
    OBVIOUS
  <1>4. WholeBodies => HitsAreWhole
    BY DEF WholeBodies, HitsAreWhole
  <1> QED BY <1>1, <1>2, <1>3, <1>4, CacheAlways, PTL DEF Spec
-----------------------------------------------------------------------------
(* The backend's ETag is read by a request of its own after the put: the   *)
(* read succeeds, and nobody has replaced the body meanwhile.              *)
PinsItsOwn == \A r \in Requests : PinStorageEtag(r) => req'[r].etag = req[r].got

(* Then the two digests of a sidecar are always of the same bytes.         *)
SameBytes(metadata) == metadata # Nil => metadata.etag = metadata.sum

Tied(q) ==
    /\ SameBytes(q.seen)
    /\ q.pc \in {"mark", "latemark"} => q.etag = q.got
    /\ q.pc = "head" => q.seen # Nil

PinnedInv == SameBytes(sidecar) /\ \A r \in Requests : Tied(req[r])

LEMMA EtagEffects ==
  ASSUME TypeOK, NEW r \in Requests
  PROVE  /\ \A from, content, pc : Answer(r, from, content, pc) => req'[r].etag = req[r].etag
         /\ Become(r, Gone(r)) => req'[r].pc = "done" /\ req'[r].seen = Nil
  <1>1. req[r] \in Request
    BY DEF TypeOK
  <1>2. \A q : Become(r, q) => req'[r] = q
    BY DEF Become, TypeOK
  <1>3. Gone(r).pc = "done" /\ Gone(r).seen = Nil
    BY DEF Gone, Blank
  <1> QED BY <1>1, <1>2, <1>3 DEF Answer, Request

LEMMA TiedOwn ==
  ASSUME TypeOK, PinnedInv, NEW r \in Requests, Act(r), PinsItsOwn
  PROVE  SameBytes(sidecar') /\ Tied(req'[r])
  <1>s. SameBytes(sidecar) /\ SameBytes(Nil)
    BY DEF PinnedInv, SameBytes
  <1>o. Tied(req[r])
    BY DEF PinnedInv
  <1>d. req[r].etag = req[r].got => SameBytes(Described(r))
    BY DEF Described, SameBytes
  <1> USE DEF Tied, At
  <1>1. CASE Arrive(r)
    BY <1>1, <1>s, <1>o, OwnEffects DEF Arrive, FirstStep
  <1>2. CASE DeleteBody(r)
    BY <1>2, <1>s, <1>o, Effects DEF DeleteBody
  <1>3. CASE DeleteSidecar(r)
    BY <1>3, <1>s, <1>o, OwnEffects DEF DeleteSidecar
  <1>4. CASE CheckSidecar(r) \/ Acquire(r) \/ Wake(r) \/ Release(r)
    BY <1>4, <1>s, <1>o, Effects DEF CheckSidecar, AfterMiss, Acquire, Wake, Release
  <1>5. CASE Probe(r)
    BY <1>5, <1>s, <1>o, Effects DEF Probe, Unexpired
  <1>6. CASE HeadBody(r) \/ FollowRedirect(r)
    BY <1>6, <1>s, <1>o, Effects DEF HeadBody, FollowRedirect
  <1>7. CASE CheckBody(r) \/ ReadStaleBody(r) \/ ReadStaleSidecar(r)
    BY <1>7, <1>s, <1>o, Effects DEF CheckBody, AfterMiss, ReadStaleBody, ReadStaleSidecar
  <1>8. CASE FetchUpstream(r) \/ TimeOut(r)
    BY <1>8, <1>s, <1>o, Effects DEF FetchUpstream, TimeOut
  <1>9. CASE PutBody(r) \/ EraseEmpty(r)
    BY <1>9, <1>s, <1>o, Effects DEF PutBody, AfterPut, AfterWrite, EraseEmpty
  <1>10. CASE PinStorageEtag(r)
    <2>1. req'[r].etag = req'[r].got
      BY <1>10, OwnEffects DEF PinsItsOwn
    <2> QED BY <1>10, <1>s, <1>o, <2>1, OwnEffects DEF PinStorageEtag
  <1>11. CASE PutSidecar(r)
    BY <1>11, <1>s, <1>o, <1>d, OwnEffects DEF PutSidecar, AfterWrite
  <1>12. CASE LateWrite(r)
    BY <1>12, <1>s, <1>o, <1>d, EtagEffects DEF LateWrite
  <1>13. CASE OpenSidecar(r) \/ OpenBody(r) \/ FetchStreaming(r)
    BY <1>13, <1>s, <1>o, Effects DEF OpenSidecar, OpenBody, FetchStreaming
  <1>14. CASE StreamEnds(r) \/ StreamBreaks(r) \/ StreamAbandoned(r)
    BY <1>14, <1>s, <1>o, Effects DEF StreamEnds, StreamBreaks, StreamAbandoned
  <1>15. CASE Cancel(r)
    BY <1>15, <1>s, <1>o, Effects, EtagEffects DEF Cancel
  <1> QED
    BY <1>1, <1>2, <1>3, <1>4, <1>5, <1>6, <1>7, <1>8, <1>9, <1>10, <1>11, <1>12, <1>13, <1>14,
       <1>15
    DEF Act, Proceed

LEMMA TiedStep ==
  ASSUME CacheInv, PinnedInv, [Next /\ PinsItsOwn]_vars
  PROVE  PinnedInv'
  <1>0. TypeOK /\ \A s \in Requests : RequestOK(req[s])
    BY DEF CacheInv
  <1>1. ASSUME NEW r \in Requests, Act(r), PinsItsOwn PROVE PinnedInv'
    <2>1. \A s \in Requests \ {r} : req'[s] = req[s]
      BY <1>0, <1>1, RequestStep DEF Moved, TypeOK
    <2>2. SameBytes(sidecar') /\ Tied(req'[r])
      BY <1>0, <1>1, TiedOwn
    <2>3. ASSUME NEW s \in Requests PROVE Tied(req'[s])
      BY <2>1, <2>2 DEF PinnedInv
    <2> QED BY <2>2, <2>3 DEF PinnedInv
  <1>2. ASSUME NEW n \in Processes, Crash(n) PROVE PinnedInv'
    <2>1. sidecar' = sidecar /\ \A r \in Requests : req'[r] = req[r] \/ req'[r] = Gone(r)
      BY <1>2 DEF Crash
    <2>2. \A r \in Requests : Tied(Gone(r))
      BY DEF Gone, Blank, Tied, SameBytes
    <2> QED BY <2>1, <2>2 DEF PinnedInv
  <1>3. CASE Expire
    <2>1. sidecar \in CacheMetadata /\ sidecar' = [sidecar EXCEPT !.fresh = FALSE]
      BY <1>0, <1>3 DEF Expire, Unexpired, TypeOK
    <2>2. sidecar'.sum = sidecar.sum /\ sidecar'.etag = sidecar.etag
      BY <2>1 DEF CacheMetadata
    <2>3. SameBytes(sidecar')
      BY <2>1, <2>2, NilAssumption DEF PinnedInv, SameBytes
    <2> QED BY <1>3, <2>3 DEF Expire, PinnedInv
  <1>4. CASE UNCHANGED <<sidecar, req>>
    BY <1>4 DEF PinnedInv
  <1> QED BY <1>1, <1>2, <1>3, <1>4 DEF Next, Act, vars, Publish

(* is_cache_fresh trusts a HEAD: if every ETag a writer pinned was of the  *)
(* body it had just put, an object with the pinned ETag has the bytes the  *)
(* sidecar describes, whatever else writers, invalidations, expiries,      *)
(* departures and crashes do between the probe and the redirect.           *)
THEOREM PinnedRedirectsServeDescribed ==
    Spec /\ [][PinsItsOwn]_vars => []FastPathServesDescribed
  <1>1. Init => PinnedInv
    BY DEF Init, PinnedInv, Tied, SameBytes, Blank
  <1>2. CacheInv /\ PinnedInv /\ [Next /\ PinsItsOwn]_vars => PinnedInv'
    BY TiedStep
  <1>3. [Next]_vars /\ [PinsItsOwn]_vars => [Next /\ PinsItsOwn]_vars
    OBVIOUS
  <1>4. ASSUME CacheInv, PinnedInv PROVE FastPathServesDescribed
    <2>1. ASSUME NEW r \in Requests, req[r].pc = "head", SameObject(r)
          PROVE  body = req[r].seen.sum
      <3>1. req[r].seen \in CacheMetadata /\ req[r].seen.etag = req[r].seen.sum
        BY <1>4, <2>1 DEF CacheInv, PinnedInv, Tied, SameBytes, TypeOK, Request
      <3>2. req[r].seen.sum # Nil
        BY <3>1, NilAssumption DEF CacheMetadata
      <3> QED BY <2>1, <3>1, <3>2 DEF SameObject
    <2> QED BY <2>1 DEF FastPathServesDescribed
  <1> QED BY <1>1, <1>2, <1>3, <1>4, CacheAlways, PTL DEF Spec

-----------------------------------------------------------------------------
(* When a detecting request comes nobody is about to write an older        *)
(* version, and its delete of the sidecar does not fail.                   *)
DetectionsAreUndisturbed ==
    \A r \in Requests :
        /\ Arrive(r) /\ req[r].kind = "detect" => KnownVersions \subseteq {upstream}
        /\ DeleteSidecar(r) => faults' = faults

(* Then the only version known to such a request is the one upstream had.  *)
OnlyLatest(q) == q.kind = "detect" => q.floor \subseteq {q.since}

LatestInv == \A r \in Requests : OnlyLatest(req[r])

(* Which versions a request knows is settled when it comes and when its    *)
(* delete fails, and nowhere else.                                         *)
LEMMA FloorEffects ==
  ASSUME TypeOK, NEW r \in Requests, Act(r), ~Arrive(r), ~DeleteSidecar(r)
  PROVE  \/ req'[r].floor = req[r].floor /\ req'[r].since = req[r].since
         \/ req'[r].floor = {}
  <1>1. req[r] \in Request
    BY DEF TypeOK
  <1>2. \A q : Become(r, q) => req'[r] = q
    BY DEF Become, TypeOK
  <1> DEFINE Kept == req'[r].floor = req[r].floor /\ req'[r].since = req[r].since
  <1>3. /\ \A pc : GoTo(r, pc) => Kept
        /\ \A pc : Read(r, pc) => Kept
        /\ \A pc : Miss(r, pc) => Kept
        /\ \A pc : Fail(r, pc) => Kept
        /\ \A from, content, pc : Answer(r, from, content, pc) => Kept
    BY <1>1, <1>2 DEF GoTo, Read, Miss, Fail, Answer, Request
  <1>4. Become(r, Gone(r)) => req'[r].floor = {}
    BY <1>2 DEF Gone, Blank
  <1> HIDE DEF Kept
  <1>5. CASE PinStorageEtag(r) \/ PutSidecar(r)
    <2>1. CASE Become(r, [req[r] EXCEPT !.pc = "mark", !.etag = body])
      BY <1>1, <1>2, <2>1 DEF Request
    <2>2. CASE PutSidecar(r)
      BY <1>1, <1>2, <2>2 DEF PutSidecar, Request
    <2>3. CASE GoTo(r, "mark")
      BY <1>3, <2>3 DEF Kept
    <2> QED BY <1>5, <2>1, <2>2, <2>3 DEF PinStorageEtag
  <1>6. CASE DeleteBody(r) \/ CheckSidecar(r) \/ CheckBody(r) \/ Acquire(r) \/ Wake(r)
             \/ Release(r)
    <2>1. Kept
      BY <1>3, <1>6 DEF DeleteBody, CheckSidecar, CheckBody, Acquire, Wake, Release
    <2> QED BY <2>1 DEF Kept
  <1>7. CASE FetchUpstream(r) \/ ReadStaleSidecar(r) \/ ReadStaleBody(r) \/ PutBody(r)
             \/ EraseEmpty(r) \/ Probe(r) \/ HeadBody(r) \/ FollowRedirect(r)
    <2>1. Kept
      BY <1>3, <1>7 DEF FetchUpstream, ReadStaleSidecar, ReadStaleBody, PutBody, EraseEmpty,
                        Probe, HeadBody, FollowRedirect
    <2> QED BY <2>1 DEF Kept
  <1>8. CASE OpenSidecar(r) \/ OpenBody(r) \/ FetchStreaming(r) \/ StreamEnds(r)
             \/ StreamBreaks(r) \/ StreamAbandoned(r) \/ TimeOut(r)
    <2>1. Kept
      BY <1>3, <1>8 DEF OpenSidecar, OpenBody, FetchStreaming, StreamEnds, StreamBreaks,
                        StreamAbandoned, TimeOut
    <2> QED BY <2>1 DEF Kept
  <1>9. CASE LateWrite(r) \/ Cancel(r)
    <2>1. Kept \/ req'[r].floor = {}
      BY <1>3, <1>4, <1>9 DEF LateWrite, Cancel
    <2> QED BY <2>1 DEF Kept
  <1> QED BY <1>5, <1>6, <1>7, <1>8, <1>9 DEF Act, Proceed

LEMMA LatestStep ==
  ASSUME CacheInv, LatestInv, [Next /\ DetectionsAreUndisturbed]_vars
  PROVE  LatestInv'
  <1>0. TypeOK /\ \A s \in Requests : RequestOK(req[s])
    BY DEF CacheInv
  <1>1. ASSUME NEW r \in Requests, Act(r), DetectionsAreUndisturbed PROVE LatestInv'
    <2>1. (\A s \in Requests \ {r} : req'[s] = req[s]) /\ req'[r].kind = req[r].kind
      BY <1>0, <1>1, RequestStep DEF Moved, TypeOK
    <2>2. ASSUME req[r].kind = "detect" PROVE req'[r].floor \subseteq {req'[r].since}
      <3>0. req[r] \in Request /\ req[r].floor \subseteq {req[r].since}
        BY <1>0, <2>2 DEF TypeOK, LatestInv, OnlyLatest
      <3>b. \A q : Become(r, q) => req'[r] = q
        BY <1>0 DEF Become, TypeOK
      <3>1. CASE Arrive(r)
        <4>1. req'[r] = [req[r] EXCEPT !.pc = FirstStep("detect"), !.since = upstream,
                                       !.floor = KnownVersions]
          BY <2>2, <3>1, <3>b DEF Arrive
        <4>2. req'[r].since = upstream /\ req'[r].floor = KnownVersions
          BY <3>0, <4>1 DEF Request
        <4> QED BY <1>1, <2>2, <3>1, <4>2 DEF DetectionsAreUndisturbed
      <3>2. CASE DeleteSidecar(r)
        <4>1. faults \in Nat /\ faults' = faults
          BY <1>0, <1>1, <3>2, BoundsAssumption DEF DetectionsAreUndisturbed, TypeOK
        <4>2. ~Fault
          BY <4>1 DEF Fault
        <4>3. \E pc : GoTo(r, pc)
          BY <3>2, <4>2 DEF DeleteSidecar
        <4>4. req'[r].floor = req[r].floor /\ req'[r].since = req[r].since
          BY <3>0, <3>b, <4>3 DEF GoTo, Request
        <4> QED BY <3>0, <4>4
      <3>3. CASE ~Arrive(r) /\ ~DeleteSidecar(r)
        BY <1>0, <1>1, <3>0, <3>3, FloorEffects
      <3> QED BY <3>1, <3>2, <3>3
    <2> QED BY <2>1, <2>2 DEF LatestInv, OnlyLatest
  <1>2. ASSUME NEW n \in Processes, Crash(n) PROVE LatestInv'
    <2>1. \A r \in Requests : req'[r] = req[r] \/ req'[r] = Gone(r)
      BY <1>2 DEF Crash
    <2>2. \A r \in Requests : OnlyLatest(Gone(r))
      BY DEF Gone, Blank, OnlyLatest
    <2> QED BY <2>1, <2>2 DEF LatestInv
  <1>3. CASE UNCHANGED req
    BY <1>3 DEF LatestInv
  <1> QED BY <1>1, <1>2, <1>3 DEF Next, Act, vars, Publish, Expire

(* "This guarantees we observe the latest upstream Release": it does, for  *)
(* every interleaving of requests, expiries, crashes and departures, if a  *)
(* detecting fetch comes when no request is about to write an older        *)
(* version and its delete of the sidecar does not fail.                    *)
THEOREM UndisturbedDetectionsAreLatest ==
    Spec /\ [][DetectionsAreUndisturbed]_vars => []DetectsLatest
  <1>1. Init => LatestInv
    BY DEF Init, LatestInv, OnlyLatest, Blank
  <1>2. CacheInv /\ LatestInv /\ [Next /\ DetectionsAreUndisturbed]_vars => LatestInv'
    BY LatestStep
  <1>3. [Next]_vars /\ [DetectionsAreUndisturbed]_vars => [Next /\ DetectionsAreUndisturbed]_vars
    OBVIOUS
  <1>4. InvalidationIsKept /\ LatestInv => DetectsLatest
    BY DEF InvalidationIsKept, LatestInv, OnlyLatest, DetectsLatest
  <1> QED BY <1>1, <1>2, <1>3, <1>4, CacheAlways, InvalidationHolds, PTL DEF Spec
=============================================================================
