-------------------------- MODULE SyncWorkerProofs --------------------------
(***************************************************************************)
(* Proofs about peer replication, for any peers, artifacts, replicas and   *)
(* number of transfers, any limit and any number of retries and faults.    *)
(***************************************************************************)
EXTENDS SyncWorker, FiniteSetTheorems, TLAPS

(* A task that can be dispatched, a task a tick has fetched and a task a   *)
(* transfer carries all have a retry left, although the retry count of the *)
(* row may have been overwritten meanwhile by another transfer of the same *)
(* task.                                                                   *)
RetriesRemain ==
    /\ \A t \in Tasks : tasks[t].status \in {"absent", "pending"} => tasks[t].retry < MaxRetries
    /\ \A w \in Workers : worker[w] # IdleWorker =>
          \A f \in worker[w].fetched : f.retry < MaxRetries
    /\ \A x \in Transfers : transfer[x] # NoTransfer => transfer[x].retry < MaxRetries

(* Where a transfer sends its task, and what an accepted push has left     *)
(* behind when its task is about to be marked.                             *)
Aimed(x) ==
    LET t == transfer[x].task
    IN  /\ transfer[x].endpoint = PeerOf(t) \/ \E q \in Peers : <<q, ArtifactOf(t)>> \in Scored
        /\ transfer[x].pc = "complete" /\ TypeOf(t) = "push" =>
              <<transfer[x].endpoint, ArtifactOf(t)>> \in delivered

SyncInv ==
    /\ TypeOK
    /\ RetriesRemain
    /\ \A x \in Transfers : transfer[x] # NoTransfer => Aimed(x)
    /\ CompletedPushesWereDelivered

-----------------------------------------------------------------------------
(* A transfer or a tick that is anywhere is a full record.                 *)
LEMMA Records ==
    ASSUME TypeOK
    PROVE  /\ \A x \in Transfers : transfer[x].pc # "none" =>
                 transfer[x] # NoTransfer /\ transfer[x] \in ActiveTransfer
           /\ \A x \in Transfers : transfer[x] # NoTransfer => transfer[x] \in ActiveTransfer
           /\ \A w \in Workers : worker[w].pc # "idle" =>
                 worker[w] # IdleWorker /\ worker[w] \in RunningTick
           /\ \A w \in Workers : worker[w] # IdleWorker => worker[w] \in RunningTick
  BY DEF TypeOK, NoTransfer, IdleWorker

LEMMA TaskFields ==
    ASSUME NEW t \in Tasks
    PROVE  /\ PeerOf(t) \in Peers
           /\ ArtifactOf(t) \in Artifacts
           /\ TypeOf(t) \in TaskTypes
           /\ t = <<PeerOf(t), ArtifactOf(t), TypeOf(t)>>
  BY DEF Tasks, PeerOf, ArtifactOf, TypeOf

(* The strengthened type invariant: retry counts stay within max_retries   *)
(* only because no step dispatches a task whose retries are used up.       *)
LEMMA TypeStep == TypeOK /\ RetriesRemain /\ [Next]_vars => TypeOK' /\ RetriesRemain'
  <1> SUFFICES ASSUME TypeOK, RetriesRemain, [Next]_vars
               PROVE  TypeOK' /\ RetriesRemain'
    OBVIOUS
  <1> USE DEF TypeOK, RetriesRemain
  <1> USE LimitsAssumption
  <1>1. ASSUME Environment PROVE TypeOK' /\ RetriesRemain'
    <2>1. ASSUME NEW p \in Peers, NEW a \in Artifacts, QueuePush(p, a)
          PROVE  TypeOK' /\ RetriesRemain'
      BY <2>1 DEF QueuePush, QueueTask, TaskRow
    <2>2. ASSUME NEW a \in Artifacts, QueueDeletes(a) PROVE TypeOK' /\ RetriesRemain'
      BY <2>2 DEF QueueDeletes, QueueTask, TaskRow
    <2>3. ASSUME NEW p \in Peers, NEW status \in Reported, Heartbeat(p, status)
          PROVE  TypeOK' /\ RetriesRemain'
      <3>1. status \in InstanceStatus
        BY TypesAssumption
      <3>2. peers' \in [Peers -> PeerRow]
        BY <2>3, <3>1 DEF Heartbeat, PeerRow
      <3> QED BY <2>3, <3>2 DEF Heartbeat
    <2>4. ASSUME NEW p \in Peers, TriggerSync(p) \/ FallSilent(p) \/ BackoffExpires(p)
          PROVE  TypeOK' /\ RetriesRemain'
      <3>1. CASE TriggerSync(p)
        BY <3>1 DEF TriggerSync, PeerRow, InstanceStatus
      <3>2. CASE FallSilent(p)
        BY <3>2 DEF FallSilent, PeerRow
      <3>3. CASE BackoffExpires(p)
        BY <3>3 DEF BackoffExpires, PeerRow
      <3> QED BY <2>4, <3>1, <3>2, <3>3
    <2>5. CASE MarkStaleOffline
      <3>1. \A p \in Peers : [peers[p] EXCEPT !.status = "offline"] \in PeerRow
        BY DEF PeerRow, InstanceStatus
      <3>2. peers' \in [Peers -> PeerRow]
        BY <2>5, <3>1 DEF MarkStaleOffline
      <3> QED BY <2>5, <3>2 DEF MarkStaleOffline
    <2> QED BY <1>1, <2>1, <2>2, <2>3, <2>4, <2>5 DEF Environment
  <1>2. ASSUME NEW w \in Workers, Tick(w) PROVE TypeOK' /\ RetriesRemain'
    <2>1. CASE SelectPeers(w)
      <3> DEFINE tick == [pc |-> "reset", fetched |-> {},
                          slots |-> [p \in Peers |-> IF Eligible(p)
                                       THEN compute_available_slots(p) ELSE 0]]
      <3>1. tick \in RunningTick
        BY DEF RunningTick, compute_available_slots, PeerRow
      <3>2. worker' = [worker EXCEPT ![w] = tick]
        BY <2>1 DEF SelectPeers
      <3>3. tick.fetched = {}
        OBVIOUS
      <3>4. UNCHANGED <<tasks, peers, transfer, delivered, held, faults>>
        BY <2>1 DEF SelectPeers
      <3> HIDE DEF tick
      <3> QED BY <3>1, <3>2, <3>3, <3>4
    <2>2. CASE ResetRetriable(w)
      <3>1. worker[w] # IdleWorker /\ worker[w] \in RunningTick
        BY <2>2, Records DEF ResetRetriable
      <3>2. worker' = [worker EXCEPT ![w].pc = "serve"]
        BY <2>2 DEF ResetRetriable
      <3>3. worker'[w] \in RunningTick /\ worker'[w].fetched = worker[w].fetched
        BY <3>1, <3>2 DEF RunningTick
      <3>4. \A t \in Tasks : /\ tasks'[t] \in TaskRow
                             /\ tasks'[t].status \in {"absent", "pending"} =>
                                   tasks'[t].retry < MaxRetries
        BY <2>2 DEF ResetRetriable, Retriable, TaskRow
      <3>5. tasks' \in [Tasks -> TaskRow]
        BY <2>2, <3>4 DEF ResetRetriable
      <3>6. UNCHANGED <<peers, transfer, delivered, held, faults>>
        BY <2>2 DEF ResetRetriable
      <3> QED BY <3>1, <3>2, <3>3, <3>4, <3>5, <3>6
    <2>3. ASSUME NEW p \in Peers, FetchTasks(w, p) PROVE TypeOK' /\ RetriesRemain'
      <3>1. worker[w] # IdleWorker /\ worker[w] \in RunningTick
        BY <2>3, Records DEF FetchTasks
      <3>2. PICK S \in SUBSET PendingFor(p) :
               worker' = [worker EXCEPT ![w].slots[p] = 0,
                  ![w].fetched = {[task |-> t, retry |-> tasks[t].retry] : t \in S}]
        BY <2>3 DEF FetchTasks
      <3> DEFINE new == {[task |-> t, retry |-> tasks[t].retry] : t \in S}
      <3>3. \A t \in S : t \in Tasks /\ tasks[t].status = "pending"
        BY DEF PendingFor
      <3>4. \A f \in new : f \in Fetched /\ f.retry < MaxRetries
        BY <3>3 DEF Fetched, TaskRow
      <3>5. p \in Peers
        BY <2>3
      <3> HIDE DEF new
      <3>n. new \in SUBSET Fetched
        BY <3>4
      <3>6. worker'[w] \in RunningTick /\ worker'[w].fetched = new
        <4>1. worker' = [worker EXCEPT ![w].slots[p] = 0, ![w].fetched = new]
          BY <3>2 DEF new
        <4>2. worker'[w] = [worker[w] EXCEPT !.slots = [worker[w].slots EXCEPT ![p] = 0],
                                             !.fetched = new]
          BY <4>1
        <4>3. [worker[w].slots EXCEPT ![p] = 0] \in [Peers -> Int]
          BY <3>1, <3>5 DEF RunningTick
        <4> QED BY <3>1, <3>n, <4>2, <4>3 DEF RunningTick
      <3>7. \A v \in Workers \ {w} : worker'[v] = worker[v]
        BY <3>2
      <3>8. DOMAIN worker' = Workers /\ worker' = [v \in Workers |-> worker'[v]]
        BY <3>2
      <3>9. UNCHANGED <<tasks, peers, transfer, delivered, held, faults>>
        BY <2>3 DEF FetchTasks
      <3> QED BY <3>4, <3>6, <3>7, <3>8, <3>9
    <2>4. CASE SkipPeer(w)
      <3>1. worker[w] # IdleWorker /\ worker[w] \in RunningTick
        BY <2>4, Records DEF SkipPeer
      <3>2. PICK p \in ToServe(w) : worker' = [worker EXCEPT ![w].slots[p] = 0]
        BY <2>4 DEF SkipPeer
      <3>3. worker'[w] \in RunningTick /\ worker'[w].fetched = worker[w].fetched
        BY <3>1, <3>2 DEF RunningTick, ToServe
      <3>4. UNCHANGED <<tasks, peers, transfer, delivered, held, faults>>
        BY <2>4 DEF SkipPeer
      <3> QED BY <3>1, <3>2, <3>3, <3>4
    <2>5. CASE CompleteFiltered(w)
      <3>1. worker[w] # IdleWorker /\ worker[w] \in RunningTick
        BY <2>5, Records DEF CompleteFiltered
      <3>2. PICK f \in worker[w].fetched :
               /\ tasks' = [tasks EXCEPT ![f.task].status = "completed"]
               /\ worker' = [worker EXCEPT ![w].fetched = @ \ {f}]
        BY <2>5 DEF CompleteFiltered
      <3>3. worker'[w] \in RunningTick /\ worker'[w].fetched \subseteq worker[w].fetched
        BY <3>1, <3>2 DEF RunningTick
      <3>4. UNCHANGED <<peers, transfer, delivered, held, faults>>
        BY <2>5 DEF CompleteFiltered
      <3>5. tasks' \in [Tasks -> TaskRow] /\ \A t \in Tasks :
               tasks'[t] = tasks[t] \/ tasks'[t].status = "completed"
        BY <3>2 DEF TaskRow
      <3> QED BY <3>1, <3>2, <3>3, <3>4, <3>5
    <2>6. CASE SpawnTransfer(w)
      <3>1. worker[w] # IdleWorker /\ worker[w] \in RunningTick
        BY <2>6, Records DEF SpawnTransfer
      <3>f. PICK f \in worker[w].fetched, x \in Transfers : \E endpoint \in Endpoints(f.task) :
               /\ transfer' = [transfer EXCEPT ![x] =
                    [pc |-> "start", by |-> w, task |-> f.task, retry |-> f.retry,
                     endpoint |-> endpoint]]
               /\ worker' = [worker EXCEPT ![w].fetched = @ \ {f}]
        BY <2>6 DEF SpawnTransfer
      <3>2. PICK endpoint \in Endpoints(f.task) :
               /\ transfer' = [transfer EXCEPT ![x] =
                    [pc |-> "start", by |-> w, task |-> f.task, retry |-> f.retry,
                     endpoint |-> endpoint]]
               /\ worker' = [worker EXCEPT ![w].fetched = @ \ {f}]
        BY <3>f
      <3>3. worker'[w] \in RunningTick /\ worker'[w].fetched \subseteq worker[w].fetched
        BY <3>1, <3>2 DEF RunningTick
      <3>4. f \in Fetched /\ f.retry < MaxRetries
        BY <3>1 DEF RunningTick
      <3>5. f.task \in Tasks /\ f.retry \in 0..MaxRetries
        BY <3>4 DEF Fetched
      <3>6. endpoint \in Peers
        BY <3>5, TaskFields DEF Endpoints, ScoredPeers
      <3>7. transfer'[x] \in ActiveTransfer /\ transfer'[x].retry < MaxRetries
        BY <3>2, <3>4, <3>5, <3>6 DEF ActiveTransfer
      <3>8. UNCHANGED <<tasks, peers, delivered, held, faults>>
        BY <2>6 DEF SpawnTransfer
      <3> QED BY <3>1, <3>2, <3>3, <3>7, <3>8
    <2>7. CASE EndTick(w)
      BY <2>7 DEF EndTick
    <2> QED BY <1>2, <2>1, <2>2, <2>3, <2>4, <2>5, <2>6, <2>7 DEF Tick
  <1>3. ASSUME NEW x \in Transfers, Transmit(x) PROVE TypeOK' /\ RetriesRemain'
    <2>0. transfer[x] # NoTransfer /\ transfer[x] \in ActiveTransfer
      BY <1>3, Records DEF Transmit, StartTransfer, CountTransfer, SendAccepted, SendFails,
         ChunkedInitLost, CompleteTask, ReleaseSlot, FailTask, PenalizePeer
    <2> DEFINE t == transfer[x].task
    <2>a. t \in Tasks /\ PeerOf(t) \in Peers /\ ArtifactOf(t) \in Artifacts
          /\ transfer[x].endpoint \in Peers /\ transfer[x].retry + 1 \in 0..MaxRetries
      BY <2>0, TaskFields DEF ActiveTransfer
    <2> HIDE DEF t
    <2>b. \A pc \in {"count", "send", "complete", "release", "fail", "penalize"} :
             /\ [transfer[x] EXCEPT !.pc = pc] \in ActiveTransfer
             /\ [transfer[x] EXCEPT !.pc = pc].retry = transfer[x].retry
      BY <2>0 DEF ActiveTransfer
    <2>1. CASE StartTransfer(x)
      <3>1. tasks' \in [Tasks -> TaskRow]
        BY <2>a, <2>1 DEF StartTransfer, TaskRow, t
      <3> QED BY <2>0, <2>b, <2>1, <3>1 DEF StartTransfer
    <2>2. CASE CountTransfer(x)
      <3>1. peers' \in [Peers -> PeerRow]
        BY <2>a, <2>2 DEF CountTransfer, TakeSlot, PeerRow, t
      <3> QED BY <2>0, <2>b, <2>2, <3>1 DEF CountTransfer
    <2>3. CASE SendAccepted(x) \/ SendFails(x)
      <3>1. delivered' \subseteq Peers \X Artifacts /\ held' \subseteq Peers \X Artifacts
        BY <2>a, <2>3 DEF SendAccepted, SendFails, PeerAccepts, t
      <3> QED BY <2>0, <2>b, <2>3, <3>1 DEF SendAccepted, SendFails
    <2>4. CASE ChunkedInitLost(x)
      BY <2>4 DEF ChunkedInitLost
    <2>5. CASE CompleteTask(x)
      <3>1. tasks' \in [Tasks -> TaskRow]
        BY <2>a, <2>5 DEF CompleteTask, TaskRow, t
      <3> QED BY <2>0, <2>b, <2>5, <3>1 DEF CompleteTask
    <2>6. CASE ReleaseSlot(x)
      BY <2>a, <2>6 DEF ReleaseSlot, OneLess, PeerRow, t
    <2>7. CASE FailTask(x)
      <3>1. tasks' \in [Tasks -> TaskRow]
        BY <2>0, <2>a, <2>7 DEF FailTask, TaskRow, t
      <3> QED BY <2>0, <2>b, <2>7, <3>1 DEF FailTask
    <2>8. CASE PenalizePeer(x)
      BY <2>a, <2>8 DEF PenalizePeer, OneLess, PeerRow, t
    <2> QED BY <1>3, <2>1, <2>2, <2>3, <2>4, <2>5, <2>6, <2>7, <2>8 DEF Transmit
  <1>4. ASSUME NEW w \in Workers, TickFails(w) PROVE TypeOK' /\ RetriesRemain'
    <2>1. worker[w] # IdleWorker /\ worker[w] \in RunningTick
      BY <1>4, Records DEF TickFails
    <2>2. UNCHANGED <<tasks, peers, transfer, delivered, held>> /\ faults' \in 0..MaxFaults
      BY <1>4 DEF TickFails
    <2>3. CASE worker' = [worker EXCEPT ![w] = IdleWorker]
      BY <2>2, <2>3
    <2>4. ASSUME NEW f \in worker[w].fetched, worker' = [worker EXCEPT ![w].fetched = @ \ {f}]
          PROVE  TypeOK' /\ RetriesRemain'
      <3>1. worker'[w] \in RunningTick /\ worker'[w].fetched \subseteq worker[w].fetched
        BY <2>1, <2>4 DEF RunningTick
      <3> QED BY <2>1, <2>2, <2>4, <3>1
    <2> QED BY <1>4, <2>3, <2>4 DEF TickFails
  <1>5. ASSUME NEW x \in Transfers, StatementFails(x) PROVE TypeOK' /\ RetriesRemain'
    <2>1. transfer[x] # NoTransfer /\ transfer[x] \in ActiveTransfer
      BY <1>5, Records DEF StatementFails
    <2>2. \A pc \in {"release", "penalize"} :
             /\ [transfer[x] EXCEPT !.pc = pc] \in ActiveTransfer
             /\ [transfer[x] EXCEPT !.pc = pc].retry = transfer[x].retry
      BY <2>1 DEF ActiveTransfer
    <2>3. UNCHANGED <<tasks, peers, worker, delivered, held>> /\ faults' \in 0..MaxFaults
      BY <1>5 DEF StatementFails
    <2>4. \/ transfer' = [transfer EXCEPT ![x] = NoTransfer]
          \/ \E pc \in {"release", "penalize"} : transfer' = [transfer EXCEPT ![x].pc = pc]
      BY <1>5 DEF StatementFails
    <2> QED BY <2>1, <2>2, <2>3, <2>4
  <1>6. ASSUME NEW w \in Workers, Crash(w) PROVE TypeOK' /\ RetriesRemain'
    <2>1. UNCHANGED <<tasks, peers, delivered, held>> /\ faults' \in 0..MaxFaults
      BY <1>6 DEF Crash
    <2>2. worker' = [worker EXCEPT ![w] = IdleWorker]
      BY <1>6 DEF Crash
    <2>3. \A x \in Transfers : transfer'[x] \in {NoTransfer, transfer[x]}
      BY <1>6 DEF Crash
    <2>4. transfer' \in [Transfers -> {NoTransfer} \cup ActiveTransfer]
      BY <1>6, <2>3 DEF Crash
    <2> QED BY <2>1, <2>2, <2>3, <2>4
  <1>7. CASE UNCHANGED vars
    BY <1>7 DEF vars
  <1> QED BY <1>1, <1>2, <1>3, <1>4, <1>5, <1>6, <1>7 DEF Next

-----------------------------------------------------------------------------
(* What a step can do to the tasks that matter for delivery.               *)
Marked(t) == tasks[t].status = "completed"

(* Delivery is preserved by a step that forgets no delivery, leaves every  *)
(* other transfer as it is or ends it, and marks a task completed only     *)
(* from the filter or from a transfer whose push was accepted.             *)
LEMMA DeliveryKept ==
    ASSUME SyncInv,
           delivered \subseteq delivered',
           \A t \in Tasks : Marked(t)' =>
               \/ Marked(t)
               \/ <<PeerOf(t), ArtifactOf(t)>> \in Filtered
               \/ \E x \in Transfers : /\ transfer[x] # NoTransfer
                                       /\ transfer[x].pc = "complete"
                                       /\ transfer[x].task = t
    PROVE  CompletedPushesWereDelivered'
  <1> SUFFICES ASSUME NEW p \in Peers, NEW a \in Artifacts,
                      <<p, a, "push">> \in Tasks, Marked(<<p, a, "push">>)'
               PROVE  \/ <<p, a>> \in delivered' \cup Filtered
                      \/ \E q \in Peers : <<q, a>> \in Scored
    BY DEF CompletedPushesWereDelivered, Marked
  <1> DEFINE t == <<p, a, "push">>
  <1>1. PeerOf(t) = p /\ ArtifactOf(t) = a /\ TypeOf(t) = "push"
    BY DEF PeerOf, ArtifactOf, TypeOf
  <1>2. CASE Marked(t)
    BY <1>2 DEF SyncInv, CompletedPushesWereDelivered, Marked
  <1>3. CASE <<PeerOf(t), ArtifactOf(t)>> \in Filtered
    BY <1>1, <1>3
  <1>4. ASSUME NEW x \in Transfers, transfer[x] # NoTransfer,
               transfer[x].pc = "complete", transfer[x].task = t
        PROVE  \/ <<p, a>> \in delivered'
               \/ \E q \in Peers : <<q, a>> \in Scored
    <2>1. Aimed(x)
      BY <1>4 DEF SyncInv
    <2>2. <<transfer[x].endpoint, a>> \in delivered
      BY <1>1, <1>4, <2>1 DEF Aimed
    <2>3. transfer[x].endpoint = p \/ \E q \in Peers : <<q, a>> \in Scored
      BY <1>1, <1>4, <2>1 DEF Aimed
    <2> QED BY <2>2, <2>3
  <1> QED BY <1>2, <1>3, <1>4

LEMMA SyncStep == SyncInv /\ [Next]_vars => SyncInv'
  <1> SUFFICES ASSUME SyncInv, [Next]_vars PROVE SyncInv'
    OBVIOUS
  <1>0. TypeOK' /\ RetriesRemain'
    BY TypeStep DEF SyncInv
  <1>r. TypeOK
    BY DEF SyncInv
  <1> DEFINE Target == /\ \A x \in Transfers : transfer'[x] # NoTransfer => Aimed(x)'
                       /\ CompletedPushesWereDelivered'
  <1> SUFFICES Target
    BY <1>0 DEF SyncInv
  <1>1. ASSUME UNCHANGED <<transfer, delivered>>,
               \A t \in Tasks : Marked(t)' =>
                  Marked(t) \/ <<PeerOf(t), ArtifactOf(t)>> \in Filtered
        PROVE  Target
    BY <1>1, DeliveryKept DEF SyncInv, Aimed
  <1>2. CASE Environment
    <2>1. UNCHANGED <<transfer, delivered>>
      BY <1>2 DEF Environment, QueuePush, QueueDeletes, Heartbeat, TriggerSync, FallSilent,
         BackoffExpires, MarkStaleOffline
    <2>2. \A t \in Tasks : Marked(t)' => Marked(t)
      BY <1>2, <1>r DEF Environment, QueuePush, QueueDeletes, Heartbeat, TriggerSync, FallSilent,
         BackoffExpires, MarkStaleOffline, QueueTask, Marked, TypeOK, TaskRow
    <2> QED BY <1>1, <2>1, <2>2
  <1>3. ASSUME NEW w \in Workers, Tick(w) PROVE Target
    <2>1. CASE \/ SelectPeers(w) \/ (\E p \in Peers : FetchTasks(w, p))
              \/ SkipPeer(w) \/ EndTick(w)
      <3>1. UNCHANGED <<tasks, transfer, delivered>>
        BY <2>1 DEF SelectPeers, FetchTasks, SkipPeer, EndTick
      <3> QED BY <1>1, <3>1 DEF Marked
    <2>2. CASE ResetRetriable(w)
      <3>1. UNCHANGED <<transfer, delivered>> /\ \A t \in Tasks : Marked(t)' => Marked(t)
        BY <2>2, <1>r DEF ResetRetriable, Marked, TypeOK, TaskRow
      <3> QED BY <1>1, <3>1
    <2>3. CASE CompleteFiltered(w)
      <3>1. PICK f \in worker[w].fetched :
               /\ ~MatchesReplicationFilter(f.task)
               /\ tasks' = [tasks EXCEPT ![f.task].status = "completed"]
        BY <2>3 DEF CompleteFiltered
      <3>2. \A t \in Tasks : Marked(t)' =>
               Marked(t) \/ <<PeerOf(t), ArtifactOf(t)>> \in Filtered
        BY <3>1, <1>r DEF Marked, MatchesReplicationFilter, TypeOK
      <3> QED BY <1>1, <2>3, <3>2 DEF CompleteFiltered
    <2>4. CASE SpawnTransfer(w)
      <3>1. PICK f \in worker[w].fetched, x \in Transfers : \E endpoint \in Endpoints(f.task) :
               transfer' = [transfer EXCEPT ![x] =
                    [pc |-> "start", by |-> w, task |-> f.task, retry |-> f.retry,
                     endpoint |-> endpoint]]
        BY <2>4 DEF SpawnTransfer
      <3>2. PICK endpoint \in Endpoints(f.task) :
               transfer' = [transfer EXCEPT ![x] =
                    [pc |-> "start", by |-> w, task |-> f.task, retry |-> f.retry,
                     endpoint |-> endpoint]]
        BY <3>1
      <3>3. UNCHANGED <<tasks, delivered>>
        BY <2>4 DEF SpawnTransfer
      <3>4. /\ transfer'[x].pc = "start"
            /\ transfer'[x].task = f.task
            /\ transfer'[x].endpoint = endpoint
        BY <3>2, <1>r DEF TypeOK
      <3>5. endpoint = PeerOf(f.task) \/ \E q \in Peers : <<q, ArtifactOf(f.task)>> \in Scored
        BY DEF Endpoints, ScoredPeers
      <3>6. Aimed(x)'
        BY <3>4, <3>5 DEF Aimed
      <3>7. \A y \in Transfers \ {x} : transfer'[y] = transfer[y]
        BY <3>2, <1>r DEF TypeOK
      <3>8. \A y \in Transfers \ {x} : transfer'[y] # NoTransfer => Aimed(y)'
        BY <3>3, <3>7 DEF SyncInv, Aimed
      <3> QED BY <3>3, <3>6, <3>8, DeliveryKept DEF Marked
    <2> QED BY <1>3, <2>1, <2>2, <2>3, <2>4 DEF Tick
  <1>4. ASSUME NEW x \in Transfers, Transmit(x) PROVE Target
    <2>0. transfer[x] # NoTransfer /\ transfer[x] \in ActiveTransfer
      BY <1>4, <1>r, Records DEF Transmit, StartTransfer, CountTransfer, SendAccepted, SendFails,
         ChunkedInitLost, CompleteTask, ReleaseSlot, FailTask, PenalizePeer
    <2>1. \A y \in Transfers \ {x} : transfer'[y] = transfer[y]
      BY <1>4, <1>r DEF TypeOK, Transmit, StartTransfer, CountTransfer, SendAccepted, SendFails,
         ChunkedInitLost, CompleteTask, ReleaseSlot, FailTask, PenalizePeer
    <2>2. delivered \subseteq delivered'
      BY <1>4 DEF Transmit, StartTransfer, CountTransfer, SendAccepted, SendFails, PeerAccepts,
         ChunkedInitLost, CompleteTask, ReleaseSlot, FailTask, PenalizePeer
    <2>3. \A y \in Transfers \ {x} : transfer'[y] # NoTransfer => Aimed(y)'
      BY <2>1, <2>2 DEF SyncInv, Aimed
    <2>4. \A pc \in {"count", "send", "complete", "release", "fail", "penalize"} :
             transfer' = [transfer EXCEPT ![x].pc = pc] =>
                /\ transfer'[x].pc = pc
                /\ transfer'[x].task = transfer[x].task
                /\ transfer'[x].endpoint = transfer[x].endpoint
      BY <2>0, <1>r DEF TypeOK, ActiveTransfer
    <2>5. Aimed(x)
      BY <2>0 DEF SyncInv
    <2>6. transfer'[x] # NoTransfer => Aimed(x)'
      <3>1. CASE ChunkedInitLost(x) \/ ReleaseSlot(x) \/ PenalizePeer(x)
        BY <3>1, <1>r DEF ChunkedInitLost, ReleaseSlot, PenalizePeer, TypeOK
      <3>2. CASE StartTransfer(x) \/ CountTransfer(x) \/ SendFails(x) \/ CompleteTask(x)
                 \/ FailTask(x)
        <4>1. \E pc \in {"count", "send", "release", "fail", "penalize"} :
                 transfer' = [transfer EXCEPT ![x].pc = pc]
          BY <3>2 DEF StartTransfer, CountTransfer, SendFails, CompleteTask, FailTask
        <4> QED BY <2>4, <2>5, <4>1 DEF Aimed
      <3>3. CASE SendAccepted(x)
        <4>1. transfer' = [transfer EXCEPT ![x].pc = "complete"]
          BY <3>3 DEF SendAccepted
        <4>2. TypeOf(transfer[x].task) = "push" =>
                 <<transfer[x].endpoint, ArtifactOf(transfer[x].task)>> \in delivered'
          BY <3>3 DEF SendAccepted, PeerAccepts
        <4> QED BY <2>4, <2>5, <4>1, <4>2 DEF Aimed
      <3> QED BY <1>4, <3>1, <3>2, <3>3 DEF Transmit
    <2>7. \A t \in Tasks : Marked(t)' =>
             Marked(t) \/ (transfer[x].pc = "complete" /\ transfer[x].task = t)
      <3>1. CASE CountTransfer(x) \/ SendAccepted(x) \/ SendFails(x) \/ ChunkedInitLost(x)
                 \/ ReleaseSlot(x) \/ PenalizePeer(x)
        BY <3>1 DEF CountTransfer, SendAccepted, SendFails, ChunkedInitLost, ReleaseSlot,
           PenalizePeer, Marked
      <3>2. CASE StartTransfer(x) \/ FailTask(x)
        BY <3>2, <1>r DEF StartTransfer, FailTask, Marked, TypeOK, TaskRow
      <3>3. CASE CompleteTask(x)
        BY <3>3, <1>r DEF CompleteTask, Marked, TypeOK
      <3> QED BY <1>4, <3>1, <3>2, <3>3 DEF Transmit
    <2> QED BY <2>0, <2>2, <2>3, <2>6, <2>7, DeliveryKept
  <1>5. ASSUME NEW w \in Workers, TickFails(w) PROVE Target
    BY <1>1, <1>5 DEF TickFails, Marked
  <1>6. ASSUME NEW x \in Transfers, StatementFails(x) PROVE Target
    <2>0. transfer[x] # NoTransfer /\ transfer[x] \in ActiveTransfer
      BY <1>6, <1>r, Records DEF StatementFails
    <2>1. UNCHANGED <<tasks, delivered>>
      BY <1>6 DEF StatementFails
    <2>2. \A y \in Transfers \ {x} : transfer'[y] = transfer[y]
      BY <1>6, <1>r DEF StatementFails, TypeOK
    <2>3. \/ transfer'[x] = NoTransfer
          \/ /\ transfer'[x].pc \in {"release", "penalize"}
             /\ transfer'[x].task = transfer[x].task
             /\ transfer'[x].endpoint = transfer[x].endpoint
      BY <1>6, <1>r, <2>0 DEF StatementFails, TypeOK, ActiveTransfer
    <2>4. transfer'[x] # NoTransfer => Aimed(x)'
      BY <2>0, <2>3 DEF SyncInv, Aimed
    <2>5. \A y \in Transfers \ {x} : transfer'[y] # NoTransfer => Aimed(y)'
      BY <2>1, <2>2 DEF SyncInv, Aimed
    <2> QED BY <2>1, <2>4, <2>5, DeliveryKept DEF Marked
  <1>7. ASSUME NEW w \in Workers, Crash(w) PROVE Target
    <2>1. UNCHANGED <<tasks, delivered>>
      BY <1>7 DEF Crash
    <2>2. \A x \in Transfers : transfer'[x] \in {NoTransfer, transfer[x]}
      BY <1>7 DEF Crash
    <2> QED BY <2>1, <2>2, DeliveryKept DEF SyncInv, Aimed, Marked
  <1>8. CASE UNCHANGED vars
    BY <1>1, <1>8 DEF vars, Marked
  <1> QED BY <1>2, <1>3, <1>4, <1>5, <1>6, <1>7, <1>8 DEF Next

LEMMA SyncInit == Init => SyncInv
  <1> SUFFICES ASSUME Init PROVE SyncInv
    OBVIOUS
  <1> USE DEF Init
  <1>1. TypeOK
    BY LimitsAssumption DEF TypeOK, TaskRow, PeerRow, InstanceStatus
  <1>2. RetriesRemain
    BY LimitsAssumption DEF RetriesRemain
  <1>3. CompletedPushesWereDelivered
    BY DEF CompletedPushesWereDelivered
  <1> QED BY <1>1, <1>2, <1>3 DEF SyncInv

LEMMA SyncInvariant == Spec => []SyncInv
  <1>1. SyncInv /\ [Next]_vars => SyncInv'
    BY SyncStep
  <1> QED BY <1>1, SyncInit, PTL DEF Spec

(* Whatever ticks, duplicate dispatches, lost updates of the retry count,  *)
(* crashes and failed statements happen, every row and transfer keeps its  *)
(* type; in particular handle_transfer_failure never pushes retry_count    *)
(* past max_retries and active_transfers never goes negative.              *)
THEOREM TypeCorrect == Spec => []TypeOK
  <1>1. SyncInv => TypeOK
    BY DEF SyncInv
  <1> QED BY <1>1, SyncInvariant, PTL

(* A push that sync_tasks records as completed has been accepted by the    *)
(* peer it was queued for, except where matches_replication_filter held it *)
(* back or scored peer selection applies to its artifact.                  *)
THEOREM DeliveredPushes == Spec => []CompletedPushesWereDelivered
  <1>1. SyncInv => CompletedPushesWereDelivered
    BY DEF SyncInv
  <1> QED BY <1>1, SyncInvariant, PTL

-----------------------------------------------------------------------------
LEMMA HoldersFinite ==
    ASSUME NEW p
    PROVE  /\ IsFiniteSet(SlotHolders(p)) /\ Cardinality(SlotHolders(p)) \in Nat
           /\ IsFiniteSet(SlotHolders(p)') /\ Cardinality(SlotHolders(p)') \in Nat
  <1>1. SlotHolders(p) \in SUBSET Transfers /\ SlotHolders(p)' \in SUBSET Transfers
    BY DEF SlotHolders
  <1> HIDE DEF SlotHolders
  <1> QED BY <1>1, TransfersAssumption, FS_Subset, FS_CardinalityType

(* A step that neither counts nor uncounts a transfer, nor lets a transfer *)
(* hold a slot that did not, loses the slots of those that no longer do.   *)
LEMMA NoNewHolder ==
    ASSUME TypeOK, NEW p \in Peers, peers'[p].active = peers[p].active,
           \A x \in Transfers : HoldsSlot(x, p)' => HoldsSlot(x, p)
    PROVE  /\ LostSlots(p)' >= LostSlots(p)
           /\ (\A x \in Transfers : HoldsSlot(x, p) => HoldsSlot(x, p)') =>
                 LostSlots(p)' = LostSlots(p)
  <1>1. SlotHolders(p)' \in SUBSET SlotHolders(p)
    BY DEF SlotHolders
  <1>2. Cardinality(SlotHolders(p)') <= Cardinality(SlotHolders(p))
    BY <1>1, HoldersFinite, FS_Subset
  <1>3. peers[p].active \in Nat
    BY DEF TypeOK, PeerRow
  <1>4. ASSUME \A x \in Transfers : HoldsSlot(x, p) => HoldsSlot(x, p)'
        PROVE  SlotHolders(p)' = SlotHolders(p)
    BY <1>1, <1>4 DEF SlotHolders
  <1> QED BY <1>2, <1>3, <1>4, HoldersFinite DEF LostSlots

(* active_transfers + 1 with the first step that holds a slot.             *)
LEMMA SlotTaken ==
    ASSUME TypeOK, NEW x \in Transfers, CountTransfer(x), NEW p \in Peers
    PROVE  LostSlots(p)' = LostSlots(p)
  <1>1. transfer[x] \in ActiveTransfer /\ transfer[x].pc = "count"
    BY Records DEF CountTransfer
  <1>2. PeerOf(transfer[x].task) \in Peers
    BY <1>1, TaskFields DEF ActiveTransfer
  <1>3. /\ \A y \in Transfers \ {x} : transfer'[y] = transfer[y]
        /\ transfer'[x].pc = "send" /\ transfer'[x].task = transfer[x].task
    BY <1>1 DEF CountTransfer, TypeOK, ActiveTransfer
  <1>4. peers[p] \in PeerRow /\ peers[p].active \in Nat
    BY DEF TypeOK, PeerRow
  <1>5. CASE p = PeerOf(transfer[x].task)
    <2>1. peers'[p].active = peers[p].active + 1
      BY <1>2, <1>4, <1>5 DEF CountTransfer, TakeSlot, TypeOK, PeerRow
    <2>2. SlotHolders(p)' = SlotHolders(p) \cup {x} /\ x \notin SlotHolders(p)
      BY <1>1, <1>3, <1>5 DEF SlotHolders, HoldsSlot
    <2>3. Cardinality(SlotHolders(p)') = Cardinality(SlotHolders(p)) + 1
      BY <2>2, HoldersFinite, FS_AddElement
    <2> QED BY <1>4, <2>1, <2>3, HoldersFinite DEF LostSlots
  <1>6. CASE p # PeerOf(transfer[x].task)
    <2>1. peers'[p] = peers[p]
      BY <1>6 DEF CountTransfer, TakeSlot, TypeOK
    <2>2. SlotHolders(p)' = SlotHolders(p)
      BY <1>1, <1>3, <1>6 DEF SlotHolders, HoldsSlot
    <2> QED BY <2>1, <2>2 DEF LostSlots
  <1> QED BY <1>5, <1>6

(* GREATEST(active_transfers - 1, 0) with the last step that holds it: the *)
(* count is not zero then, so the GREATEST never hides a decrement.        *)
LEMMA SlotReleased ==
    ASSUME TypeOK, SlotsCoverTransfers, NEW x \in Transfers, ReleaseSlot(x) \/ PenalizePeer(x),
           NEW p \in Peers
    PROVE  LostSlots(p)' = LostSlots(p)
  <1>1. transfer[x] \in ActiveTransfer /\ transfer[x].pc \in {"release", "penalize"}
    BY Records DEF ReleaseSlot, PenalizePeer
  <1>2. PeerOf(transfer[x].task) \in Peers
    BY <1>1, TaskFields DEF ActiveTransfer
  <1>3. transfer'[x].pc = "none" /\ \A y \in Transfers \ {x} : transfer'[y] = transfer[y]
    BY DEF ReleaseSlot, PenalizePeer, NoTransfer, TypeOK
  <1>4. peers[p] \in PeerRow /\ peers[p].active \in Nat
    BY DEF TypeOK, PeerRow
  <1>5. SlotHolders(p)' = SlotHolders(p) \ {x}
    BY <1>3 DEF SlotHolders, HoldsSlot
  <1>6. Cardinality(SlotHolders(p)') =
           IF x \in SlotHolders(p) THEN Cardinality(SlotHolders(p)) - 1
                                   ELSE Cardinality(SlotHolders(p))
    BY <1>5, HoldersFinite, FS_RemoveElement
  <1>7. CASE p = PeerOf(transfer[x].task)
    <2>1. x \in SlotHolders(p)
      BY <1>1, <1>7 DEF SlotHolders, HoldsSlot
    <2>2. Cardinality(SlotHolders(p)) # 0
      BY <2>1, HoldersFinite, FS_EmptySet
    <2>3. peers[p].active > 0
      BY <1>4, <2>2, HoldersFinite DEF SlotsCoverTransfers
    <2>4. peers'[p].active = OneLess(peers[p].active)
      <3>1. CASE ReleaseSlot(x)
        BY <1>2, <1>4, <1>7, <3>1 DEF ReleaseSlot, TypeOK, PeerRow
      <3>2. CASE PenalizePeer(x)
        BY <1>2, <1>4, <1>7, <3>2 DEF PenalizePeer, TypeOK, PeerRow
      <3> QED BY <3>1, <3>2
    <2> QED BY <1>4, <1>6, <2>1, <2>3, <2>4, HoldersFinite DEF LostSlots, OneLess
  <1>8. CASE p # PeerOf(transfer[x].task)
    <2>1. peers'[p] = peers[p]
      BY <1>8 DEF ReleaseSlot, PenalizePeer, TypeOK
    <2>2. x \notin SlotHolders(p)
      BY <1>8 DEF SlotHolders, HoldsSlot
    <2> QED BY <1>6, <2>1, <2>2 DEF LostSlots
  <1> QED BY <1>7, <1>8

(* What a step does to the lost slots of p.                                *)
LostOnlyByFault(p) ==
    /\ LostSlots(p)' >= LostSlots(p)
    /\ LostSlots(p)' # LostSlots(p) => faults' # faults \/ \E x \in Transfers : ChunkedInitLost(x)

LEMMA LostSlotsStep ==
    ASSUME TypeOK, SlotsCoverTransfers, [Next]_vars, NEW p \in Peers
    PROVE  LostOnlyByFault(p)
  <1>1. LostSlots(p) \in Int
    BY HoldersFinite DEF LostSlots, TypeOK, PeerRow
  <1>2. ASSUME peers'[p].active = peers[p].active,
               \A x \in Transfers : HoldsSlot(x, p)' <=> HoldsSlot(x, p)
        PROVE  LostOnlyByFault(p)
    BY <1>1, <1>2, NoNewHolder DEF LostOnlyByFault
  <1>3. ASSUME LostSlots(p)' = LostSlots(p) PROVE LostOnlyByFault(p)
    BY <1>1, <1>3 DEF LostOnlyByFault
  <1>4. CASE Environment
    <2>1. UNCHANGED transfer
      BY <1>4 DEF Environment, QueuePush, QueueDeletes, Heartbeat, TriggerSync, FallSilent,
         BackoffExpires, MarkStaleOffline
    <2>2. peers'[p].active = peers[p].active
      <3>1. peers[p] \in PeerRow
        BY DEF TypeOK
      <3>2. CASE MarkStaleOffline
        BY <3>1, <3>2 DEF MarkStaleOffline, PeerRow
      <3>3. ASSUME NEW q \in Peers, NEW status, Heartbeat(q, status)
            PROVE  peers'[p].active = peers[p].active
        BY <3>1, <3>3 DEF Heartbeat, TypeOK, PeerRow
      <3>4. ASSUME NEW q \in Peers, TriggerSync(q) \/ FallSilent(q) \/ BackoffExpires(q)
            PROVE  peers'[p].active = peers[p].active
        BY <3>1, <3>4 DEF TriggerSync, FallSilent, BackoffExpires, TypeOK, PeerRow
      <3>5. CASE UNCHANGED peers
        BY <3>5
      <3> QED BY <1>4, <3>2, <3>3, <3>4, <3>5 DEF Environment, QueuePush, QueueDeletes
    <2> QED BY <1>2, <2>1, <2>2 DEF HoldsSlot
  <1>5. ASSUME NEW w \in Workers, Tick(w) \/ TickFails(w) PROVE LostOnlyByFault(p)
    <2>1. UNCHANGED peers
      BY <1>5 DEF Tick, SelectPeers, ResetRetriable, FetchTasks, SkipPeer, CompleteFiltered,
         SpawnTransfer, EndTick, TickFails
    <2>2. \A y \in Transfers : \/ transfer'[y] = transfer[y]
                               \/ transfer[y].pc = "none" /\ transfer'[y].pc = "start"
      <3>1. CASE SpawnTransfer(w)
        BY <3>1 DEF SpawnTransfer, TypeOK, NoTransfer
      <3>2. CASE ~SpawnTransfer(w)
        BY <1>5, <3>2 DEF Tick, SelectPeers, ResetRetriable, FetchTasks, SkipPeer,
           CompleteFiltered, EndTick, TickFails
      <3> QED BY <3>1, <3>2
    <2> QED BY <1>2, <2>1, <2>2 DEF HoldsSlot
  <1>6. ASSUME NEW w \in Workers, Crash(w) PROVE LostOnlyByFault(p)
    <2>1. /\ UNCHANGED peers
          /\ \A y \in Transfers : transfer'[y] = transfer[y] \/ transfer'[y].pc = "none"
      BY <1>6 DEF Crash, NoTransfer
    <2>2. faults' # faults
      BY <1>6, LimitsAssumption DEF Crash, TypeOK
    <2>3. \A x \in Transfers : HoldsSlot(x, p)' => HoldsSlot(x, p)
      BY <2>1 DEF HoldsSlot
    <2> QED BY <2>1, <2>2, <2>3, NoNewHolder DEF LostOnlyByFault
  <1>7. ASSUME NEW x \in Transfers, StatementFails(x) \/ ChunkedInitLost(x)
        PROVE  LostOnlyByFault(p)
    <2>1. transfer[x].pc # "none" /\ transfer[x] \in ActiveTransfer
      BY <1>7, Records DEF StatementFails, ChunkedInitLost
    <2>2. UNCHANGED peers /\ \A y \in Transfers \ {x} : transfer'[y] = transfer[y]
      BY <1>7 DEF StatementFails, ChunkedInitLost, TypeOK
    <2>3. faults' # faults \/ ChunkedInitLost(x)
      BY <1>7, LimitsAssumption DEF StatementFails, TypeOK
    <2>4. \/ transfer'[x].pc = "none"
          \/ /\ transfer[x].pc \in {"complete", "fail"}
             /\ transfer'[x].task = transfer[x].task
      BY <1>7, <2>1 DEF StatementFails, ChunkedInitLost, NoTransfer, TypeOK, ActiveTransfer
    <2>5. \A y \in Transfers : HoldsSlot(y, p)' => HoldsSlot(y, p)
      BY <2>2, <2>4 DEF HoldsSlot
    <2> QED BY <2>2, <2>3, <2>5, NoNewHolder DEF LostOnlyByFault
  <1>8. ASSUME NEW x \in Transfers, CountTransfer(x) \/ ReleaseSlot(x) \/ PenalizePeer(x)
        PROVE  LostOnlyByFault(p)
    BY <1>3, <1>8, SlotTaken, SlotReleased
  <1>9. ASSUME NEW x \in Transfers, \/ StartTransfer(x) \/ SendAccepted(x) \/ SendFails(x)
                                    \/ CompleteTask(x) \/ FailTask(x)
        PROVE  LostOnlyByFault(p)
    <2>1. transfer[x].pc # "none" /\ transfer[x] \in ActiveTransfer
      BY <1>9, Records DEF StartTransfer, SendAccepted, SendFails, CompleteTask, FailTask
    <2>2. UNCHANGED peers /\ \A y \in Transfers \ {x} : transfer'[y] = transfer[y]
      BY <1>9 DEF StartTransfer, SendAccepted, SendFails, CompleteTask, FailTask, TypeOK
    <2>3. ASSUME NEW pc \in {"count", "complete", "release", "fail", "penalize"},
                 transfer' = [transfer EXCEPT ![x].pc = pc]
          PROVE  transfer'[x].pc = pc /\ transfer'[x].task = transfer[x].task
      BY <2>1, <2>3 DEF TypeOK, ActiveTransfer
    <2>4. CASE StartTransfer(x)
      BY <1>2, <2>2, <2>3, <2>4 DEF StartTransfer, HoldsSlot
    <2>5. CASE SendAccepted(x) \/ SendFails(x)
      BY <1>2, <2>2, <2>3, <2>5 DEF SendAccepted, SendFails, HoldsSlot
    <2>6. CASE CompleteTask(x) \/ FailTask(x)
      BY <1>2, <2>2, <2>3, <2>6 DEF CompleteTask, FailTask, HoldsSlot
    <2> QED BY <1>9, <2>4, <2>5, <2>6
  <1>10. CASE UNCHANGED vars
    BY <1>2, <1>10 DEF vars, HoldsSlot
  <1> QED BY <1>4, <1>5, <1>6, <1>7, <1>8, <1>9, <1>10 DEF Next, Transmit

LEMMA CoverMeansNoneMissing ==
    ASSUME TypeOK
    PROVE  SlotsCoverTransfers <=> \A p \in Peers : LostSlots(p) >= 0
  BY HoldersFinite DEF SlotsCoverTransfers, LostSlots, TypeOK, PeerRow

(* Every transfer past its increment of active_transfers is counted, for   *)
(* any interleaving of replicas, lost statements and crashes: counts are   *)
(* leaked, never taken twice.                                              *)
THEOREM SlotsCovered == Spec => []SlotsCoverTransfers
  <1>1. Init => SlotsCoverTransfers
    <2> SUFFICES ASSUME Init, NEW p \in Peers
                 PROVE  Cardinality(SlotHolders(p)) <= peers[p].active
      BY DEF SlotsCoverTransfers
    <2>1. SlotHolders(p) = {}
      BY DEF Init, NoTransfer, SlotHolders, HoldsSlot
    <2> QED BY <2>1, FS_EmptySet DEF Init
  <1>2. TypeOK /\ TypeOK' /\ SlotsCoverTransfers /\ [Next]_vars => SlotsCoverTransfers'
    <2> SUFFICES ASSUME TypeOK, TypeOK', SlotsCoverTransfers, [Next]_vars
                 PROVE  SlotsCoverTransfers'
      OBVIOUS
    <2> SUFFICES ASSUME NEW p \in Peers
                 PROVE  Cardinality(SlotHolders(p)') <= peers'[p].active
      BY DEF SlotsCoverTransfers
    <2>1. LostSlots(p)' >= LostSlots(p) /\ LostSlots(p) >= 0
      BY LostSlotsStep, CoverMeansNoneMissing DEF LostOnlyByFault
    <2>2. peers[p].active \in Nat /\ peers'[p].active \in Nat
      BY DEF TypeOK, PeerRow
    <2> QED BY <2>1, <2>2, HoldersFinite DEF LostSlots
  <1> QED BY <1>1, <1>2, TypeCorrect, PTL DEF Spec

(* The excess of active_transfers over the transfers under way never       *)
(* shrinks, and grows only by a crash, a failed statement or the return of *)
(* execute_chunked_transfer past handle_transfer_failure.                  *)
THEOREM LostSlotsExplained == Spec => SlotsLeakOnlyByFaults
  <1>1. TypeOK /\ TypeOK' /\ SlotsCoverTransfers /\ [Next]_vars =>
          [\A p \in Peers : LostSlots(p)' # LostSlots(p) =>
              /\ LostSlots(p)' > LostSlots(p)
              /\ faults' # faults \/ \E x \in Transfers : ChunkedInitLost(x)]_vars
    <2> SUFFICES ASSUME TypeOK, TypeOK', SlotsCoverTransfers, [Next]_vars, NEW p \in Peers,
                        LostSlots(p)' # LostSlots(p)
                 PROVE  /\ LostSlots(p)' > LostSlots(p)
                        /\ faults' # faults \/ \E x \in Transfers : ChunkedInitLost(x)
      OBVIOUS
    <2>1. LostSlots(p) \in Int
      BY HoldersFinite DEF LostSlots, TypeOK, PeerRow
    <2>2. LostSlots(p)' \in Int
      BY HoldersFinite DEF LostSlots, TypeOK, PeerRow
    <2> QED BY <2>1, <2>2, LostSlotsStep DEF LostOnlyByFault
  <1> QED BY <1>1, SlotsCovered, TypeCorrect, PTL DEF Spec, SlotsLeakOnlyByFaults

(* The peers with a completed push have the artifact, as the sync policies *)
(* assume, where no replication filter and no scored peer is configured.   *)
THEOREM UnscoredPushesArrive ==
    ASSUME Scored = {}, Filtered = {}
    PROVE  Spec => []CompletedPushIsAtItsPeer
  <1>1. CompletedPushesWereDelivered => CompletedPushIsAtItsPeer
    BY DEF CompletedPushesWereDelivered, CompletedPushIsAtItsPeer
  <1> QED BY <1>1, DeliveredPushes, PTL
-----------------------------------------------------------------------------
(* No tick reads the peers while another tick is under way, or while a     *)
(* spawned transfer has not yet counted itself.                            *)
TicksTakeTurns ==
    \A w \in Workers : SelectPeers(w) =>
        /\ \A v \in Workers : worker[v] = IdleWorker
        /\ \A x \in Transfers : transfer[x].pc \notin {"start", "count"}

(* Then the slots a tick works with cover the transfers of the peer that   *)
(* it or an earlier tick has spawned, counted or not, the tasks it has     *)
(* fetched for the peer and those it is still going to fetch.              *)
Spawned(x, p) == transfer[x] # NoTransfer /\ PeerOf(transfer[x].task) = p
Engaged(p) == {x \in Transfers : Spawned(x, p)}
For(fetched, p) == {f \in fetched : PeerOf(f.task) = p}
Open(slots) == IF slots > 0 THEN slots ELSE 0
Claimed(tick, p) == IF tick = IdleWorker THEN 0
                    ELSE Cardinality(For(tick.fetched, p)) + Open(tick.slots[p])

FiniteTick(tick) == tick # IdleWorker => IsFiniteSet(tick.fetched)

LoneTick == \A v, w \in Workers : worker[v] # IdleWorker /\ worker[w] # IdleWorker => v = w

Budgeted(p) ==
    /\ Cardinality(Engaged(p)) <= Limit
    /\ \A w \in Workers : Cardinality(Engaged(p)) + Claimed(worker[w], p) <= Limit

BudgetInv ==
    /\ LoneTick
    /\ \A w \in Workers : FiniteTick(worker[w])
    /\ \A p \in Peers : Budgeted(p)

LEMMA EngagedFinite ==
    ASSUME NEW p
    PROVE  /\ IsFiniteSet(Engaged(p)) /\ Cardinality(Engaged(p)) \in Nat
           /\ IsFiniteSet(Engaged(p)') /\ Cardinality(Engaged(p)') \in Nat
  <1>1. Engaged(p) \in SUBSET Transfers /\ Engaged(p)' \in SUBSET Transfers
    BY DEF Engaged
  <1> HIDE DEF Engaged
  <1> QED BY <1>1, TransfersAssumption, FS_Subset, FS_CardinalityType

(* What a tick claims of a peer is a number of slots.                      *)
LEMMA ClaimsAreNumbers ==
    ASSUME NEW tick \in {IdleWorker} \cup RunningTick, FiniteTick(tick), NEW p \in Peers
    PROVE  Claimed(tick, p) \in Nat
  <1>1. CASE tick = IdleWorker
    BY <1>1 DEF Claimed
  <1>2. CASE tick # IdleWorker
    <2>1. tick.slots[p] \in Int /\ IsFiniteSet(tick.fetched)
      BY <1>2 DEF RunningTick, FiniteTick
    <2>2. For(tick.fetched, p) \in SUBSET tick.fetched
      BY DEF For
    <2>3. Cardinality(For(tick.fetched, p)) \in Nat
      BY <2>1, <2>2, FS_Subset, FS_CardinalityType
    <2> QED BY <1>2, <2>1, <2>3 DEF Claimed, Open
  <1> QED BY <1>1, <1>2

(* A tick that has dropped fetched tasks, or given up the slots of a peer, *)
(* claims no more than it did.                                             *)
Shrunk(tick, next) ==
    \/ next = IdleWorker
    \/ next = tick
    \/ /\ tick # IdleWorker
       /\ next.fetched \subseteq tick.fetched
       /\ \A p \in Peers : next.slots[p] \in {tick.slots[p], 0}

LEMMA ShrunkClaims ==
    ASSUME NEW tick \in {IdleWorker} \cup RunningTick, NEW next \in {IdleWorker} \cup RunningTick,
           FiniteTick(tick), Shrunk(tick, next)
    PROVE  FiniteTick(next) /\ \A p \in Peers : Claimed(next, p) <= Claimed(tick, p)
  <1>1. CASE next = IdleWorker
    BY <1>1, ClaimsAreNumbers DEF Claimed, FiniteTick
  <1>2. CASE next = tick
    BY <1>2, ClaimsAreNumbers
  <1>3. CASE next # IdleWorker /\ next # tick
    <2>1. /\ tick # IdleWorker /\ next.fetched \in SUBSET tick.fetched
          /\ IsFiniteSet(tick.fetched) /\ tick \in RunningTick /\ next \in RunningTick
      BY <1>3 DEF Shrunk, FiniteTick
    <2>2. IsFiniteSet(next.fetched)
      BY <2>1, FS_Subset
    <2>3. ASSUME NEW p \in Peers PROVE Claimed(next, p) <= Claimed(tick, p)
      <3>1. For(next.fetched, p) \in SUBSET For(tick.fetched, p)
            /\ For(tick.fetched, p) \in SUBSET tick.fetched
        BY <2>1 DEF For
      <3>2. IsFiniteSet(For(tick.fetched, p))
        BY <2>1, <3>1, FS_Subset
      <3>3. /\ Cardinality(For(next.fetched, p)) <= Cardinality(For(tick.fetched, p))
            /\ Cardinality(For(next.fetched, p)) \in Nat
            /\ Cardinality(For(tick.fetched, p)) \in Nat
        BY <3>1, <3>2, FS_Subset, FS_CardinalityType
      <3>4. next.slots[p] \in {tick.slots[p], 0} /\ tick.slots[p] \in Int
        BY <1>3, <2>1 DEF Shrunk, RunningTick
      <3>5. Open(next.slots[p]) <= Open(tick.slots[p]) /\ Open(next.slots[p]) \in Nat
            /\ Open(tick.slots[p]) \in Nat
        BY <3>4 DEF Open
      <3> QED BY <1>3, <2>1, <3>3, <3>5 DEF Claimed
    <2> QED BY <2>2, <2>3 DEF FiniteTick
  <1> QED BY <1>1, <1>2, <1>3

(* Most steps: no transfer is spawned, and ticks at most shrink.           *)
LEMMA NothingSpawned ==
    ASSUME TypeOK, TypeOK', BudgetInv,
           \A x \in Transfers, p \in Peers : Spawned(x, p)' => Spawned(x, p),
           \A w \in Workers : Shrunk(worker[w], worker'[w])
    PROVE  BudgetInv'
  <1>1. \A w \in Workers : /\ worker[w] \in {IdleWorker} \cup RunningTick
                           /\ worker'[w] \in {IdleWorker} \cup RunningTick
                           /\ FiniteTick(worker[w])
    BY DEF TypeOK, BudgetInv
  <1>2. \A w \in Workers : /\ FiniteTick(worker'[w])
                           /\ \A p \in Peers : Claimed(worker'[w], p) <= Claimed(worker[w], p)
    BY <1>1, ShrunkClaims
  <1>3. LoneTick'
    <2>1. \A w \in Workers : worker'[w] # IdleWorker => worker[w] # IdleWorker
      BY DEF Shrunk
    <2> QED BY <2>1 DEF BudgetInv, LoneTick
  <1>4. ASSUME NEW p \in Peers PROVE Budgeted(p)'
    <2>1. Engaged(p)' \in SUBSET Engaged(p)
      BY DEF Engaged
    <2>2. Cardinality(Engaged(p)') <= Cardinality(Engaged(p))
      BY <2>1, EngagedFinite, FS_Subset
    <2>3. ASSUME NEW w \in Workers
          PROVE  Cardinality(Engaged(p)') + Claimed(worker'[w], p) <= Limit
      <3>1. Claimed(worker[w], p) \in Nat /\ Claimed(worker'[w], p) \in Nat
        BY <1>1, <1>2, ClaimsAreNumbers
      <3>2. Cardinality(Engaged(p)) + Claimed(worker[w], p) <= Limit
        BY DEF BudgetInv, Budgeted
      <3> QED BY <1>2, <2>2, <3>1, <3>2, EngagedFinite, LimitsAssumption
    <2>4. Cardinality(Engaged(p)') <= Limit
      BY <2>2, EngagedFinite, LimitsAssumption DEF BudgetInv, Budgeted
    <2> QED BY <2>3, <2>4 DEF Budgeted
  <1> QED BY <1>2, <1>3, <1>4 DEF BudgetInv

(* A tick that begins claims what active_transfers leaves free, and        *)
(* active_transfers counts every transfer then.                            *)
LEMMA TickBegun ==
    ASSUME TypeOK, BudgetInv, SlotsCoverTransfers, NEW w \in Workers, SelectPeers(w),
           TicksTakeTurns
    PROVE  BudgetInv'
  <1> DEFINE slots == [p \in Peers |-> IF Eligible(p) THEN compute_available_slots(p) ELSE 0]
             tick == [pc |-> "reset", fetched |-> {}, slots |-> slots]
  <1>1. worker' = [worker EXCEPT ![w] = tick] /\ transfer' = transfer
    BY DEF SelectPeers
  <1>2. \A v \in Workers : worker[v] = IdleWorker
    BY DEF TicksTakeTurns
  <1>3. worker'[w] = tick /\ \A v \in Workers \ {w} : worker'[v] = IdleWorker
    BY <1>1, <1>2 DEF TypeOK
  <1>4. FiniteTick(tick)
    BY FS_EmptySet DEF FiniteTick
  <1>5. ASSUME NEW p \in Peers PROVE Budgeted(p)'
    <2>1. Engaged(p)' = Engaged(p)
      BY <1>1 DEF Engaged, Spawned
    <2>2. Cardinality(Engaged(p)) <= Limit /\ Cardinality(Engaged(p)) \in Nat
      BY EngagedFinite DEF BudgetInv, Budgeted
    <2>3. Engaged(p) \in SUBSET SlotHolders(p)
      <3>1. \A x \in Transfers : transfer[x] # NoTransfer =>
               transfer[x].pc \in {"send", "complete", "release", "fail", "penalize"}
        BY Records DEF ActiveTransfer, TicksTakeTurns
      <3> QED BY <3>1 DEF Engaged, Spawned, SlotHolders, HoldsSlot
    <2>4. Cardinality(Engaged(p)) <= peers[p].active /\ peers[p].active \in Nat
      <3>1. Cardinality(Engaged(p)) <= Cardinality(SlotHolders(p))
        BY <2>3, HoldersFinite, FS_Subset
      <3>2. Cardinality(SlotHolders(p)) <= peers[p].active /\ peers[p].active \in Nat
        BY DEF SlotsCoverTransfers, TypeOK, PeerRow
      <3> QED BY <2>2, <3>1, <3>2, HoldersFinite
    <2>5. For({}, p) = {}
      BY DEF For
    <2>6. slots[p] \in {Limit - peers[p].active, 0}
      BY DEF compute_available_slots
    <2>7. Claimed(tick, p) \in {0, Open(slots[p])}
      <3>1. tick.fetched = {} /\ tick.slots = slots
        OBVIOUS
      <3>2. Open(slots[p]) \in Nat
        BY <2>4, <2>6, LimitsAssumption DEF Open
      <3> HIDE DEF slots, tick
      <3> QED BY <2>5, <3>1, <3>2, FS_EmptySet DEF Claimed
    <2>8. Open(slots[p]) + Cardinality(Engaged(p)) <= Limit
      <3> HIDE DEF slots
      <3> QED BY <2>2, <2>4, <2>6, LimitsAssumption DEF Open
    <2>10. \A v \in Workers : Claimed(worker'[v], p) \in {0, Open(slots[p])}
      <3>1. Claimed(IdleWorker, p) = 0
        BY DEF Claimed
      <3> HIDE DEF slots, tick
      <3> QED BY <1>3, <2>7, <3>1
    <2>9. Open(slots[p]) \in Nat
      <3> HIDE DEF slots
      <3> QED BY <2>4, <2>6, LimitsAssumption DEF Open
    <2>11. \A v \in Workers : Cardinality(Engaged(p)) + Claimed(worker'[v], p) <= Limit
      <3> HIDE DEF slots
      <3> QED BY <2>2, <2>8, <2>9, <2>10, LimitsAssumption
    <2> QED BY <2>1, <2>2, <2>11 DEF Budgeted
  <1>6. LoneTick'
    BY <1>3 DEF LoneTick
  <1>7. \A v \in Workers : FiniteTick(worker'[v])
    <2> HIDE DEF tick
    <2> QED BY <1>3, <1>4 DEF FiniteTick
  <1> QED BY <1>5, <1>6, <1>7 DEF BudgetInv

(* The fetch turns the free slots of the peer into fetched tasks, at most  *)
(* one for each.                                                           *)
LEMMA TasksFetched ==
    ASSUME TypeOK, TypeOK', BudgetInv, IsFiniteSet(Tasks),
           NEW w \in Workers, NEW p \in Peers, FetchTasks(w, p)
    PROVE  BudgetInv'
  <1>1. worker[w] # IdleWorker /\ worker[w] \in RunningTick /\ worker[w].fetched = {}
    BY Records DEF FetchTasks
  <1>2. PICK S \in SUBSET PendingFor(p) :
           /\ \/ Cardinality(S) = worker[w].slots[p]
              \/ S = PendingFor(p) /\ Cardinality(S) < worker[w].slots[p]
           /\ worker' = [worker EXCEPT ![w].slots[p] = 0,
                 ![w].fetched = {[task |-> t, retry |-> tasks[t].retry] : t \in S}]
    BY DEF FetchTasks
  <1> DEFINE new == {[task |-> t, retry |-> tasks[t].retry] : t \in S}
             f == [t \in S |-> [task |-> t, retry |-> tasks[t].retry]]
  <1>3. S \in SUBSET Tasks /\ IsFiniteSet(S) /\ Cardinality(S) \in Nat
    <2>1. S \in SUBSET Tasks
      BY DEF PendingFor
    <2> QED BY <2>1, FS_Subset, FS_CardinalityType
  <1>4. IsFiniteSet(new) /\ Cardinality(new) <= Cardinality(S) /\ Cardinality(new) \in Nat
    <2>1. f \in Surjection(S, new)
      BY DEF Surjection
    <2> HIDE DEF f, new
    <2> QED BY <1>3, <2>1, FS_Surjection, FS_CardinalityType
  <1>5. \A g \in new : PeerOf(g.task) = p
    BY DEF PendingFor
  <1>6. worker[w].slots[p] > 0 /\ worker[w].slots[p] \in Int
    BY <1>1 DEF FetchTasks, ToServe, RunningTick
  <1>7. /\ worker'[w].fetched = new
        /\ worker'[w].slots = [worker[w].slots EXCEPT ![p] = 0]
        /\ \A v \in Workers \ {w} : worker'[v] = worker[v]
    <2> HIDE DEF new
    <2>1. worker' = [worker EXCEPT ![w].slots[p] = 0, ![w].fetched = new]
      BY <1>2 DEF new
    <2> QED BY <1>1, <2>1 DEF TypeOK, RunningTick
  <1>8. worker'[w] # IdleWorker
    <2>1. worker'[w].pc = worker[w].pc
      BY <1>1, <1>2 DEF TypeOK, RunningTick
    <2>2. worker[w].pc = "serve"
      BY DEF FetchTasks
    <2> QED BY <2>1, <2>2 DEF IdleWorker
  <1> HIDE DEF new
  <1>9. \A q \in Peers : For(new, q) = (IF q = p THEN new ELSE {})
    BY <1>5 DEF For
  <1>10. ASSUME NEW q \in Peers PROVE Claimed(worker'[w], q) <= Claimed(worker[w], q)
    <2>1. For({}, q) = {} /\ Cardinality({}) = 0
      BY FS_EmptySet DEF For
    <2>2. Claimed(worker[w], q) = 0 + Open(worker[w].slots[q]) /\ worker[w].slots[q] \in Int
      BY <1>1, <2>1 DEF Claimed, RunningTick
    <2>3. CASE q = p
      <3>1. worker'[w].slots[p] = 0
        BY <1>1, <1>7 DEF RunningTick
      <3>2. Claimed(worker'[w], q) = Cardinality(new) + 0
        BY <1>7, <1>8, <1>9, <2>3, <3>1 DEF Claimed, Open
      <3>3. Cardinality(S) <= worker[w].slots[p]
        BY <1>2, <1>3, <1>6
      <3> QED BY <1>3, <1>4, <1>6, <2>2, <2>3, <3>2, <3>3 DEF Open
    <2>4. CASE q # p
      <3>1. worker'[w].slots[q] = worker[w].slots[q]
        BY <1>1, <1>7, <2>4 DEF RunningTick
      <3>2. Claimed(worker'[w], q) = 0 + Open(worker[w].slots[q])
        BY <1>7, <1>8, <1>9, <2>1, <2>4, <3>1 DEF Claimed
      <3> QED BY <2>2, <3>2 DEF Open
    <2> QED BY <2>3, <2>4
  <1>11. transfer' = transfer
    BY DEF FetchTasks
  <1>12. ASSUME NEW q \in Peers PROVE Budgeted(q)'
    <2>1. Engaged(q)' = Engaged(q)
      BY <1>11 DEF Engaged, Spawned
    <2>2. FiniteTick(worker'[w]) /\ FiniteTick(worker[w])
      BY <1>4, <1>7 DEF BudgetInv, FiniteTick
    <2>3. Claimed(worker'[w], q) \in Nat /\ Claimed(worker[w], q) \in Nat
      BY <2>2, ClaimsAreNumbers DEF TypeOK
    <2>4. Cardinality(Engaged(q)) + Claimed(worker[w], q) <= Limit
      BY DEF BudgetInv, Budgeted
    <2>5. Cardinality(Engaged(q)) + Claimed(worker'[w], q) <= Limit
      BY <1>10, <2>3, <2>4, EngagedFinite, LimitsAssumption
    <2>6. \A v \in Workers : Cardinality(Engaged(q)) + Claimed(worker'[v], q) <= Limit
      BY <1>7, <2>5 DEF BudgetInv, Budgeted
    <2> QED BY <2>1, <2>6 DEF BudgetInv, Budgeted
  <1>13. LoneTick'
    BY <1>1, <1>7 DEF BudgetInv, LoneTick
  <1>14. \A v \in Workers : FiniteTick(worker'[v])
    BY <1>4, <1>7 DEF BudgetInv, FiniteTick
  <1> QED BY <1>12, <1>13, <1>14 DEF BudgetInv

(* A fetched task becomes a transfer: what the tick claims falls by one.   *)
LEMMA TransferSpawned ==
    ASSUME TypeOK, TypeOK', BudgetInv, NEW w \in Workers, SpawnTransfer(w)
    PROVE  BudgetInv'
  <1>1. worker[w] # IdleWorker /\ worker[w] \in RunningTick
    BY Records DEF SpawnTransfer
  <1>2. PICK f \in worker[w].fetched, x \in Transfers :
           /\ transfer[x] = NoTransfer
           /\ \E endpoint \in Endpoints(f.task) :
                 transfer' = [transfer EXCEPT ![x] =
                     [pc |-> "start", by |-> w, task |-> f.task, retry |-> f.retry,
                      endpoint |-> endpoint]]
           /\ worker' = [worker EXCEPT ![w].fetched = @ \ {f}]
    BY DEF SpawnTransfer
  <1>3. /\ worker'[w].fetched = worker[w].fetched \ {f}
        /\ worker'[w].slots = worker[w].slots
        /\ worker'[w].pc = worker[w].pc
        /\ \A v \in Workers \ {w} : worker'[v] = worker[v]
    BY <1>1, <1>2 DEF TypeOK, RunningTick
  <1>4. worker'[w] # IdleWorker
    <2>1. worker[w].pc = "serve"
      BY DEF SpawnTransfer
    <2> QED BY <1>3, <2>1 DEF IdleWorker
  <1>5. transfer'[x].task = f.task /\ \A y \in Transfers \ {x} : transfer'[y] = transfer[y]
    BY <1>2 DEF TypeOK
  <1>6. \A v \in Workers \ {w} : worker[v] = IdleWorker
    BY <1>1 DEF BudgetInv, LoneTick
  <1>7. IsFiniteSet(worker[w].fetched) /\ IsFiniteSet(worker'[w].fetched)
    <2>1. IsFiniteSet(worker[w].fetched)
      BY <1>1 DEF BudgetInv, FiniteTick
    <2> QED BY <1>3, <2>1, FS_RemoveElement
  <1>8. ASSUME NEW p \in Peers
        PROVE  /\ Cardinality(Engaged(p)') + Claimed(worker'[w], p) <= Limit
               /\ Cardinality(Engaged(p)') <= Limit
    <2>1. worker[w].slots[p] \in Int /\ Open(worker[w].slots[p]) \in Nat
      BY <1>1 DEF RunningTick, Open
    <2>2. For(worker[w].fetched, p) \in SUBSET worker[w].fetched
      BY DEF For
    <2>3. IsFiniteSet(For(worker[w].fetched, p)) /\ Cardinality(For(worker[w].fetched, p)) \in Nat
      BY <1>7, <2>2, FS_Subset, FS_CardinalityType
    <2>4. Cardinality(Engaged(p)) + (Cardinality(For(worker[w].fetched, p))
             + Open(worker[w].slots[p])) <= Limit
      <3>1. Cardinality(Engaged(p)) + Claimed(worker[w], p) <= Limit
        BY DEF BudgetInv, Budgeted
      <3> QED BY <1>1, <3>1 DEF Claimed
    <2>5. Claimed(worker'[w], p) = Cardinality(For(worker'[w].fetched, p))
             + Open(worker[w].slots[p])
      BY <1>3, <1>4 DEF Claimed
    <2>6. CASE PeerOf(f.task) = p
      <3>1. For(worker'[w].fetched, p) = For(worker[w].fetched, p) \ {f}
            /\ f \in For(worker[w].fetched, p)
        BY <1>2, <1>3, <2>6 DEF For
      <3>2. Cardinality(For(worker'[w].fetched, p)) = Cardinality(For(worker[w].fetched, p)) - 1
        BY <2>3, <3>1, FS_RemoveElement
      <3>3. Cardinality(For(worker[w].fetched, p)) # 0
        BY <2>3, <3>1, FS_EmptySet
      <3>4. Engaged(p)' \in SUBSET (Engaged(p) \cup {x})
        BY <1>5 DEF Engaged, Spawned
      <3>5. /\ IsFiniteSet(Engaged(p) \cup {x})
            /\ Cardinality(Engaged(p) \cup {x}) \in {Cardinality(Engaged(p)),
                                                      Cardinality(Engaged(p)) + 1}
        BY EngagedFinite, FS_AddElement
      <3>6. Cardinality(Engaged(p)') <= Cardinality(Engaged(p) \cup {x})
        BY <3>4, <3>5, FS_Subset
      <3>7. Cardinality(Engaged(p)') <= Cardinality(Engaged(p)) + 1
        BY <3>5, <3>6, EngagedFinite
      <3> QED BY <2>1, <2>3, <2>4, <2>5, <3>2, <3>3, <3>7, EngagedFinite, LimitsAssumption
    <2>7. CASE PeerOf(f.task) # p
      <3>1. For(worker'[w].fetched, p) = For(worker[w].fetched, p)
        BY <1>3, <2>7 DEF For
      <3>2. Engaged(p)' \in SUBSET Engaged(p)
        BY <1>5, <2>7 DEF Engaged, Spawned
      <3>3. Cardinality(Engaged(p)') <= Cardinality(Engaged(p))
        BY <3>2, EngagedFinite, FS_Subset
      <3> QED BY <2>1, <2>3, <2>4, <2>5, <3>1, <3>3, EngagedFinite, LimitsAssumption
    <2> QED BY <2>6, <2>7
  <1>9. ASSUME NEW p \in Peers PROVE Budgeted(p)'
    <2>1. \A v \in Workers \ {w} : Claimed(worker'[v], p) = 0
      BY <1>3, <1>6 DEF Claimed
    <2>2. \A v \in Workers : Cardinality(Engaged(p)') + Claimed(worker'[v], p) <= Limit
      BY <1>8, <2>1, EngagedFinite
    <2> QED BY <1>8, <2>2 DEF Budgeted
  <1>10. LoneTick'
    BY <1>3, <1>6 DEF LoneTick
  <1>11. \A v \in Workers : FiniteTick(worker'[v])
    BY <1>3, <1>6, <1>7 DEF FiniteTick
  <1> QED BY <1>9, <1>10, <1>11 DEF BudgetInv

(* Nothing a transfer does changes the peer its task is for.               *)
LEMMA SameTask ==
    ASSUME TypeOK, NEW x \in Transfers, Transmit(x)
    PROVE  /\ transfer'[x] = NoTransfer \/ transfer'[x].task = transfer[x].task
           /\ transfer[x] # NoTransfer
           /\ \A y \in Transfers \ {x} : transfer'[y] = transfer[y]
           /\ worker' = worker
  <1>1. transfer[x] # NoTransfer /\ transfer[x] \in ActiveTransfer
    <2>1. transfer[x].pc # "none"
      BY DEF Transmit, StartTransfer, CountTransfer, SendAccepted, SendFails, ChunkedInitLost,
             CompleteTask, ReleaseSlot, FailTask, PenalizePeer
    <2> QED BY <2>1, Records
  <1> DEFINE Goes(pc) == transfer' = [transfer EXCEPT ![x].pc = pc]
  <1>2. CASE ChunkedInitLost(x) \/ ReleaseSlot(x) \/ PenalizePeer(x)
    BY <1>1, <1>2 DEF ChunkedInitLost, ReleaseSlot, PenalizePeer, TypeOK
  <1>3. ASSUME NEW pc, Goes(pc), worker' = worker
        PROVE  /\ transfer'[x].task = transfer[x].task
               /\ \A y \in Transfers \ {x} : transfer'[y] = transfer[y]
    BY <1>1, <1>3 DEF TypeOK, ActiveTransfer
  <1>4. CASE StartTransfer(x) \/ CountTransfer(x) \/ SendAccepted(x) \/ SendFails(x)
             \/ CompleteTask(x) \/ FailTask(x)
    <2>1. worker' = worker /\ (\/ Goes("count") \/ Goes("send") \/ Goes("complete")
                               \/ Goes("fail") \/ Goes("release") \/ Goes("penalize"))
      BY <1>4 DEF StartTransfer, CountTransfer, SendAccepted, SendFails, CompleteTask, FailTask
    <2> HIDE DEF Goes
    <2> QED BY <1>1, <1>3, <2>1
  <1> QED BY <1>2, <1>4 DEF Transmit

LEMMA BudgetStep ==
    ASSUME IsFiniteSet(Tasks), TypeOK, TypeOK', SlotsCoverTransfers, BudgetInv,
           [Next /\ TicksTakeTurns]_vars
    PROVE  BudgetInv'
  <1> USE DEF Shrunk
  <1>1. CASE Environment \/ UNCHANGED vars
    <2>1. UNCHANGED <<worker, transfer>>
      BY <1>1 DEF vars, Environment, QueuePush, QueueDeletes, Heartbeat, TriggerSync,
                  FallSilent, BackoffExpires, MarkStaleOffline
    <2> QED BY <2>1, NothingSpawned DEF Spawned
  <1>2. ASSUME NEW w \in Workers, Tick(w), TicksTakeTurns PROVE BudgetInv'
    <2>1. CASE SelectPeers(w)
      BY <1>2, <2>1, TickBegun
    <2>2. CASE \E p \in Peers : FetchTasks(w, p)
      BY <2>2, TasksFetched
    <2>3. CASE SpawnTransfer(w)
      BY <2>3, TransferSpawned
    <2>4. CASE ResetRetriable(w) \/ CompleteFiltered(w) \/ SkipPeer(w) \/ EndTick(w)
      <3>1. transfer' = transfer
        BY <2>4 DEF ResetRetriable, CompleteFiltered, SkipPeer, EndTick
      <3>2. worker[w] # IdleWorker /\ worker[w] \in RunningTick
        BY <2>4, Records DEF ResetRetriable, CompleteFiltered, SkipPeer, EndTick
      <3>3. \A v \in Workers \ {w} : worker'[v] = worker[v]
        BY <2>4 DEF ResetRetriable, CompleteFiltered, SkipPeer, EndTick, TypeOK
      <3>4. Shrunk(worker[w], worker'[w])
        <4>1. CASE ResetRetriable(w)
          BY <3>2, <4>1 DEF ResetRetriable, TypeOK, RunningTick
        <4>2. CASE CompleteFiltered(w)
          BY <3>2, <4>2 DEF CompleteFiltered, TypeOK, RunningTick
        <4>3. CASE SkipPeer(w)
          <5>1. PICK p \in Peers : worker' = [worker EXCEPT ![w].slots[p] = 0]
            BY <4>3 DEF SkipPeer, ToServe
          <5>2. /\ worker'[w].fetched = worker[w].fetched
                /\ worker'[w].slots = [worker[w].slots EXCEPT ![p] = 0]
            BY <3>2, <5>1 DEF TypeOK, RunningTick
          <5>3. \A q \in Peers : worker'[w].slots[q] \in {worker[w].slots[q], 0}
            BY <3>2, <5>2 DEF RunningTick
          <5> QED BY <3>2, <5>2, <5>3
        <4>4. CASE EndTick(w)
          BY <4>4 DEF EndTick, TypeOK
        <4> QED BY <2>4, <4>1, <4>2, <4>3, <4>4
      <3>5. \A v \in Workers : Shrunk(worker[v], worker'[v])
        BY <3>3, <3>4
      <3> HIDE DEF Shrunk
      <3> QED BY <3>1, <3>5, NothingSpawned DEF Spawned
    <2> QED BY <1>2, <2>1, <2>2, <2>3, <2>4 DEF Tick
  <1>3. ASSUME NEW w \in Workers, TickFails(w) PROVE BudgetInv'
    <2>1. transfer' = transfer /\ \A v \in Workers \ {w} : worker'[v] = worker[v]
      BY <1>3 DEF TickFails, TypeOK
    <2>2. worker[w] # IdleWorker /\ worker[w] \in RunningTick
      BY <1>3, Records DEF TickFails
    <2>3. Shrunk(worker[w], worker'[w])
      BY <1>3, <2>2 DEF TickFails, TypeOK, RunningTick
    <2> QED BY <2>1, <2>3, NothingSpawned DEF Spawned
  <1>4. ASSUME NEW w \in Workers, Crash(w) PROVE BudgetInv'
    <2>1. \A v \in Workers : worker'[v] \in {worker[v], IdleWorker}
      BY <1>4 DEF Crash, TypeOK
    <2>2. \A x \in Transfers : transfer'[x] \in {transfer[x], NoTransfer}
      BY <1>4 DEF Crash
    <2> QED BY <2>1, <2>2, NothingSpawned DEF Spawned
  <1>5. ASSUME NEW x \in Transfers, Transmit(x) PROVE BudgetInv'
    <2>1. \A y \in Transfers, p \in Peers : Spawned(y, p)' => Spawned(y, p)
      BY <1>5, SameTask DEF Spawned
    <2> QED BY <1>5, <2>1, SameTask, NothingSpawned
  <1>6. ASSUME NEW x \in Transfers, StatementFails(x) PROVE BudgetInv'
    <2>1. transfer[x] # NoTransfer /\ transfer[x] \in ActiveTransfer
      BY <1>6, Records DEF StatementFails
    <2>2. worker' = worker /\ \A y \in Transfers \ {x} : transfer'[y] = transfer[y]
      BY <1>6 DEF StatementFails, TypeOK
    <2>3. transfer'[x] = NoTransfer \/ transfer'[x].task = transfer[x].task
      BY <1>6, <2>1 DEF StatementFails, TypeOK, ActiveTransfer
    <2>4. \A y \in Transfers, p \in Peers : Spawned(y, p)' => Spawned(y, p)
      BY <2>1, <2>2, <2>3 DEF Spawned
    <2> QED BY <2>2, <2>4, NothingSpawned
  <1> QED BY <1>1, <1>2, <1>3, <1>4, <1>5, <1>6 DEF Next

(* The worker "respects per-peer concurrency limits" as long as no replica *)
(* reads active_transfers in the middle of another's tick or before the    *)
(* transfers of an earlier tick have counted themselves; slots leaked by   *)
(* crashes, by failed statements and by the chunked path only make it      *)
(* transfer less.  The sync_tasks table is finite.                         *)
THEOREM TurnsRespectLimit ==
    ASSUME IsFiniteSet(Tasks)
    PROVE  Spec /\ [][TicksTakeTurns]_vars => []TransfersRespectLimit
  <1>1. Init => BudgetInv
    <2> SUFFICES ASSUME Init PROVE BudgetInv
      OBVIOUS
    <2>1. \A p \in Peers : Engaged(p) = {}
      BY DEF Init, Engaged, Spawned
    <2>2. \A w \in Workers : worker[w] = IdleWorker
      BY DEF Init
    <2>3. \A p \in Peers : Budgeted(p)
      BY <2>1, <2>2, FS_EmptySet, LimitsAssumption DEF Budgeted, Claimed
    <2> QED BY <2>2, <2>3 DEF BudgetInv, LoneTick, FiniteTick
  <1>2. TypeOK /\ TypeOK' /\ SlotsCoverTransfers /\ BudgetInv /\ [Next /\ TicksTakeTurns]_vars
          => BudgetInv'
    BY BudgetStep
  <1>3. [Next]_vars /\ [TicksTakeTurns]_vars => [Next /\ TicksTakeTurns]_vars
    OBVIOUS
  <1>4. TypeOK /\ BudgetInv => TransfersRespectLimit
    <2> SUFFICES ASSUME BudgetInv, NEW p \in Peers
                 PROVE  Cardinality(SlotHolders(p)) <= Limit
      BY DEF TransfersRespectLimit
    <2>1. SlotHolders(p) \in SUBSET Engaged(p)
      BY DEF SlotHolders, HoldsSlot, Engaged, Spawned, NoTransfer
    <2>2. Cardinality(SlotHolders(p)) <= Cardinality(Engaged(p))
      BY <2>1, EngagedFinite, FS_Subset
    <2> QED BY <2>2, EngagedFinite, HoldersFinite, LimitsAssumption DEF BudgetInv, Budgeted
  <1> QED BY <1>1, <1>2, <1>3, <1>4, SlotsCovered, TypeCorrect, PTL DEF Spec
=============================================================================
