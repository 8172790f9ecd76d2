----------------------------- MODULE SyncWorker -----------------------------
(***************************************************************************)
(* Peer replication: the sync_tasks queue, the peer_instances rows, the    *)
(* background sync worker of every backend replica, and the transfers it   *)
(* spawns.  A tick reads the eligible peers, resets retriable tasks, and   *)
(* for every peer fetches as many pending tasks as it believes there are   *)
(* free slots and spawns a transfer for each.  The spawned transfer, not   *)
(* the tick, marks its task in_progress and takes its slot, in statements  *)
(* of their own, so ticks and transfers interleave freely.                 *)
(*                                                                         *)
(* Time is abstracted: a backoff either runs or is over, a peer's last     *)
(* heartbeat is either recent or older than the stale threshold, and a     *)
(* tick may find a peer outside its sync window.  consecutive_failures     *)
(* only sets the length of the backoff and is left out, as are byte        *)
(* counters, timestamps and error texts.                                   *)
(***************************************************************************)
EXTENDS Integers, FiniteSets

CONSTANTS Peers,        \* remote peers (is_local = false)
          Artifacts,
          TaskTypes,      \* the task types in use: "push" and "delete"
          Large,          \* artifacts above the chunked-transfer threshold
          Filtered,       \* <<peer, artifact>> pairs the replication filter rejects
          Scored,         \* <<peer, artifact>>: the peer has chunks of the artifact
                          \* and an active connection from the local instance
          Reported,       \* the statuses peers report in their heartbeats
          Workers,        \* backend replicas, each running a sync worker
          Transfers,      \* model bound: spawned transfers alive at a time
          Limit,          \* concurrent_transfers_limit
          MaxRetries,     \* max_retries
          MaxFaults       \* model bound on process deaths and failed statements

InstanceStatus == {"online", "offline", "syncing", "degraded"}

ASSUME TypesAssumption == /\ TaskTypes \subseteq {"push", "delete"}
                          /\ Reported \subseteq InstanceStatus
ASSUME LimitsAssumption == /\ Limit \in Nat
                           /\ MaxRetries \in Nat \ {0}
                           /\ MaxFaults \in Nat
ASSUME TransfersAssumption == IsFiniteSet(Transfers)

VARIABLES tasks,        \* tasks[t]: the sync_tasks row of peer, artifact and type t
          peers,        \* peers[p]: the peer_instances row
          worker,       \* worker[w]: where the tick of replica w is
          transfer,     \* transfer[x]: the spawned transfer in slot x
          delivered,    \* history: <<peer, artifact>> pairs a peer has accepted
          held,         \* <<peer, artifact>> pairs the peer has now
          faults

vars == <<tasks, peers, worker, transfer, delivered, held, faults>>

Tasks == Peers \X Artifacts \X TaskTypes
PeerOf(t) == t[1]
ArtifactOf(t) == t[2]
TypeOf(t) == t[3]

(* A row that is absent has not been queued.                               *)
TaskRow == [status : {"absent", "pending", "in_progress", "completed", "failed"},
            retry : 0..MaxRetries]
PeerRow == [status : InstanceStatus, active : Nat, backoff : BOOLEAN, silent : BOOLEAN]

(* What a tick remembers of a fetched task, and hands to the transfer.     *)
Fetched == [task : Tasks, retry : 0..MaxRetries]

IdleWorker == [pc |-> "idle"]
RunningTick == [pc : {"reset", "serve"}, slots : [Peers -> Int], fetched : SUBSET Fetched]

NoTransfer == [pc |-> "none"]
ActiveTransfer ==
    [pc : {"start", "count", "send", "complete", "release", "fail", "penalize"},
     by : Workers, task : Tasks, retry : 0..MaxRetries, endpoint : Peers]

TypeOK ==
    /\ tasks \in [Tasks -> TaskRow]
    /\ peers \in [Peers -> PeerRow]
    /\ worker \in [Workers -> {IdleWorker} \cup RunningTick]
    /\ transfer \in [Transfers -> {NoTransfer} \cup ActiveTransfer]
    /\ delivered \subseteq Peers \X Artifacts
    /\ held \subseteq Peers \X Artifacts
    /\ faults \in 0..MaxFaults

Init ==
    /\ tasks = [t \in Tasks |-> [status |-> "absent", retry |-> 0]]
    /\ peers = [p \in Peers |-> [status |-> "online", active |-> 0,
                                 backoff |-> FALSE, silent |-> FALSE]]
    /\ worker = [w \in Workers |-> IdleWorker]
    /\ transfer = [x \in Transfers |-> NoTransfer]
    /\ delivered = {}
    /\ held = {}
    /\ faults = 0

-----------------------------------------------------------------------------
(* ArtifactService::upload and ::delete queue tasks.  A row that already   *)
(* exists, whatever its status, is left as it is.                          *)
QueueTask(t) == [tasks[t] EXCEPT !.status = IF @ = "absent" THEN "pending" ELSE @]

Reachable(p) == peers[p].status \in {"online", "syncing"}

QueuePush(p, a) ==
    /\ "push" \in TaskTypes
    /\ tasks' = [tasks EXCEPT ![<<p, a, "push">>] = QueueTask(<<p, a, "push">>)]
    /\ UNCHANGED <<peers, worker, transfer, delivered, held, faults>>

(* Deletes are queued for the peers that are reachable now.                *)
QueueDeletes(a) ==
    /\ tasks' = [t \in Tasks |->
                   IF ArtifactOf(t) = a /\ TypeOf(t) = "delete" /\ Reachable(PeerOf(t))
                   THEN QueueTask(t) ELSE tasks[t]]
    /\ UNCHANGED <<peers, worker, transfer, delivered, held, faults>>

-----------------------------------------------------------------------------
(* Peer state: heartbeats, POST /peers/:id/sync, stale detection, time.    *)
Heartbeat(p, status) ==
    /\ peers' = [peers EXCEPT ![p].status = status, ![p].silent = FALSE]
    /\ UNCHANGED <<tasks, worker, transfer, delivered, held, faults>>

TriggerSync(p) ==
    /\ peers' = [peers EXCEPT ![p].status = "syncing"]
    /\ UNCHANGED <<tasks, worker, transfer, delivered, held, faults>>

FallSilent(p) ==
    /\ peers' = [peers EXCEPT ![p].silent = TRUE]
    /\ UNCHANGED <<tasks, worker, transfer, delivered, held, faults>>

MarkStaleOffline ==
    /\ peers' = [p \in Peers |->
                   IF peers[p].status = "online" /\ peers[p].silent
                   THEN [peers[p] EXCEPT !.status = "offline"] ELSE peers[p]]
    /\ UNCHANGED <<tasks, worker, transfer, delivered, held, faults>>

BackoffExpires(p) ==
    /\ peers' = [peers EXCEPT ![p].backoff = FALSE]
    /\ UNCHANGED <<tasks, worker, transfer, delivered, held, faults>>

-----------------------------------------------------------------------------
(* process_pending_tasks.                                                  *)
Eligible(p) == Reachable(p) /\ ~peers[p].backoff

compute_available_slots(p) == Limit - peers[p].active

SelectPeers(w) ==
    /\ worker[w].pc = "idle"
    /\ \E p \in Peers : Eligible(p)
    /\ worker' = [worker EXCEPT ![w] =
                    [pc |-> "reset", fetched |-> {},
                     slots |-> [p \in Peers |-> IF Eligible(p) THEN compute_available_slots(p)
                                                ELSE 0]]]
    /\ UNCHANGED <<tasks, peers, transfer, delivered, held, faults>>

(* The reset looks at the peers again, not at the snapshot.                *)
(* Mutant of Retriable: one retry less than configured.                    *)
RetriableButNotLast(t) == tasks[t].status = "failed" /\ tasks[t].retry + 1 < MaxRetries
Retriable(t) == tasks[t].status = "failed" /\ tasks[t].retry < MaxRetries

ResetRetriable(w) ==
    /\ worker[w].pc = "reset"
    /\ tasks' = [t \in Tasks |-> IF Retriable(t) /\ Eligible(PeerOf(t))
                                 THEN [tasks[t] EXCEPT !.status = "pending"]
                                 ELSE tasks[t]]
    /\ worker' = [worker EXCEPT ![w].pc = "serve"]
    /\ UNCHANGED <<peers, transfer, delivered, held, faults>>

PendingFor(p) == {t \in Tasks : PeerOf(t) = p /\ tasks[t].status = "pending"}

(* The peers this tick has still to serve: worker[w].slots holds the slots *)
(* they had when it began, and 0 for a peer that is dealt with.            *)
ToServe(w) == {p \in Peers : worker[w].slots[p] > 0}

(* At most as many pending tasks of the peer as it has slots; which ones   *)
(* depends on priority and age.                                            *)
FetchTasks(w, p) ==
    /\ worker[w].pc = "serve"
    /\ worker[w].fetched = {}
    /\ p \in ToServe(w)
    /\ \E S \in SUBSET PendingFor(p) :
          /\ \/ Cardinality(S) = worker[w].slots[p]
             \/ S = PendingFor(p) /\ Cardinality(S) < worker[w].slots[p]
          /\ worker' = [worker EXCEPT
                ![w].slots[p] = 0,
                ![w].fetched = {[task |-> t, retry |-> tasks[t].retry] : t \in S}]
    /\ UNCHANGED <<tasks, peers, transfer, delivered, held, faults>>

(* The peer is outside its sync window.                                    *)
SkipPeer(w) ==
    /\ worker[w].pc = "serve"
    /\ worker[w].fetched = {}
    /\ \E p \in ToServe(w) : worker' = [worker EXCEPT ![w].slots[p] = 0]
    /\ UNCHANGED <<tasks, peers, transfer, delivered, held, faults>>

MatchesReplicationFilter(t) == <<PeerOf(t), ArtifactOf(t)>> \notin Filtered

(* A task the filter rejects is marked completed without a transfer.       *)
CompleteFiltered(w) ==
    /\ worker[w].pc = "serve"
    /\ \E f \in worker[w].fetched :
          /\ ~MatchesReplicationFilter(f.task)
          /\ tasks' = [tasks EXCEPT ![f.task].status = "completed"]
          /\ worker' = [worker EXCEPT ![w].fetched = @ \ {f}]
    /\ UNCHANGED <<peers, transfer, delivered, held, faults>>

(* resolve_scored_peer: the best-scoring peer that has chunks of the       *)
(* artifact; the task's own peer only when there is none.                  *)
ScoredPeers(a) == {p \in Peers : <<p, a>> \in Scored /\ Reachable(p)}
Endpoints(t) == IF ScoredPeers(ArtifactOf(t)) = {} THEN {PeerOf(t)}
                ELSE ScoredPeers(ArtifactOf(t))

SpawnTransfer(w) ==
    /\ worker[w].pc = "serve"
    /\ \E f \in worker[w].fetched, x \in Transfers :
          /\ MatchesReplicationFilter(f.task)
          /\ transfer[x] = NoTransfer
          /\ \E endpoint \in Endpoints(f.task) :
                transfer' = [transfer EXCEPT ![x] =
                    [pc |-> "start", by |-> w, task |-> f.task, retry |-> f.retry,
                     endpoint |-> endpoint]]
          /\ worker' = [worker EXCEPT ![w].fetched = @ \ {f}]
    /\ UNCHANGED <<tasks, peers, delivered, held, faults>>

EndTick(w) ==
    /\ worker[w].pc = "serve"
    /\ worker[w].fetched = {}
    /\ ToServe(w) = {}
    /\ worker' = [worker EXCEPT ![w] = IdleWorker]
    /\ UNCHANGED <<tasks, peers, transfer, delivered, held, faults>>

-----------------------------------------------------------------------------
(* execute_transfer.                                                       *)
StartTransfer(x) ==
    /\ transfer[x].pc = "start"
    /\ tasks' = [tasks EXCEPT ![transfer[x].task].status = "in_progress"]
    /\ transfer' = [transfer EXCEPT ![x].pc = "count"]
    /\ UNCHANGED <<peers, worker, delivered, held, faults>>

(* Mutant of TakeSlot: the slot counter is not incremented.                *)
TakeNoSlot(p) == peers
TakeSlot(p) == [peers EXCEPT ![p].active = @ + 1]

CountTransfer(x) ==
    /\ transfer[x].pc = "count"
    /\ peers' = TakeSlot(PeerOf(transfer[x].task))
    /\ transfer' = [transfer EXCEPT ![x].pc = "send"]
    /\ UNCHANGED <<tasks, worker, delivered, held, faults>>

(* What the peer does with a request it accepts; a delete of an artifact   *)
(* it does not have is accepted too (404).                                 *)
PeerAccepts(x) ==
    LET item == <<transfer[x].endpoint, ArtifactOf(transfer[x].task)>>
    IN  IF TypeOf(transfer[x].task) = "push"
        THEN delivered' = delivered \cup {item} /\ held' = held \cup {item}
        ELSE delivered' = delivered /\ held' = held \ {item}

SendAccepted(x) ==
    /\ transfer[x].pc = "send"
    /\ PeerAccepts(x)
    /\ transfer' = [transfer EXCEPT ![x].pc = "complete"]
    /\ UNCHANGED <<tasks, peers, worker, faults>>

(* Mutant of SendFails: an error status of the peer counts as delivered.   *)
SendIgnoresStatus(x) ==
    /\ transfer[x].pc = "send"
    /\ transfer' = [transfer EXCEPT ![x].pc = "complete"]
    /\ UNCHANGED <<tasks, peers, worker, delivered, held, faults>>

(* The local read fails, the peer refuses, or the answer is lost after the *)
(* peer has accepted.                                                      *)
SendFails(x) ==
    /\ transfer[x].pc = "send"
    /\ PeerAccepts(x) \/ UNCHANGED <<delivered, held>>
    /\ transfer' = [transfer EXCEPT ![x].pc = "fail"]
    /\ UNCHANGED <<tasks, peers, worker, faults>>

(* execute_chunked_transfer: a transport error or an unreadable answer to  *)
(* the init request returns through `?`, past handle_transfer_failure.     *)
ChunkedInitLost(x) ==
    /\ transfer[x].pc = "send"
    /\ TypeOf(transfer[x].task) = "push"
    /\ ArtifactOf(transfer[x].task) \in Large
    /\ transfer' = [transfer EXCEPT ![x] = NoTransfer]
    /\ UNCHANGED <<tasks, peers, worker, delivered, held, faults>>

(* handle_transfer_success: the task row, then the peer row.               *)
CompleteTask(x) ==
    /\ transfer[x].pc = "complete"
    /\ tasks' = [tasks EXCEPT ![transfer[x].task].status = "completed"]
    /\ transfer' = [transfer EXCEPT ![x].pc = "release"]
    /\ UNCHANGED <<peers, worker, delivered, held, faults>>

(* Mutant of OneLess: the slot is not given back.                          *)
NotLess(n) == n

(* GREATEST(active_transfers - 1, 0)                                       *)
OneLess(n) == IF n > 0 THEN n - 1 ELSE 0

ReleaseSlot(x) ==
    /\ transfer[x].pc = "release"
    /\ peers' = [peers EXCEPT ![PeerOf(transfer[x].task)].active = OneLess(@)]
    /\ transfer' = [transfer EXCEPT ![x] = NoTransfer]
    /\ UNCHANGED <<tasks, worker, delivered, held, faults>>

(* handle_transfer_failure: the retry count is that of the fetched row.    *)
FailTask(x) ==
    /\ transfer[x].pc = "fail"
    /\ tasks' = [tasks EXCEPT ![transfer[x].task] =
                   [status |-> "failed", retry |-> transfer[x].retry + 1]]
    /\ transfer' = [transfer EXCEPT ![x].pc = "penalize"]
    /\ UNCHANGED <<peers, worker, delivered, held, faults>>

PenalizePeer(x) ==
    /\ transfer[x].pc = "penalize"
    /\ peers' = [peers EXCEPT ![PeerOf(transfer[x].task)].active = OneLess(@),
                              ![PeerOf(transfer[x].task)].backoff = TRUE]
    /\ transfer' = [transfer EXCEPT ![x] = NoTransfer]
    /\ UNCHANGED <<tasks, worker, delivered, held, faults>>

(* A statement of a tick or of a transfer fails.  The tick returns, except *)
(* from the marking of a filtered task; the first two statements of a      *)
(* transfer end it; the handlers ignore the error and go on.               *)
TickFails(w) ==
    /\ worker[w].pc # "idle"
    /\ faults < MaxFaults
    /\ faults' = faults + 1
    /\ \/ worker' = [worker EXCEPT ![w] = IdleWorker]
       \/ \E f \in worker[w].fetched :
             /\ ~MatchesReplicationFilter(f.task)
             /\ worker' = [worker EXCEPT ![w].fetched = @ \ {f}]
    /\ UNCHANGED <<tasks, peers, transfer, delivered, held>>

StatementFails(x) ==
    /\ faults < MaxFaults
    /\ faults' = faults + 1
    /\ \/ /\ transfer[x].pc \in {"start", "count", "release", "penalize"}
          /\ transfer' = [transfer EXCEPT ![x] = NoTransfer]
       \/ /\ transfer[x].pc = "complete"
          /\ transfer' = [transfer EXCEPT ![x].pc = "release"]
       \/ /\ transfer[x].pc = "fail"
          /\ transfer' = [transfer EXCEPT ![x].pc = "penalize"]
    /\ UNCHANGED <<tasks, peers, worker, delivered, held>>

(* A replica dies with its tick and its transfers; the rows stay.          *)
Crash(w) ==
    /\ faults < MaxFaults
    /\ faults' = faults + 1
    /\ worker' = [worker EXCEPT ![w] = IdleWorker]
    /\ transfer' = [x \in Transfers |->
                      IF transfer[x] # NoTransfer /\ transfer[x].by = w
                      THEN NoTransfer ELSE transfer[x]]
    /\ UNCHANGED <<tasks, peers, delivered, held>>

-----------------------------------------------------------------------------
Tick(w) == \/ SelectPeers(w) \/ ResetRetriable(w)
           \/ (\E p \in Peers : FetchTasks(w, p)) \/ SkipPeer(w)
           \/ CompleteFiltered(w) \/ SpawnTransfer(w) \/ EndTick(w)

Transmit(x) == \/ StartTransfer(x) \/ CountTransfer(x)
               \/ SendAccepted(x) \/ SendFails(x) \/ ChunkedInitLost(x)
               \/ CompleteTask(x) \/ ReleaseSlot(x) \/ FailTask(x) \/ PenalizePeer(x)

Environment ==
    \/ \E p \in Peers, a \in Artifacts : QueuePush(p, a)
    \/ \E a \in Artifacts : QueueDeletes(a)
    \/ \E p \in Peers, status \in Reported : Heartbeat(p, status)
    \/ \E p \in Peers : TriggerSync(p) \/ FallSilent(p) \/ BackoffExpires(p)
    \/ MarkStaleOffline

Next ==
    \/ Environment
    \/ \E w \in Workers : Tick(w) \/ TickFails(w) \/ Crash(w)
    \/ \E x \in Transfers : Transmit(x) \/ StatementFails(x)

Spec == Init /\ [][Next]_vars

(* Ticks and transfers keep running, backoffs end, stale detection keeps   *)
(* running, and the sync window of a peer opens often enough that, with    *)
(* free slots, the peer is not skipped for ever.                           *)
Fairness ==
    /\ \A w \in Workers : WF_vars(Tick(w)) /\ \A p \in Peers : SF_vars(FetchTasks(w, p))
    /\ \A x \in Transfers : WF_vars(Transmit(x))
    /\ \A p \in Peers : WF_vars(BackoffExpires(p))
    /\ WF_vars(MarkStaleOffline)

FairSpec == Spec /\ Fairness

-----------------------------------------------------------------------------
(* The transfers that have taken a slot of peer p and not given it back.   *)
HoldsSlot(x, p) == /\ transfer[x].pc \in {"send", "complete", "release", "fail", "penalize"}
                   /\ PeerOf(transfer[x].task) = p
SlotHolders(p) == {x \in Transfers : HoldsSlot(x, p)}

(* active_transfers never falls behind the transfers that are running, so  *)
(* a worker never believes a slot free that is taken, whatever crashes,    *)
(* duplicate dispatches and lost slots came before.                        *)
SlotsCoverTransfers ==
    \A p \in Peers : Cardinality(SlotHolders(p)) <= peers[p].active

(* What active_transfers counts beyond the transfers that hold a slot is   *)
(* lost for good: neither handle_transfer_success nor _failure will run    *)
(* for it again.  A slot is lost only by a crash, a failed statement or a  *)
(* chunked init that returns past the failure handling, and the count of   *)
(* a lost slot is never given back in the place of a running transfer's.   *)
LostSlots(p) == peers[p].active - Cardinality(SlotHolders(p))

SlotsLeakOnlyByFaults ==
    [][\A p \in Peers : LostSlots(p)' # LostSlots(p) =>
          /\ LostSlots(p)' > LostSlots(p)
          /\ faults' # faults \/ \E x \in Transfers : ChunkedInitLost(x)]_vars

(* A push that is recorded as completed has been accepted by the peer it   *)
(* was queued for, unless the filter kept it back or scored peer selection *)
(* applies to the artifact.                                                *)
CompletedPushesWereDelivered ==
    \A p \in Peers, a \in Artifacts :
        <<p, a, "push">> \in Tasks /\ tasks[<<p, a, "push">>].status = "completed" =>
            \/ <<p, a>> \in delivered \cup Filtered
            \/ \E q \in Peers : <<q, a>> \in Scored

Settled(t) == \/ tasks[t].status = "completed"
              \/ tasks[t].status = "failed" /\ tasks[t].retry = MaxRetries

(* While its peer stays reachable, every queued task is eventually done or *)
(* has used up its retries: failures, backoff and duplicate dispatch do    *)
(* not lose it ("fail the broken leg quickly and retry under backoff").    *)
QueuedTasksSettle ==
    <>[](\A p \in Peers : Reachable(p))
        => \A t \in Tasks : tasks[t].status = "pending" ~> Settled(t)

(* sync_worker.rs: the worker "respects per-peer concurrency limits".      *)
TransfersRespectLimit == \A p \in Peers : Cardinality(SlotHolders(p)) <= Limit

(* sync_policy_service.rs takes the peers with a completed push to be the  *)
(* peers that have the artifact.                                           *)
CompletedPushIsAtItsPeer ==
    \A p \in Peers, a \in Artifacts :
        <<p, a, "push">> \in Tasks /\ tasks[<<p, a, "push">>].status = "completed" =>
            <<p, a>> \in delivered

(* Deletion is replicated to peers ("'delete' = tell peer to delete        *)
(* artifact"): when the delete of an artifact has completed and nothing    *)
(* about it is queued or under way, the peer does not have the artifact.   *)
AtRest(p, a) ==
    /\ \A t \in Tasks : PeerOf(t) = p /\ ArtifactOf(t) = a =>
                          tasks[t].status \notin {"pending", "in_progress"}
    /\ \A x \in Transfers : transfer[x] # NoTransfer => ArtifactOf(transfer[x].task) # a
DeletedArtifactsLeavePeers ==
    \A p \in Peers, a \in Artifacts :
        <<p, a, "delete">> \in Tasks /\ tasks[<<p, a, "delete">>].status = "completed"
            /\ AtRest(p, a) => <<p, a>> \notin held

(* sync_worker.rs: "peers with no heartbeat for this long are marked       *)
(* offline".                                                               *)
SilentPeersGoOffline ==
    \A p \in Peers : peers[p].silent ~> (peers[p].status = "offline" \/ ~peers[p].silent)
=============================================================================
