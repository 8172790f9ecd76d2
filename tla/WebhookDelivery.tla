-------------------------- MODULE WebhookDelivery --------------------------
(***************************************************************************)
(* Webhooks: the producer that turns events into webhook_deliveries rows,  *)
(* the retry loop of every replica, the manual redelivery of a row, the    *)
(* auto-disable of a webhook whose delivery ran out of attempts, and the   *)
(* rotation of the secret that signs the requests.                         *)
(*                                                                         *)
(* A loop reads its due rows once, with their attempt counts, and handles  *)
(* them one by one; nothing marks a row as being handled, so loops and     *)
(* redeliveries overlap.  The next attempt of a row is "none", "later" or  *)
(* "due"; how long the backoff is, which headers and bodies are sent and   *)
(* what is logged is left out.  An event the bus drops is one that the     *)
(* producer never sees.  Webhooks without an encrypted secret (created     *)
(* before rotation existed) are left out.                                  *)
(***************************************************************************)
EXTENDS Integers, FiniteSets

CONSTANTS Webhooks,
          Events,
          Blocked,          \* webhooks whose URL fails validation
          Loops,            \* replicas running process_webhook_retries
          Requests,         \* concurrent redeliver requests
          Batch,            \* LIMIT of the due query
          MaxAttempts,      \* max_attempts of a row
          MaxRedeliveries,  \* model bound on redeliver requests
          MaxRotations,     \* model bound on secret rotations
          MaxFaults         \* model bound on crashes and failed statements

ASSUME WebhooksAssumption == Blocked \subseteq Webhooks /\ Loops \cap Requests = {}
ASSUME RequestsAssumption == IsFiniteSet(Requests)
ASSUME BoundsAssumption == /\ Batch \in Nat \ {0} /\ MaxAttempts \in Nat \ {0}
                           /\ MaxRedeliveries \in Nat /\ MaxRotations \in Nat
                           /\ MaxFaults \in Nat

VARIABLES webhook,      \* webhook[h]: is_enabled, not yet created, or deleted
          secret,       \* secret[h]: versions of the signing secret
          accepts,      \* accepts[h]: secret versions the receiver verifies with
          fanout,       \* fanout[e]: where the producer is with event e
          rows,         \* rows[d]: the webhook_deliveries row
          sender,       \* sender[s]: a retry loop or a redeliver request
          sent,         \* history: requests sent for d
          acked,        \* history: deliveries the receiver answered with 2xx
          used          \* redeliveries, rotations and faults so far

vars == <<webhook, secret, accepts, fanout, rows, sender, sent, acked, used>>

Deliveries == Events \X Webhooks
WebhookOf(d) == d[2]
Senders == Loops \cup Requests
Versions == 1..MaxRotations + 1

NoRow == [stored |-> FALSE, success |-> FALSE, attempts |-> 0, next |-> "none"]
Row == [stored : BOOLEAN, success : BOOLEAN, attempts : Nat, next : {"none", "later", "due"}]

(* A loop carries the rows it read and has not handled; attempts is what   *)
(* it read of the row it is handling.                                      *)
Idle == [pc |-> "idle"]
Snapshot == [delivery : Deliveries, attempts : Nat]
Busy == [pc : {"next"}, todo : SUBSET Snapshot]
        \cup [pc : {"bury", "sign", "disable"}, todo : SUBSET Snapshot, row : Snapshot]
        \cup [pc : {"send"}, todo : SUBSET Snapshot, row : Snapshot, signed : SUBSET Versions]
        \cup [pc : {"record"}, todo : SUBSET Snapshot, row : Snapshot, success : BOOLEAN]

TypeOK ==
    /\ webhook \in [Webhooks -> {"absent", "enabled", "disabled", "deleted"}]
    /\ secret \in [Webhooks -> [current : Versions, previous : {0} \cup Versions,
                                overlap : BOOLEAN]]
    /\ accepts \in [Webhooks -> SUBSET Versions]
    /\ fanout \in [Events -> [pc : {"unseen", "insert", "done"}, to : SUBSET Webhooks]]
    /\ rows \in [Deliveries -> Row]
    /\ sender \in [Senders -> {Idle} \cup Busy]
    /\ sent \in [Deliveries -> Nat]
    /\ acked \subseteq Deliveries
    /\ used \in [redeliveries : 0..MaxRedeliveries, rotations : 0..MaxRotations,
                 faults : 0..MaxFaults]

Init ==
    /\ webhook = [h \in Webhooks |-> "absent"]
    /\ secret = [h \in Webhooks |-> [current |-> 1, previous |-> 0, overlap |-> FALSE]]
    /\ accepts = [h \in Webhooks |-> {1}]
    /\ fanout = [e \in Events |-> [pc |-> "unseen", to |-> {}]]
    /\ rows = [d \in Deliveries |-> NoRow]
    /\ sender = [s \in Senders |-> Idle]
    /\ sent = [d \in Deliveries |-> 0]
    /\ acked = {}
    /\ used = [redeliveries |-> 0, rotations |-> 0, faults |-> 0]

-----------------------------------------------------------------------------
(* enqueue_for_event: the enabled webhooks that match, then one INSERT for *)
(* all of them.                                                            *)
SelectWebhooks(e) ==
    /\ fanout[e].pc = "unseen"
    /\ \E matching \in SUBSET {h \in Webhooks : webhook[h] = "enabled"} :
          fanout' = [fanout EXCEPT ![e] =
                       [pc |-> IF matching = {} THEN "done" ELSE "insert", to |-> matching]]
    /\ UNCHANGED <<webhook, secret, accepts, rows, sender, sent, acked, used>>

(* attempts must be given: the column's default is 1.                      *)
(* Mutant of NewRow: attempts is left to the default.                      *)
NewRowByDefault == [NoRow EXCEPT !.stored = TRUE, !.next = "due", !.attempts = 1]
NewRow == [NoRow EXCEPT !.stored = TRUE, !.next = "due"]

(* The INSERT violates the foreign key when one of them has been deleted   *)
(* meanwhile, and then no webhook gets the event.                          *)
InsertDeliveries(e) ==
    /\ fanout[e].pc = "insert"
    /\ rows' = IF \E h \in fanout[e].to : webhook[h] = "deleted" THEN rows
               ELSE [d \in Deliveries |->
                       IF d[1] = e /\ WebhookOf(d) \in fanout[e].to
                       THEN NewRow ELSE rows[d]]
    /\ fanout' = [fanout EXCEPT ![e].pc = "done"]
    /\ UNCHANGED <<webhook, secret, accepts, sender, sent, acked, used>>

-----------------------------------------------------------------------------
(* process_webhook_retries: the due rows, oldest first.                    *)
(* Mutant of Due: a disabled webhook is skipped in the query.               *)
DueWhileEnabled(d) == rows[d].stored /\ ~rows[d].success /\ rows[d].next = "due"
                      /\ rows[d].attempts < MaxAttempts /\ webhook[WebhookOf(d)] = "enabled"
Due(d) == rows[d].stored /\ ~rows[d].success /\ rows[d].next = "due"
          /\ rows[d].attempts < MaxAttempts

FetchDue(s) ==
    /\ sender[s].pc = "idle"
    /\ \E S \in SUBSET {d \in Deliveries : Due(d)} :
          /\ S # {}
          /\ Cardinality(S) = Batch \/ (Cardinality(S) < Batch /\ S = {d \in Deliveries : Due(d)})
          /\ sender' = [sender EXCEPT ![s] =
                [pc |-> "next",
                 todo |-> {[delivery |-> d, attempts |-> rows[d].attempts] : d \in S}]]
    /\ UNCHANGED <<webhook, secret, accepts, fanout, rows, sent, acked, used>>

(* The webhook of the next row must be enabled and its URL valid, else the *)
(* row is dead-lettered without a request.                                 *)
LookUpWebhook(s) ==
    /\ sender[s].pc = "next"
    /\ \E row \in sender[s].todo :
          LET h == WebhookOf(row.delivery)
          IN  sender' = [sender EXCEPT ![s] =
                [pc |-> IF webhook[h] = "enabled" /\ h \notin Blocked THEN "sign" ELSE "bury",
                 todo |-> sender[s].todo \ {row}, row |-> row]]
    /\ UNCHANGED <<webhook, secret, accepts, fanout, rows, sent, acked, used>>

EndLoop(s) ==
    /\ sender[s].pc = "next"
    /\ sender[s].todo = {}
    /\ sender' = [sender EXCEPT ![s] = Idle]
    /\ UNCHANGED <<webhook, secret, accepts, fanout, rows, sent, acked, used>>

(* An UPDATE by id changes nothing when the row is gone.                   *)
Update(d, row) == IF rows[d].stored THEN [rows EXCEPT ![d] = row] ELSE rows

Continue(s) == [pc |-> "next", todo |-> sender[s].todo]

Bury(s) ==
    /\ sender[s].pc = "bury"
    /\ LET d == sender[s].row.delivery
       IN  rows' = Update(d, [rows[d] EXCEPT !.next = "none"])
    /\ sender' = [sender EXCEPT ![s] = Continue(s)]
    /\ UNCHANGED <<webhook, secret, accepts, fanout, sent, acked, used>>

(* load_active_secrets: the current secret, and the previous one while the *)
(* rotation overlap lasts.                                                 *)
(* Mutant of ActiveSecrets: the previous secret never lapses.              *)
BothSecrets(h) == {secret[h].current, secret[h].previous}
ActiveSecrets(h) == {secret[h].current} \cup (IF secret[h].overlap THEN {secret[h].previous}
                                              ELSE {})

LoadSecrets(s) ==
    /\ sender[s].pc = "sign"
    /\ sender' = [sender EXCEPT ![s] =
          [pc |-> "send", todo |-> sender[s].todo, row |-> sender[s].row,
           signed |-> ActiveSecrets(WebhookOf(sender[s].row.delivery))]]
    /\ UNCHANGED <<webhook, secret, accepts, fanout, rows, sent, acked, used>>

(* The receiver refuses, cannot be reached, or its answer is lost; or it   *)
(* answers 2xx, which it only does for a signature it can verify.          *)
Send(s) ==
    /\ sender[s].pc = "send"
    /\ LET d == sender[s].row.delivery
       IN  /\ sent' = [sent EXCEPT ![d] = @ + 1]
           /\ \E answered \in BOOLEAN :
                 /\ answered => sender[s].signed \cap accepts[WebhookOf(d)] # {}
                 /\ acked' = IF answered THEN acked \cup {d} ELSE acked
                 /\ sender' = [sender EXCEPT ![s] =
                       [pc |-> "record", todo |-> sender[s].todo, row |-> sender[s].row,
                        success |-> answered]]
    /\ UNCHANGED <<webhook, secret, accepts, fanout, rows, used>>

(* determine_retry_outcome: the count is the one that was read.            *)
NewAttempts(s) == sender[s].row.attempts + 1
(* Mutant of Exhausted: one attempt too few.                               *)
ExhaustedOneEarly(s) == NewAttempts(s) + 1 >= MaxAttempts
Exhausted(s) == NewAttempts(s) >= MaxAttempts

(* What the UPDATE of an outcome writes besides next_retry_at.             *)
(* Mutant of Counted: attempts is written with the outcome.                *)
CountedWithOutcome(s, row) == [row EXCEPT !.attempts = NewAttempts(s),
                                          !.success = sender[s].success]
Counted(s, row) == [row EXCEPT !.attempts = NewAttempts(s),
                               !.success = @ \/ sender[s].success]

RecordRetry(s) ==
    /\ sender[s].pc = "record"
    /\ s \in Loops
    /\ LET d == sender[s].row.delivery
           counted == Counted(s, rows[d])
       IN  \/ /\ sender[s].success
              /\ rows' = Update(d, [counted EXCEPT !.next = "none"])
              /\ sender' = [sender EXCEPT ![s] = Continue(s)]
           \/ /\ ~sender[s].success /\ Exhausted(s)
              /\ rows' = Update(d, [counted EXCEPT !.next = "none"])
              /\ sender' = [sender EXCEPT ![s] =
                    [pc |-> "disable", todo |-> sender[s].todo, row |-> sender[s].row]]
           \/ /\ ~sender[s].success /\ ~Exhausted(s)
              /\ rows' = Update(d, [counted EXCEPT !.next = "later"])
              /\ sender' = [sender EXCEPT ![s] = Continue(s)]
    /\ UNCHANGED <<webhook, secret, accepts, fanout, sent, acked, used>>

(* auto_disable_webhook_for_dead_letter                                    *)
AutoDisable(s) ==
    /\ sender[s].pc = "disable"
    /\ LET h == WebhookOf(sender[s].row.delivery)
       IN  webhook' = [webhook EXCEPT ![h] = IF @ = "enabled" THEN "disabled" ELSE @]
    /\ sender' = [sender EXCEPT ![s] = Continue(s)]
    /\ UNCHANGED <<secret, accepts, fanout, rows, sent, acked, used>>

BackoffEnds(d) ==
    /\ rows[d].next = "later"
    /\ rows' = [rows EXCEPT ![d].next = "due"]
    /\ UNCHANGED <<webhook, secret, accepts, fanout, sender, sent, acked, used>>

-----------------------------------------------------------------------------
(* POST .../redeliver, for any stored row, whether or not it succeeded or  *)
(* its webhook is enabled.                                                 *)
Redeliver(s) ==
    /\ sender[s] = Idle
    /\ used.redeliveries < MaxRedeliveries
    /\ used' = [used EXCEPT !.redeliveries = @ + 1]
    /\ \E d \in Deliveries :
          /\ rows[d].stored
          /\ WebhookOf(d) \notin Blocked
          /\ sender' = [sender EXCEPT ![s] =
                [pc |-> "sign", todo |-> {},
                 row |-> [delivery |-> d, attempts |-> rows[d].attempts]]]
    /\ UNCHANGED <<webhook, secret, accepts, fanout, rows, sent, acked>>

(* The count is raised in the database; next_retry_at stays as it is.      *)
RecordRedelivery(s) ==
    /\ sender[s].pc = "record"
    /\ s \in Requests
    /\ LET d == sender[s].row.delivery
       IN  rows' = Update(d, [rows[d] EXCEPT !.success = sender[s].success,
                                             !.attempts = @ + 1])
    /\ sender' = [sender EXCEPT ![s] = Idle]
    /\ UNCHANGED <<webhook, secret, accepts, fanout, sent, acked, used>>

-----------------------------------------------------------------------------
(* Operators: create, enable, disable, delete (which cascades to its rows). *)
CreateWebhook(h) ==
    /\ webhook[h] = "absent"
    /\ webhook' = [webhook EXCEPT ![h] = "enabled"]
    /\ UNCHANGED <<secret, accepts, fanout, rows, sender, sent, acked, used>>

EnableOrDisable(h) ==
    /\ webhook[h] \in {"enabled", "disabled"}
    /\ \E state \in {"enabled", "disabled"} : webhook' = [webhook EXCEPT ![h] = state]
    /\ UNCHANGED <<secret, accepts, fanout, rows, sender, sent, acked, used>>

DeleteWebhook(h) ==
    /\ webhook[h] \in {"enabled", "disabled"}
    /\ webhook' = [webhook EXCEPT ![h] = "deleted"]
    /\ rows' = [d \in Deliveries |-> IF WebhookOf(d) = h THEN NoRow ELSE rows[d]]
    /\ UNCHANGED <<secret, accepts, fanout, sender, sent, acked, used>>

(* rotate_webhook_secret: one conditional UPDATE, refused with 409 while   *)
(* the overlap of an earlier rotation lasts.                               *)
(* Mutant of RotationAllowed: a running overlap is ignored.                *)
RotationUnguarded(h) == TRUE
RotationAllowed(h) == ~secret[h].overlap

RotateSecret(h) ==
    /\ webhook[h] \in {"enabled", "disabled"}
    /\ RotationAllowed(h)
    /\ used.rotations < MaxRotations
    /\ used' = [used EXCEPT !.rotations = @ + 1]
    /\ secret' = [secret EXCEPT ![h] = [current |-> used.rotations + 2,
                                        previous |-> secret[h].current, overlap |-> TRUE]]
    /\ UNCHANGED <<webhook, accepts, fanout, rows, sender, sent, acked>>

(* The operator gives the receiver the new secret; it keeps the old one.   *)
InstallSecret(h) ==
    /\ accepts' = [accepts EXCEPT ![h] = @ \cup {secret[h].current}]
    /\ UNCHANGED <<webhook, secret, fanout, rows, sender, sent, acked, used>>

(* The overlap is 24 hours: the new secret is installed before it ends,    *)
(* and a request, which times out after 30 seconds, does not outlast it.   *)
OverlapEnds(h) ==
    /\ secret[h].overlap
    /\ secret[h].current \in accepts[h]
    /\ \A s \in Senders : sender[s].pc = "send" /\ WebhookOf(sender[s].row.delivery) = h
                             => secret[h].current \in sender[s].signed
    /\ secret' = [secret EXCEPT ![h].overlap = FALSE]
    /\ accepts' = [accepts EXCEPT ![h] = {secret[h].current}]
    /\ UNCHANGED <<webhook, fanout, rows, sender, sent, acked, used>>

(* cleanup_expired_previous_secrets                                        *)
ClearPreviousSecrets ==
    /\ secret' = [h \in Webhooks |-> IF secret[h].overlap THEN secret[h]
                                     ELSE [secret[h] EXCEPT !.previous = 0]]
    /\ UNCHANGED <<webhook, accepts, fanout, rows, sender, sent, acked, used>>

-----------------------------------------------------------------------------
(* A loop or a request stops where it is; or the statement that records an *)
(* outcome fails, which a loop ignores, also before it would auto-disable. *)
SenderFails(s) ==
    /\ sender[s] # Idle
    /\ used.faults < MaxFaults
    /\ used' = [used EXCEPT !.faults = @ + 1]
    /\ \/ sender' = [sender EXCEPT ![s] = Idle]
       \/ /\ s \in Loops
          /\ sender[s].pc \in {"bury", "record", "disable"}
          /\ sender' = [sender EXCEPT ![s] =
                IF sender[s].pc = "record" /\ ~sender[s].success /\ Exhausted(s)
                THEN [pc |-> "disable", todo |-> sender[s].todo, row |-> sender[s].row]
                ELSE Continue(s)]
    /\ UNCHANGED <<webhook, secret, accepts, fanout, rows, sent, acked>>

Retry(s) == \/ FetchDue(s) \/ LookUpWebhook(s) \/ EndLoop(s) \/ Bury(s)
            \/ RecordRetry(s) \/ AutoDisable(s)

Next ==
    \/ \E e \in Events : SelectWebhooks(e) \/ InsertDeliveries(e)
    \/ \E s \in Loops : Retry(s)
    \/ \E s \in Requests : Redeliver(s) \/ RecordRedelivery(s)
    \/ \E s \in Senders : LoadSecrets(s) \/ Send(s) \/ SenderFails(s)
    \/ \E d \in Deliveries : BackoffEnds(d)
    \/ \E h \in Webhooks : \/ CreateWebhook(h) \/ EnableOrDisable(h) \/ DeleteWebhook(h)
                           \/ RotateSecret(h) \/ InstallSecret(h) \/ OverlapEnds(h)
    \/ ClearPreviousSecrets

Spec == Init /\ [][Next]_vars

(* The 30-second loops keep running and time passes.  Receivers, operators *)
(* and redeliver requests owe nothing.                                     *)
Fairness ==
    /\ \A s \in Loops : WF_vars(Retry(s) \/ LoadSecrets(s) \/ Send(s))
    /\ \A d \in Deliveries : WF_vars(BackoffEnds(d))

FairSpec == Spec /\ Fairness

-----------------------------------------------------------------------------
(* A webhook is auto-disabled for a delivery only when that delivery was   *)
(* really sent max_attempts times, however loops and manual redeliveries   *)
(* overlapped and whichever attempt counts they read: counts may be lost   *)
(* (auto_disable_webhook_for_dead_letter: "exhausted the retry budget"),   *)
(* never invented.                                                         *)
DisabledOnlyAfterBudget ==
    \A s \in Loops : sender[s].pc = "disable" => sent[sender[s].row.delivery] >= MaxAttempts

(* A row counts no more attempts than requests were sent for it.           *)
AttemptsWereSent == \A d \in Deliveries : rows[d].attempts <= sent[d]

(* rotate_webhook_secret: "consumers can rotate without dropped events".   *)
(* Every request under way carries a signature that the receiver can       *)
(* verify, whichever rotation happened after its secrets were loaded.      *)
SignaturesVerify ==
    \A s \in Senders : sender[s].pc = "send" =>
        sender[s].signed \cap accepts[WebhookOf(sender[s].row.delivery)] # {}

(* A delivery recorded as successful by a retry loop stays so: a slower    *)
(* loop that fails the same delivery, or any sequence of stale writes,     *)
(* does not send it back to the queue.  Only a manual redelivery and the   *)
(* deletion of the webhook may.                                            *)
SuccessIsKept ==
    [][\A d \in Deliveries :
          rows[d].success /\ ~rows'[d].success =>
             \/ ~rows'[d].stored
             \/ \E s \in Requests : sender[s].pc = "record" /\ sender'[s] = Idle]_vars

Settled(d) == \/ ~rows[d].stored \/ rows[d].success \/ rows[d].next = "none"
              \/ rows[d].attempts >= MaxAttempts

(* No delivery waits for ever: it succeeds, is dead-lettered, or has used  *)
(* up its attempts, whatever crashes, stale writes, redeliveries and       *)
(* disabled webhooks come in between.                                      *)
DeliveriesSettle == \A d \in Deliveries : []<>Settled(d)

(* Migration 067: next_retry_at "When to next attempt delivery. NULL = no  *)
(* more retries."  So a row that still has a next attempt gets one.        *)
ScheduledMeansRetried ==
    \A d \in Deliveries :
        rows[d].stored /\ ~rows[d].success /\ rows[d].next # "none"
            => rows[d].attempts < MaxAttempts
=============================================================================
