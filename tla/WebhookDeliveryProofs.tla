----------------------- MODULE WebhookDeliveryProofs -----------------------
(***************************************************************************)
(* Proofs about webhook delivery, for any webhooks and events, any number  *)
(* of retry loops and redeliver requests, and any budget of attempts.      *)
(***************************************************************************)
EXTENDS WebhookDelivery, FiniteSetTheorems, TLAPS

(* What a sender holds, by where it is.                                    *)
LEMMA Held ==
    ASSUME TypeOK, NEW s \in Senders
    PROVE  /\ sender[s].pc = "next" => sender[s].todo \in SUBSET Snapshot
           /\ sender[s].pc \in {"bury", "sign", "send", "record", "disable"} =>
                 sender[s].todo \in SUBSET Snapshot /\ sender[s].row \in Snapshot
           /\ sender[s].pc = "send" => sender[s].signed \in SUBSET Versions
           /\ sender[s].pc = "record" => sender[s].success \in BOOLEAN
           /\ sender[s].pc \in {"idle", "next", "bury", "sign", "send", "record", "disable"}
           /\ sender[s].pc = "idle" => sender[s] = Idle
  <1>1. sender[s] \in {Idle} \cup Busy
    BY DEF TypeOK
  <1>2. CASE sender[s] = Idle
    BY <1>2 DEF Idle
  <1>3. CASE sender[s] \in Busy
    BY <1>3 DEF Busy
  <1> QED BY <1>1, <1>2, <1>3

LEMMA HeldNext ==
    ASSUME TypeOK', NEW s \in Senders
    PROVE  /\ sender'[s].pc # "idle" => sender'[s].todo \in SUBSET Snapshot
           /\ sender'[s].pc \in {"bury", "sign", "send", "record", "disable"} =>
                 sender'[s].row \in Snapshot
  BY DEF TypeOK, Idle, Busy

LEMMA SnapshotFields ==
    ASSUME NEW row \in Snapshot
    PROVE  row.delivery \in Deliveries /\ WebhookOf(row.delivery) \in Webhooks /\ row.attempts \in Nat
  BY DEF Snapshot, Deliveries, WebhookOf

LEMMA Moved ==
    ASSUME TypeOK, NEW s \in Senders, NEW to \in {Idle} \cup Busy,
           sender' = [sender EXCEPT ![s] = to]
    PROVE  sender' \in [Senders -> {Idle} \cup Busy]
  BY DEF TypeOK

LEMMA ContinueType ==
    ASSUME NEW s \in Senders, sender[s].todo \in SUBSET Snapshot
    PROVE  Continue(s) \in Busy
  BY DEF Continue, Busy

LEMMA UpdateType ==
    ASSUME TypeOK, NEW d \in Deliveries, NEW row \in Row
    PROVE  Update(d, row) \in [Deliveries -> Row]
  BY DEF TypeOK, Update

LEMMA RowWith ==
    ASSUME NEW row \in Row, NEW success \in BOOLEAN, NEW attempts \in Nat
    PROVE  [row EXCEPT !.success = success, !.attempts = attempts] \in Row
  BY DEF Row

LEMMA CountedType ==
    ASSUME NEW s \in Senders, NEW row \in Row,
           sender[s].success \in BOOLEAN, sender[s].row.attempts \in Nat
    PROVE  Counted(s, row) \in Row
  <1>1. (row.success \/ sender[s].success) \in BOOLEAN
    OBVIOUS
  <1>2. NewAttempts(s) \in Nat
    BY DEF NewAttempts
  <1>3. Counted(s, row) = [row EXCEPT !.success = row.success \/ sender[s].success,
                                     !.attempts = NewAttempts(s)]
    BY DEF Counted, Row
  <1> QED BY <1>1, <1>2, <1>3, RowWith

-----------------------------------------------------------------------------
(* While the overlap of a rotation lasts there is a previous secret and    *)
(* the receiver still has it; afterwards it has the current one.           *)
SecretsKnown ==
    \A h \in Webhooks : IF secret[h].overlap
                        THEN secret[h].previous \in Versions \cap accepts[h]
                        ELSE secret[h].current \in accepts[h]

LEMMA SecretsStep == TypeOK /\ SecretsKnown /\ [Next]_vars => SecretsKnown'
  <1> SUFFICES ASSUME TypeOK, SecretsKnown, [Next]_vars PROVE SecretsKnown'
    OBVIOUS
  <1> USE DEF SecretsKnown
  <1>1. CASE UNCHANGED <<secret, accepts>>
    BY <1>1 DEF Versions
  <1>2. ASSUME NEW h \in Webhooks, RotateSecret(h) PROVE SecretsKnown'
    BY <1>2 DEF RotateSecret, RotationAllowed, TypeOK, Versions
  <1>3. ASSUME NEW h \in Webhooks, InstallSecret(h) PROVE SecretsKnown'
    BY <1>3 DEF InstallSecret, TypeOK, Versions
  <1>4. ASSUME NEW h \in Webhooks, OverlapEnds(h) PROVE SecretsKnown'
    BY <1>4 DEF OverlapEnds, TypeOK, Versions
  <1>5. CASE ClearPreviousSecrets
    BY <1>5 DEF ClearPreviousSecrets, TypeOK, Versions
  <1> QED
    BY <1>1, <1>2, <1>3, <1>4, <1>5
    DEF Next, vars, SelectWebhooks, InsertDeliveries, Retry, FetchDue, LookUpWebhook, EndLoop,
        Bury, RecordRetry, AutoDisable, Redeliver, RecordRedelivery, LoadSecrets, Send,
        SenderFails, BackoffEnds, CreateWebhook, EnableOrDisable, DeleteWebhook

LEMMA TypeStep == TypeOK /\ SecretsKnown /\ [Next]_vars => TypeOK'
  <1> SUFFICES ASSUME TypeOK, SecretsKnown, [Next]_vars PROVE TypeOK'
    OBVIOUS
  <1> USE BoundsAssumption, WebhooksAssumption
  <1>1. ASSUME NEW e \in Events, SelectWebhooks(e) PROVE TypeOK'
    BY <1>1 DEF SelectWebhooks, TypeOK
  <1>2. ASSUME NEW e \in Events, InsertDeliveries(e) PROVE TypeOK'
    <2>1. NewRow \in Row
      BY DEF NewRow, NoRow, Row
    <2>2. rows' \in [Deliveries -> Row]
      BY <1>2, <2>1 DEF InsertDeliveries, TypeOK
    <2>3. fanout' \in [Events -> [pc : {"unseen", "insert", "done"}, to : SUBSET Webhooks]]
      BY <1>2 DEF InsertDeliveries, TypeOK
    <2> QED BY <1>2, <2>2, <2>3 DEF InsertDeliveries, TypeOK
  <1>3. ASSUME NEW s \in Loops, FetchDue(s) PROVE TypeOK'
    <2>1. PICK S \in SUBSET {d \in Deliveries : Due(d)} :
             sender' = [sender EXCEPT ![s] =
                [pc |-> "next",
                 todo |-> {[delivery |-> d, attempts |-> rows[d].attempts] : d \in S}]]
      BY <1>3 DEF FetchDue
    <2>2. \A d \in S : [delivery |-> d, attempts |-> rows[d].attempts] \in Snapshot
      BY DEF TypeOK, Row, Snapshot
    <2>3. [pc |-> "next",
           todo |-> {[delivery |-> d, attempts |-> rows[d].attempts] : d \in S}] \in Busy
      BY <2>2 DEF Busy
    <2>4. sender' \in [Senders -> {Idle} \cup Busy]
      BY <2>1, <2>3, Moved DEF Senders
    <2> QED BY <1>3, <2>4 DEF FetchDue, TypeOK
  <1>4. ASSUME NEW s \in Loops, LookUpWebhook(s) PROVE TypeOK'
    <2> s \in Senders BY DEF Senders
    <2>1. sender[s].todo \in SUBSET Snapshot
      BY <1>4, Held DEF LookUpWebhook
    <2>2. PICK row \in sender[s].todo, pc \in {"sign", "bury"} :
             sender' = [sender EXCEPT ![s] =
                [pc |-> pc, todo |-> sender[s].todo \ {row}, row |-> row]]
      BY <1>4 DEF LookUpWebhook
    <2>3. [pc |-> pc, todo |-> sender[s].todo \ {row}, row |-> row] \in Busy
      BY <2>1 DEF Busy
    <2>4. sender' \in [Senders -> {Idle} \cup Busy]
      BY <2>2, <2>3, Moved
    <2> QED BY <1>4, <2>4 DEF LookUpWebhook, TypeOK
  <1>5. ASSUME NEW s \in Loops, EndLoop(s) PROVE TypeOK'
    BY <1>5 DEF EndLoop, TypeOK, Senders
  <1>6. ASSUME NEW s \in Loops, Bury(s) PROVE TypeOK'
    <2> s \in Senders BY DEF Senders
    <2>1. sender[s].todo \in SUBSET Snapshot /\ sender[s].row \in Snapshot
      BY <1>6, Held DEF Bury
    <2>2. sender[s].row.delivery \in Deliveries
      BY <2>1, SnapshotFields
    <2>3. [rows[sender[s].row.delivery] EXCEPT !.next = "none"] \in Row
      <3>1. rows[sender[s].row.delivery] \in Row
        BY <2>2 DEF TypeOK
      <3> QED BY <3>1 DEF Row
    <2>4. rows' \in [Deliveries -> Row]
      BY <1>6, <2>2, <2>3, UpdateType DEF Bury
    <2>5. sender' \in [Senders -> {Idle} \cup Busy]
      BY <1>6, <2>1, ContinueType, Moved DEF Bury
    <2> QED BY <1>6, <2>4, <2>5 DEF Bury, TypeOK
  <1>7. ASSUME NEW s \in Loops, RecordRetry(s) PROVE TypeOK'
    <2> s \in Senders BY DEF Senders
    <2> DEFINE d == sender[s].row.delivery
               row(n) == [Counted(s, rows[d]) EXCEPT !.next = n]
    <2>1. /\ sender[s].todo \in SUBSET Snapshot /\ sender[s].row \in Snapshot
          /\ sender[s].success \in BOOLEAN
      BY <1>7, Held DEF RecordRetry
    <2>2. d \in Deliveries /\ sender[s].row.attempts \in Nat
      BY <2>1, SnapshotFields
    <2>3. ASSUME NEW n \in {"none", "later"} PROVE row(n) \in Row
      <3>1. rows[d] \in Row
        BY <2>2 DEF TypeOK
      <3> HIDE DEF d
      <3>2. Counted(s, rows[d]) \in Row
        BY <2>1, <2>2, <3>1, CountedType
      <3> QED BY <3>2 DEF Row
    <2>4. /\ rows' = Update(d, row("none")) \/ rows' = Update(d, row("later"))
          /\ \/ sender' = [sender EXCEPT ![s] = Continue(s)]
             \/ sender' = [sender EXCEPT ![s] =
                    [pc |-> "disable", todo |-> sender[s].todo, row |-> sender[s].row]]
      BY <1>7 DEF RecordRetry
    <2>5. rows' \in [Deliveries -> Row]
      <3> HIDE DEF row, d
      <3> QED BY <2>2, <2>3, <2>4, UpdateType
    <2>6. [pc |-> "disable", todo |-> sender[s].todo, row |-> sender[s].row] \in Busy
      BY <2>1 DEF Busy
    <2>7. sender' \in [Senders -> {Idle} \cup Busy]
      BY <2>1, <2>4, <2>6, ContinueType, Moved
    <2> QED BY <1>7, <2>5, <2>7 DEF RecordRetry, TypeOK
  <1>8. ASSUME NEW s \in Loops, AutoDisable(s) PROVE TypeOK'
    <2> s \in Senders BY DEF Senders
    <2>1. sender[s].todo \in SUBSET Snapshot
      BY <1>8, Held DEF AutoDisable
    <2>2. sender' \in [Senders -> {Idle} \cup Busy]
      BY <1>8, <2>1, ContinueType, Moved DEF AutoDisable
    <2>3. webhook' \in [Webhooks -> {"absent", "enabled", "disabled", "deleted"}]
      BY <1>8 DEF AutoDisable, TypeOK
    <2> QED BY <1>8, <2>2, <2>3 DEF AutoDisable, TypeOK
  <1>9. ASSUME NEW s \in Requests, Redeliver(s) PROVE TypeOK'
    <2> s \in Senders BY DEF Senders
    <2>1. PICK d \in Deliveries :
             sender' = [sender EXCEPT ![s] =
                [pc |-> "sign", todo |-> {},
                 row |-> [delivery |-> d, attempts |-> rows[d].attempts]]]
      BY <1>9 DEF Redeliver
    <2>2. [delivery |-> d, attempts |-> rows[d].attempts] \in Snapshot
      BY DEF TypeOK, Row, Snapshot
    <2>3. [pc |-> "sign", todo |-> {},
           row |-> [delivery |-> d, attempts |-> rows[d].attempts]] \in Busy
      BY <2>2 DEF Busy
    <2>4. sender' \in [Senders -> {Idle} \cup Busy]
      BY <2>1, <2>3, Moved
    <2> QED BY <1>9, <2>4 DEF Redeliver, TypeOK
  <1>10. ASSUME NEW s \in Requests, RecordRedelivery(s) PROVE TypeOK'
    <2> s \in Senders BY DEF Senders
    <2> DEFINE d == sender[s].row.delivery
               row == [rows[d] EXCEPT !.success = sender[s].success, !.attempts = @ + 1]
    <2>1. d \in Deliveries /\ sender[s].success \in BOOLEAN
      BY <1>10, Held, SnapshotFields DEF RecordRedelivery
    <2>2. row \in Row
      <3>1. rows[d] \in Row
        BY <2>1 DEF TypeOK
      <3>2. rows[d].attempts + 1 \in Nat
        BY <3>1 DEF Row
      <3>3. row = [rows[d] EXCEPT !.success = sender[s].success,
                                  !.attempts = rows[d].attempts + 1]
        BY <3>1 DEF Row
      <3> HIDE DEF d, row
      <3> QED BY <2>1, <3>1, <3>2, <3>3, RowWith
    <2>3. rows' \in [Deliveries -> Row]
      BY <1>10, <2>1, <2>2, UpdateType DEF RecordRedelivery
    <2>4. sender' \in [Senders -> {Idle} \cup Busy]
      BY <1>10, Moved DEF RecordRedelivery
    <2> QED BY <1>10, <2>3, <2>4 DEF RecordRedelivery, TypeOK
  <1>11. ASSUME NEW s \in Senders, LoadSecrets(s) PROVE TypeOK'
    <2>1. sender[s].todo \in SUBSET Snapshot /\ sender[s].row \in Snapshot
      BY <1>11, Held DEF LoadSecrets
    <2> DEFINE h == WebhookOf(sender[s].row.delivery)
               to == [pc |-> "send", todo |-> sender[s].todo, row |-> sender[s].row,
                      signed |-> ActiveSecrets(h)]
    <2>2. h \in Webhooks
      BY <2>1, SnapshotFields
    <2>3. ActiveSecrets(h) \in SUBSET Versions
      <3> HIDE DEF h
      <3> QED BY <2>2 DEF TypeOK, SecretsKnown, ActiveSecrets
    <2>4. to \in Busy
      <3> HIDE DEF h
      <3> QED BY <2>1, <2>3 DEF Busy
    <2>5. sender' = [sender EXCEPT ![s] = to]
      BY <1>11 DEF LoadSecrets
    <2>6. sender' \in [Senders -> {Idle} \cup Busy]
      <3> HIDE DEF to
      <3> QED BY <2>4, <2>5, Moved
    <2> QED BY <1>11, <2>6 DEF LoadSecrets, TypeOK
  <1>12. ASSUME NEW s \in Senders, Send(s) PROVE TypeOK'
    <2>1. sender[s].todo \in SUBSET Snapshot /\ sender[s].row \in Snapshot
      BY <1>12, Held DEF Send
    <2> DEFINE d == sender[s].row.delivery
    <2>2. d \in Deliveries
      BY <2>1, SnapshotFields
    <2>3. PICK answered \in BOOLEAN :
             /\ acked' = IF answered THEN acked \cup {d} ELSE acked
             /\ sender' = [sender EXCEPT ![s] =
                   [pc |-> "record", todo |-> sender[s].todo, row |-> sender[s].row,
                    success |-> answered]]
      BY <1>12 DEF Send
    <2>4. [pc |-> "record", todo |-> sender[s].todo, row |-> sender[s].row,
           success |-> answered] \in Busy
      BY <2>1 DEF Busy
    <2>5. sender' \in [Senders -> {Idle} \cup Busy]
      BY <2>3, <2>4, Moved
    <2>6. sent' \in [Deliveries -> Nat] /\ acked' \subseteq Deliveries
      BY <1>12, <2>2, <2>3 DEF Send, TypeOK
    <2> QED BY <1>12, <2>5, <2>6 DEF Send, TypeOK
  <1>13. ASSUME NEW s \in Senders, SenderFails(s) PROVE TypeOK'
    <2>1. sender[s].pc \in {"bury", "record", "disable"} =>
             sender[s].todo \in SUBSET Snapshot /\ sender[s].row \in Snapshot
      BY Held
    <2>2. \/ sender' = [sender EXCEPT ![s] = Idle]
          \/ /\ sender[s].pc \in {"bury", "record", "disable"}
             /\ \/ sender' = [sender EXCEPT ![s] = Continue(s)]
                \/ sender' = [sender EXCEPT ![s] =
                      [pc |-> "disable", todo |-> sender[s].todo, row |-> sender[s].row]]
      BY <1>13 DEF SenderFails
    <2>3. sender[s].pc \in {"bury", "record", "disable"} =>
             [pc |-> "disable", todo |-> sender[s].todo, row |-> sender[s].row] \in Busy
      BY <2>1 DEF Busy
    <2>4. sender' \in [Senders -> {Idle} \cup Busy]
      BY <2>1, <2>2, <2>3, ContinueType, Moved
    <2>5. used' \in [redeliveries : 0..MaxRedeliveries, rotations : 0..MaxRotations,
                     faults : 0..MaxFaults]
      BY <1>13 DEF SenderFails, TypeOK
    <2> QED BY <1>13, <2>4, <2>5 DEF SenderFails, TypeOK
  <1>14. ASSUME NEW d \in Deliveries, BackoffEnds(d) PROVE TypeOK'
    BY <1>14 DEF BackoffEnds, TypeOK, Row
  <1>15. ASSUME NEW h \in Webhooks, CreateWebhook(h) \/ EnableOrDisable(h) PROVE TypeOK'
    BY <1>15 DEF CreateWebhook, EnableOrDisable, TypeOK
  <1>16. ASSUME NEW h \in Webhooks, DeleteWebhook(h) PROVE TypeOK'
    <2>1. NoRow \in Row
      BY DEF NoRow, Row
    <2>2. rows' \in [Deliveries -> Row]
      BY <1>16, <2>1 DEF DeleteWebhook, TypeOK
    <2> QED BY <1>16, <2>2 DEF DeleteWebhook, TypeOK
  <1>17. ASSUME NEW h \in Webhooks, RotateSecret(h) \/ InstallSecret(h) \/ OverlapEnds(h)
         PROVE  TypeOK'
    <2>1. CASE RotateSecret(h)
      <3>1. /\ used.rotations \in 0..MaxRotations /\ used.rotations < MaxRotations
            /\ secret[h].current \in Versions
        BY <2>1 DEF RotateSecret, TypeOK
      <3>2. used.rotations + 2 \in Versions
        BY <3>1 DEF Versions
      <3>3. secret' \in [Webhooks -> [current : Versions, previous : {0} \cup Versions,
                                      overlap : BOOLEAN]]
        <4>1. [current |-> used.rotations + 2, previous |-> secret[h].current, overlap |-> TRUE]
                 \in [current : Versions, previous : {0} \cup Versions, overlap : BOOLEAN]
          BY <3>1, <3>2
        <4> QED BY <2>1, <4>1 DEF RotateSecret, TypeOK
      <3>4. used' \in [redeliveries : 0..MaxRedeliveries, rotations : 0..MaxRotations,
                       faults : 0..MaxFaults]
        BY <2>1, <3>1 DEF RotateSecret, TypeOK
      <3> QED BY <2>1, <3>3, <3>4 DEF RotateSecret, TypeOK
    <2>2. CASE InstallSecret(h)
      <3>1. accepts' \in [Webhooks -> SUBSET Versions]
        BY <2>2 DEF InstallSecret, TypeOK
      <3> QED BY <2>2, <3>1 DEF InstallSecret, TypeOK
    <2>3. CASE OverlapEnds(h)
      <3>1. accepts' \in [Webhooks -> SUBSET Versions]
        BY <2>3 DEF OverlapEnds, TypeOK
      <3>2. secret[h] \in [current : Versions, previous : {0} \cup Versions, overlap : BOOLEAN]
        BY DEF TypeOK
      <3>3. [secret[h] EXCEPT !.overlap = FALSE]
              \in [current : Versions, previous : {0} \cup Versions, overlap : BOOLEAN]
        BY <3>2
      <3>4. secret' = [secret EXCEPT ![h] = [secret[h] EXCEPT !.overlap = FALSE]]
        BY <2>3 DEF OverlapEnds
      <3>5. secret' \in [Webhooks -> [current : Versions, previous : {0} \cup Versions,
                                      overlap : BOOLEAN]]
        BY <3>3, <3>4 DEF TypeOK
      <3> QED BY <2>3, <3>1, <3>5 DEF OverlapEnds, TypeOK
    <2> QED BY <1>17, <2>1, <2>2, <2>3
  <1>18. CASE ClearPreviousSecrets
    BY <1>18 DEF ClearPreviousSecrets, TypeOK
  <1>19. CASE UNCHANGED vars
    BY <1>19 DEF vars, TypeOK
  <1> QED BY <1>1, <1>2, <1>3, <1>4, <1>5, <1>6, <1>7, <1>8, <1>9, <1>10, <1>11, <1>12, <1>13,
             <1>14, <1>15, <1>16, <1>17, <1>18, <1>19 DEF Next, Retry

-----------------------------------------------------------------------------
(* A redelivery has been sent before it is counted, so the requests of d   *)
(* that some count may still claim are those not waiting to be recorded.   *)
Unrecorded(d) == {s \in Requests : sender[s].pc = "record" /\ sender[s].row.delivery = d}
Allowance(d) == sent[d] - Cardinality(Unrecorded(d))

(* Whatever a row counts, and whatever count a loop has read and is going  *)
(* to write back, was sent.                                                *)
Covered(loop) ==
    /\ loop.pc # "idle" => \A row \in loop.todo : row.attempts <= Allowance(row.delivery)
    /\ loop.pc \in {"bury", "sign", "send"} =>
          loop.row.attempts <= Allowance(loop.row.delivery)
    /\ loop.pc = "record" => loop.row.attempts + 1 <= Allowance(loop.row.delivery)
    /\ loop.pc = "disable" => MaxAttempts <= sent[loop.row.delivery]

LoopWithinBudget(s) == Covered(sender[s])

WithinBudget ==
    /\ \A d \in Deliveries : rows[d].attempts <= Allowance(d)
    /\ \A s \in Loops : LoopWithinBudget(s)

WebhookInv == TypeOK /\ SecretsKnown /\ SignaturesVerify /\ WithinBudget

LEMMA Counting ==
    ASSUME TypeOK, NEW d \in Deliveries
    PROVE  /\ IsFiniteSet(Unrecorded(d)) /\ Cardinality(Unrecorded(d)) \in Nat
           /\ Allowance(d) \in Int /\ Allowance(d) <= sent[d] /\ sent[d] \in Nat
  <1>1. IsFiniteSet(Unrecorded(d))
    BY RequestsAssumption, FS_Subset DEF Unrecorded
  <1>2. Cardinality(Unrecorded(d)) \in Nat
    BY <1>1, FS_CardinalityType
  <1> QED BY <1>1, <1>2 DEF Allowance, TypeOK

LEMMA CountingNext ==
    ASSUME TypeOK', NEW d \in Deliveries
    PROVE  Allowance(d)' \in Int /\ Allowance(d)' <= sent'[d] /\ sent'[d] \in Nat
  <1>1. IsFiniteSet(Unrecorded(d)')
    BY RequestsAssumption, FS_Subset DEF Unrecorded
  <1>2. Cardinality(Unrecorded(d)') \in Nat
    BY <1>1, FS_CardinalityType
  <1> QED BY <1>1, <1>2 DEF Allowance, TypeOK

(* Only a recorded redelivery or a request that is sent moves an allowance, *)
(* and only upwards.                                                       *)
LEMMA AllowanceKept ==
    ASSUME TypeOK, TypeOK', NEW d \in Deliveries, sent'[d] = sent[d],
           Unrecorded(d)' \subseteq Unrecorded(d)
    PROVE  Allowance(d) <= Allowance(d)'
  <1>1. /\ IsFiniteSet(Unrecorded(d)) /\ Cardinality(Unrecorded(d)) \in Nat
        /\ sent[d] \in Nat
    BY Counting
  <1>2. Cardinality(Unrecorded(d)') <= Cardinality(Unrecorded(d)) /\ Cardinality(Unrecorded(d)') \in Nat
    BY <1>1, FS_Subset, FS_CardinalityType
  <1>3. Allowance(d)' = sent'[d] - Cardinality(Unrecorded(d)')
    BY DEF Allowance
  <1> HIDE DEF Unrecorded
  <1> QED BY <1>1, <1>2, <1>3 DEF Allowance

LEMMA SentBySender ==
    ASSUME TypeOK, TypeOK', NEW s \in Senders, Send(s), NEW d \in Deliveries
    PROVE  /\ Allowance(d) <= Allowance(d)'
           /\ s \in Loops /\ d = sender[s].row.delivery => Allowance(d)' = Allowance(d) + 1
           /\ sent[d] <= sent'[d]
  <1> DEFINE U == Unrecorded(d)
             V == Unrecorded(d)'
  <1>1. IsFiniteSet(U) /\ Cardinality(U) \in Nat /\ sent[d] \in Nat
    BY Counting
  <1>2. Allowance(d) = sent[d] - Cardinality(U) /\ Allowance(d)' = sent'[d] - Cardinality(V)
    BY DEF Allowance
  <1>3. \A r \in Senders \ {s} : sender'[r] = sender[r]
    BY DEF Send, TypeOK
  <1>4. sender[s].pc = "send" /\ sender'[s].pc = "record" /\ sender'[s].row = sender[s].row
    BY DEF Send, TypeOK
  <1>5. /\ sent'[d] = IF d = sender[s].row.delivery THEN sent[d] + 1 ELSE sent[d]
    BY DEF Send, TypeOK
  <1>6. CASE s \in Requests /\ d = sender[s].row.delivery
    <2>1. V = U \cup {s} /\ s \notin U
      BY <1>3, <1>4, <1>6 DEF Unrecorded, Senders
    <2>2. Cardinality(V) = Cardinality(U) + 1
      BY <1>1, <2>1, FS_AddElement
    <2>3. s \notin Loops
      BY <1>6, WebhooksAssumption
    <2> HIDE DEF U, V
    <2> QED BY <1>1, <1>2, <1>5, <1>6, <2>2, <2>3
  <1>7. CASE ~(s \in Requests /\ d = sender[s].row.delivery)
    <2>1. V = U
      BY <1>3, <1>4, <1>7 DEF Unrecorded, Senders
    <2> HIDE DEF U, V
    <2> QED BY <1>1, <1>2, <1>5, <2>1
  <1> QED BY <1>6, <1>7

(* Every loop that stays where it is keeps what holds of it.               *)
LEMMA StaysWithin ==
    ASSUME TypeOK, TypeOK', NEW s \in Loops, LoopWithinBudget(s), sender'[s] = sender[s],
           \A d \in Deliveries : Allowance(d) <= Allowance(d)' /\ sent[d] <= sent'[d]
    PROVE  LoopWithinBudget(s)'
  <1>1. s \in Senders
    BY DEF Senders
  <1>2. \A d \in Deliveries : /\ Allowance(d) \in Int /\ Allowance(d)' \in Int
                              /\ sent[d] \in Nat /\ sent'[d] \in Nat
    BY Counting, CountingNext
  <1>3. \A row \in Snapshot : row.delivery \in Deliveries /\ row.attempts \in Nat
    BY SnapshotFields
  <1>4. /\ sender[s].pc # "idle" => sender[s].todo \in SUBSET Snapshot
        /\ sender[s].pc \in {"bury", "sign", "send", "record", "disable"} =>
              sender[s].row \in Snapshot
    BY <1>1, Held
  <1>5. sender[s].pc # "idle" =>
           \A row \in sender[s].todo : row.attempts <= Allowance(row.delivery)'
    BY <1>2, <1>3, <1>4 DEF LoopWithinBudget, Covered
  <1>6. /\ sender[s].pc \in {"bury", "sign", "send"} =>
              sender[s].row.attempts <= Allowance(sender[s].row.delivery)'
        /\ sender[s].pc = "record" =>
              sender[s].row.attempts + 1 <= Allowance(sender[s].row.delivery)'
        /\ sender[s].pc = "disable" => MaxAttempts <= sent'[sender[s].row.delivery]
    BY <1>2, <1>3, <1>4, BoundsAssumption DEF LoopWithinBudget, Covered
  <1> QED BY <1>5, <1>6 DEF LoopWithinBudget, Covered

LEMMA QuietStep ==
    ASSUME TypeOK, TypeOK', WithinBudget, UNCHANGED <<sender, sent>>,
           \A d \in Deliveries : rows'[d].attempts \in {0, rows[d].attempts}
    PROVE  WithinBudget'
  <1>1. \A d \in Deliveries : Allowance(d)' = Allowance(d)
    BY DEF Allowance, Unrecorded
  <1>2. \A d \in Deliveries : /\ Allowance(d) \in Int /\ rows[d].attempts \in Nat
                              /\ rows[d].attempts <= Allowance(d)
    BY Counting DEF WithinBudget, TypeOK, Row
  <1>3. \A d \in Deliveries : rows'[d].attempts <= Allowance(d)'
    BY <1>1, <1>2
  <1>4. \A d \in Deliveries : Allowance(d) <= Allowance(d)' /\ sent[d] <= sent'[d]
    BY <1>1, Counting
  <1>5. \A s \in Loops : LoopWithinBudget(s)'
    BY <1>4, StaysWithin DEF WithinBudget
  <1> QED BY <1>3, <1>5 DEF WithinBudget

(* A loop moves without sending; a row may take the count that it read.    *)
LEMMA LoopStep ==
    ASSUME TypeOK, TypeOK', WithinBudget, NEW s \in Loops, UNCHANGED sent,
           \A r \in Senders \ {s} : sender'[r] = sender[r],
           \A d \in Deliveries : rows'[d].attempts <= Allowance(d),
           Covered(sender'[s])
    PROVE  WithinBudget'
  <1>1. \A d \in Deliveries : Unrecorded(d)' = Unrecorded(d)
    BY WebhooksAssumption DEF Unrecorded, Senders
  <1>2. \A d \in Deliveries : Allowance(d)' = Allowance(d) /\ sent'[d] = sent[d]
    BY <1>1 DEF Allowance
  <1>3. \A d \in Deliveries : rows'[d].attempts <= Allowance(d)'
    BY <1>2
  <1>4. \A d \in Deliveries : Allowance(d) <= Allowance(d)' /\ sent[d] <= sent'[d]
    BY <1>2, Counting
  <1>5. \A r \in Loops \ {s} : LoopWithinBudget(r)'
    BY <1>4, StaysWithin DEF WithinBudget, Senders
  <1>6. Covered(sender[s])' <=> Covered(sender'[s])
    <2>1. sender'[s].pc # "idle" => sender'[s].todo \in SUBSET Snapshot
      BY HeldNext DEF Senders
    <2>2. sender'[s].pc \in {"bury", "sign", "send", "record", "disable"} =>
             sender'[s].row \in Snapshot
      BY HeldNext DEF Senders
    <2> QED BY <1>2, <2>1, <2>2, SnapshotFields DEF Covered
  <1> QED BY <1>3, <1>5, <1>6 DEF WithinBudget, LoopWithinBudget

(* A request moves; what it counts for d is covered by what it has sent.   *)
LEMMA RequestStep ==
    ASSUME TypeOK, TypeOK', WithinBudget, NEW s \in Requests, UNCHANGED sent,
           \A r \in Senders \ {s} : sender'[r] = sender[r],
           sender'[s].pc # "record",
           \A d \in Deliveries : rows'[d].attempts <= Allowance(d)'
    PROVE  WithinBudget'
  <1>1. \A d \in Deliveries : Unrecorded(d)' \subseteq Unrecorded(d)
    BY DEF Unrecorded, Senders
  <1>2. \A d \in Deliveries : Allowance(d) <= Allowance(d)' /\ sent[d] <= sent'[d]
    BY <1>1, AllowanceKept, Counting
  <1>3. \A r \in Loops : LoopWithinBudget(r)'
    BY <1>2, StaysWithin, WebhooksAssumption DEF WithinBudget, Senders
  <1> QED BY <1>3 DEF WithinBudget

LEMMA BudgetStep == TypeOK /\ TypeOK' /\ WithinBudget /\ [Next]_vars => WithinBudget'
  <1> SUFFICES ASSUME TypeOK, TypeOK', WithinBudget, [Next]_vars PROVE WithinBudget'
    OBVIOUS
  <1>a. \A d \in Deliveries : /\ Allowance(d) \in Int /\ sent[d] \in Nat
                              /\ Allowance(d) <= sent[d]
                              /\ rows[d].attempts \in Nat
                              /\ rows[d].attempts <= Allowance(d)
    BY Counting DEF WithinBudget, TypeOK, Row
  <1>1. ASSUME NEW e \in Events, SelectWebhooks(e) PROVE WithinBudget'
    BY <1>1, QuietStep DEF SelectWebhooks
  <1>2. ASSUME NEW e \in Events, InsertDeliveries(e) PROVE WithinBudget'
    <2>1. \A d \in Deliveries : rows'[d].attempts \in {0, rows[d].attempts}
      BY <1>2 DEF InsertDeliveries, NewRow, NoRow
    <2> QED BY <1>2, <2>1, QuietStep DEF InsertDeliveries
  <1>3. ASSUME NEW s \in Loops, FetchDue(s) PROVE WithinBudget'
    <2>1. PICK S \in SUBSET {d \in Deliveries : Due(d)} :
             sender' = [sender EXCEPT ![s] =
                [pc |-> "next",
                 todo |-> {[delivery |-> d, attempts |-> rows[d].attempts] : d \in S}]]
      BY <1>3 DEF FetchDue
    <2>2. sender'[s].pc = "next" /\ \A r \in Senders \ {s} : sender'[r] = sender[r]
      BY <2>1 DEF TypeOK, Senders
    <2>3. \A row \in sender'[s].todo : row.delivery \in S /\ row.attempts = rows[row.delivery].attempts
      BY <2>1 DEF TypeOK, Senders
    <2>4. UNCHANGED <<rows, sent>>
      BY <1>3 DEF FetchDue
    <2>5. Covered(sender'[s])
      BY <1>a, <2>2, <2>3 DEF Covered
    <2> QED BY <1>a, <2>2, <2>4, <2>5, LoopStep
  <1>4. ASSUME NEW s \in Loops, LookUpWebhook(s) PROVE WithinBudget'
    <2>1. PICK row \in sender[s].todo, pc \in {"sign", "bury"} :
             sender' = [sender EXCEPT ![s] =
                [pc |-> pc, todo |-> sender[s].todo \ {row}, row |-> row]]
      BY <1>4 DEF LookUpWebhook
    <2>2. sender'[s] = [pc |-> pc, todo |-> sender[s].todo \ {row}, row |-> row]
      BY <2>1 DEF TypeOK, Senders
    <2>3. \A r \in Senders \ {s} : sender'[r] = sender[r]
      BY <2>1 DEF TypeOK, Senders
    <2>4. sender[s].pc = "next" /\ Covered(sender[s])
      BY <1>4 DEF LookUpWebhook, WithinBudget, LoopWithinBudget
    <2>5. Covered(sender'[s])
      BY <2>2, <2>4 DEF Covered
    <2> QED BY <1>4, <1>a, <2>3, <2>5, LoopStep DEF LookUpWebhook
  <1>5. ASSUME NEW s \in Loops, EndLoop(s) PROVE WithinBudget'
    <2>1. sender'[s] = Idle /\ \A r \in Senders \ {s} : sender'[r] = sender[r]
      BY <1>5 DEF EndLoop, TypeOK, Senders
    <2> QED BY <1>5, <1>a, <2>1, LoopStep DEF EndLoop, Covered, Idle
  <1>6. ASSUME NEW s \in Loops, sender' = [sender EXCEPT ![s] = Continue(s)], UNCHANGED sent,
               sender[s].pc # "idle",
               \A d \in Deliveries : rows'[d].attempts <= Allowance(d)
        PROVE  WithinBudget'
    <2>1. /\ sender'[s] = [pc |-> "next", todo |-> sender[s].todo]
          /\ \A r \in Senders \ {s} : sender'[r] = sender[r]
      BY <1>6 DEF TypeOK, Senders, Continue
    <2>2. Covered(sender'[s])
      BY <1>6, <2>1 DEF Covered, WithinBudget, LoopWithinBudget
    <2> QED BY <1>6, <2>1, <2>2, LoopStep
  <1>7. ASSUME NEW s \in Loops, Bury(s) PROVE WithinBudget'
    <2>1. \A d \in Deliveries : rows'[d].attempts = rows[d].attempts
      BY <1>7 DEF Bury, Update, TypeOK, Row
    <2> QED BY <1>6, <1>7, <1>a, <2>1 DEF Bury
  <1>8. ASSUME NEW s \in Loops, RecordRetry(s) PROVE WithinBudget'
    <2> DEFINE t == sender[s].row.delivery
    <2>1. s \in Senders /\ sender[s].pc = "record" /\ UNCHANGED sent
      BY <1>8 DEF RecordRetry, Senders
    <2>2. /\ sender[s].todo \in SUBSET Snapshot /\ sender[s].row \in Snapshot
          /\ sender[s].success \in BOOLEAN
      BY <2>1, Held
    <2>3. t \in Deliveries /\ sender[s].row.attempts \in Nat
      BY <2>2, SnapshotFields
    <2>4. sender[s].row.attempts + 1 <= Allowance(t)
      BY <2>1 DEF WithinBudget, LoopWithinBudget, Covered
    <2>5. \A d \in Deliveries : rows'[d].attempts <= Allowance(d)
      <3>1. \A d \in Deliveries : rows'[d].attempts \in
               {rows[d].attempts} \cup (IF d = t THEN {sender[s].row.attempts + 1} ELSE {})
        <4>1. /\ rows[t] \in Row
              /\ \/ rows' = Update(t, [Counted(s, rows[t]) EXCEPT !.next = "none"])
                 \/ rows' = Update(t, [Counted(s, rows[t]) EXCEPT !.next = "later"])
          BY <1>8, <2>3 DEF RecordRetry, TypeOK
        <4> DEFINE new(n) == [Counted(s, rows[t]) EXCEPT !.next = n]
        <4>2. \A n : new(n).attempts = sender[s].row.attempts + 1
          BY <4>1 DEF Counted, NewAttempts, Row
        <4> HIDE DEF new
        <4>3. \A n : Update(t, new(n)) = rows \/ Update(t, new(n)) = [rows EXCEPT ![t] = new(n)]
          BY DEF Update
        <4>4. rows' = rows \/ \E n : rows' = [rows EXCEPT ![t] = new(n)]
          BY <4>1, <4>3 DEF new
        <4> HIDE DEF t
        <4> QED BY <2>3, <4>2, <4>4 DEF TypeOK
      <3> HIDE DEF t
      <3> QED BY <1>a, <2>3, <2>4, <3>1
    <2>6. CASE sender' = [sender EXCEPT ![s] = Continue(s)]
      BY <1>6, <2>1, <2>5, <2>6
    <2>7. CASE /\ Exhausted(s)
               /\ sender' = [sender EXCEPT ![s] =
                    [pc |-> "disable", todo |-> sender[s].todo, row |-> sender[s].row]]
      <3>1. /\ sender'[s] = [pc |-> "disable", todo |-> sender[s].todo, row |-> sender[s].row]
            /\ \A r \in Senders \ {s} : sender'[r] = sender[r]
        BY <2>7 DEF TypeOK, Senders
      <3>2. MaxAttempts <= sent[t]
        <4> HIDE DEF t
        <4> QED BY <1>a, <2>3, <2>4, <2>7, BoundsAssumption DEF Exhausted, NewAttempts
      <3>3. Covered(sender'[s])
        BY <2>1, <3>1, <3>2 DEF Covered, WithinBudget, LoopWithinBudget
      <3> QED BY <2>1, <2>5, <3>1, <3>3, LoopStep
    <2> QED BY <1>8, <2>6, <2>7 DEF RecordRetry
  <1>9. ASSUME NEW s \in Loops, AutoDisable(s) PROVE WithinBudget'
    BY <1>6, <1>9, <1>a DEF AutoDisable
  <1>10. ASSUME NEW s \in Requests, Redeliver(s) PROVE WithinBudget'
    <2>1. sender'[s].pc # "record" /\ \A r \in Senders \ {s} : sender'[r] = sender[r]
      BY <1>10 DEF Redeliver, TypeOK, Senders
    <2>2. \A d \in Deliveries : Unrecorded(d)' \subseteq Unrecorded(d)
      BY <2>1 DEF Unrecorded, Senders
    <2>3. \A d \in Deliveries : Allowance(d) <= Allowance(d)' /\ Allowance(d)' \in Int
      BY <1>10, <2>2, AllowanceKept, CountingNext DEF Redeliver
    <2>4. \A d \in Deliveries : rows'[d].attempts <= Allowance(d)'
      BY <1>10, <1>a, <2>3 DEF Redeliver
    <2> QED BY <1>10, <2>1, <2>4, RequestStep DEF Redeliver
  <1>11. ASSUME NEW s \in Requests, RecordRedelivery(s) PROVE WithinBudget'
    <2>1. /\ sender'[s].pc # "record" /\ \A r \in Senders \ {s} : sender'[r] = sender[r]
          /\ sender[s].pc = "record" /\ UNCHANGED sent
      BY <1>11 DEF RecordRedelivery, TypeOK, Senders, Idle
    <2>2. PICK t \in Deliveries : t = sender[s].row.delivery
      BY <2>1, Held, SnapshotFields DEF Senders
    <2>3. \A d \in Deliveries : Allowance(d) <= Allowance(d)' /\ Allowance(d)' \in Int
      <3>1. \A d \in Deliveries : Unrecorded(d)' \subseteq Unrecorded(d)
        BY <2>1 DEF Unrecorded, Senders
      <3> QED BY <2>1, <3>1, AllowanceKept, CountingNext
    <2>4. Allowance(t)' = Allowance(t) + 1
      <3> DEFINE U == Unrecorded(t)
      <3>1. Unrecorded(t)' = U \ {s} /\ s \in U
        BY <2>1, <2>2 DEF Unrecorded, Senders
      <3>2. IsFiniteSet(U) /\ Cardinality(U) \in Nat /\ sent[t] \in Nat
        BY <2>2, Counting
      <3>3. Cardinality(U \ {s}) = Cardinality(U) - 1
        BY <3>1, <3>2, FS_RemoveElement
      <3>4. Allowance(t) = sent[t] - Cardinality(U) /\ Allowance(t)' = sent[t] - Cardinality(U \ {s})
        BY <2>1, <3>1 DEF Allowance
      <3> HIDE DEF U
      <3> QED BY <3>2, <3>3, <3>4
    <2>5. \A d \in Deliveries : rows'[d].attempts \in
             {rows[d].attempts} \cup (IF d = t THEN {rows[d].attempts + 1} ELSE {})
      BY <1>11, <2>2 DEF RecordRedelivery, Update, TypeOK, Row
    <2>6. \A d \in Deliveries : rows'[d].attempts <= Allowance(d)'
      BY <1>a, <2>3, <2>4, <2>5
    <2> QED BY <2>1, <2>6, RequestStep
  <1>12. ASSUME NEW s \in Senders, LoadSecrets(s) PROVE WithinBudget'
    <2> DEFINE signed == ActiveSecrets(WebhookOf(sender[s].row.delivery))
    <2>1. /\ sender'[s] = [pc |-> "send", todo |-> sender[s].todo, row |-> sender[s].row,
                           signed |-> signed]
          /\ sender[s].pc = "sign" /\ UNCHANGED <<rows, sent>>
          /\ \A r \in Senders \ {s} : sender'[r] = sender[r]
      BY <1>12 DEF LoadSecrets, TypeOK
    <2> HIDE DEF signed
    <2>2. CASE s \in Loops
      <3>1. Covered(sender'[s])
        BY <2>1, <2>2 DEF Covered, WithinBudget, LoopWithinBudget
      <3> QED BY <1>a, <2>1, <2>2, <3>1, LoopStep
    <2>3. CASE s \in Requests
      <3>1. \A d \in Deliveries : Unrecorded(d)' \subseteq Unrecorded(d)
        BY <2>1 DEF Unrecorded, Senders
      <3>2. \A d \in Deliveries : Allowance(d) <= Allowance(d)' /\ Allowance(d)' \in Int
        BY <2>1, <3>1, AllowanceKept, CountingNext
      <3> QED BY <1>a, <2>1, <2>3, <3>2, RequestStep
    <2> QED BY <2>2, <2>3 DEF Senders
  <1>13. ASSUME NEW s \in Senders, Send(s) PROVE WithinBudget'
    <2>1. PICK answered \in BOOLEAN :
             sender' = [sender EXCEPT ![s] =
                   [pc |-> "record", todo |-> sender[s].todo, row |-> sender[s].row,
                    success |-> answered]]
      BY <1>13 DEF Send
    <2>2. /\ sender'[s] = [pc |-> "record", todo |-> sender[s].todo, row |-> sender[s].row,
                           success |-> answered]
          /\ sender[s].pc = "send" /\ UNCHANGED rows
          /\ \A r \in Senders \ {s} : sender'[r] = sender[r]
      BY <1>13, <2>1 DEF Send, TypeOK
    <2>3. \A d \in Deliveries :
             /\ Allowance(d) <= Allowance(d)' /\ sent[d] <= sent'[d]
             /\ Allowance(d)' \in Int
             /\ s \in Loops /\ d = sender[s].row.delivery => Allowance(d)' = Allowance(d) + 1
      BY <1>13, SentBySender, CountingNext
    <2>4. \A d \in Deliveries : rows'[d].attempts <= Allowance(d)'
      BY <1>a, <2>2, <2>3
    <2>5. \A r \in Loops \ {s} : LoopWithinBudget(r)'
      BY <2>2, <2>3, StaysWithin DEF WithinBudget, Senders
    <2>6. ASSUME s \in Loops PROVE LoopWithinBudget(s)'
      <3>1. sender[s].todo \in SUBSET Snapshot /\ sender[s].row \in Snapshot
        BY <2>2, Held
      <3>2. \A row \in Snapshot : row.delivery \in Deliveries /\ row.attempts \in Nat
        BY SnapshotFields
      <3>3. Covered(sender[s])
        BY <2>6 DEF WithinBudget, LoopWithinBudget
      <3>4. \A row \in sender[s].todo : row.attempts <= Allowance(row.delivery)'
        BY <1>a, <2>2, <2>3, <3>1, <3>2, <3>3 DEF Covered
      <3>5. sender[s].row.attempts + 1 <= Allowance(sender[s].row.delivery)'
        BY <1>a, <2>2, <2>3, <2>6, <3>1, <3>2, <3>3 DEF Covered
      <3> QED BY <2>2, <3>4, <3>5 DEF LoopWithinBudget, Covered
    <2> QED BY <2>4, <2>5, <2>6 DEF WithinBudget
  <1>14. ASSUME NEW s \in Senders, SenderFails(s) PROVE WithinBudget'
    <2>1. UNCHANGED <<rows, sent>>
      BY <1>14 DEF SenderFails
    <2>2. CASE sender' = [sender EXCEPT ![s] = Idle]
      <3>1. sender'[s] = Idle /\ \A r \in Senders \ {s} : sender'[r] = sender[r]
        BY <2>2 DEF TypeOK
      <3>2. CASE s \in Loops
        BY <1>a, <2>1, <3>1, <3>2, LoopStep DEF Covered, Idle
      <3>3. CASE s \in Requests
        <4>1. \A d \in Deliveries : Unrecorded(d)' \subseteq Unrecorded(d)
          BY <3>1 DEF Unrecorded, Senders, Idle
        <4>2. \A d \in Deliveries : Allowance(d) <= Allowance(d)' /\ Allowance(d)' \in Int
          BY <2>1, <4>1, AllowanceKept, CountingNext
        <4> QED BY <1>a, <2>1, <3>1, <3>3, <4>2, RequestStep DEF Idle
      <3> QED BY <3>2, <3>3 DEF Senders
    <2>3. CASE s \in Loops /\ sender[s].pc # "idle" /\ sender' = [sender EXCEPT ![s] = Continue(s)]
      BY <1>6, <1>a, <2>1, <2>3
    <2>4. CASE /\ s \in Loops /\ sender[s].pc = "record" /\ Exhausted(s)
               /\ sender' = [sender EXCEPT ![s] =
                    [pc |-> "disable", todo |-> sender[s].todo, row |-> sender[s].row]]
      <3> DEFINE t == sender[s].row.delivery
      <3>1. /\ sender'[s] = [pc |-> "disable", todo |-> sender[s].todo, row |-> sender[s].row]
            /\ \A r \in Senders \ {s} : sender'[r] = sender[r]
        BY <2>4 DEF TypeOK
      <3>2. t \in Deliveries /\ sender[s].row.attempts \in Nat
        BY <2>4, Held, SnapshotFields
      <3>3. sender[s].row.attempts + 1 <= Allowance(t)
        BY <2>4 DEF WithinBudget, LoopWithinBudget, Covered
      <3>4. MaxAttempts <= sent[t]
        <4> HIDE DEF t
        <4> QED BY <1>a, <2>4, <3>2, <3>3, BoundsAssumption DEF Exhausted, NewAttempts
      <3>5. Covered(sender'[s])
        BY <2>4, <3>1, <3>4 DEF Covered, WithinBudget, LoopWithinBudget
      <3> QED BY <1>a, <2>1, <2>4, <3>1, <3>5, LoopStep
    <2> QED BY <1>14, <2>2, <2>3, <2>4 DEF SenderFails
  <1>15. ASSUME NEW d \in Deliveries, BackoffEnds(d) PROVE WithinBudget'
    <2>1. \A c \in Deliveries : rows'[c].attempts = rows[c].attempts
      BY <1>15 DEF BackoffEnds, TypeOK, Row
    <2> QED BY <1>15, <2>1, QuietStep DEF BackoffEnds
  <1>16. ASSUME NEW h \in Webhooks, DeleteWebhook(h) PROVE WithinBudget'
    <2>1. \A c \in Deliveries : rows'[c].attempts \in {0, rows[c].attempts}
      BY <1>16 DEF DeleteWebhook, NoRow
    <2> QED BY <1>16, <2>1, QuietStep DEF DeleteWebhook
  <1>17. CASE UNCHANGED <<rows, sender, sent>>
    BY <1>17, QuietStep
  <1> QED
    BY <1>1, <1>2, <1>3, <1>4, <1>5, <1>7, <1>8, <1>9, <1>10, <1>11, <1>12, <1>13, <1>14,
       <1>15, <1>16, <1>17
    DEF Next, Retry, vars, CreateWebhook, EnableOrDisable, RotateSecret, InstallSecret,
        OverlapEnds, ClearPreviousSecrets

LEMMA SignedStep == TypeOK /\ SecretsKnown /\ SignaturesVerify /\ [Next]_vars => SignaturesVerify'
  <1> SUFFICES ASSUME TypeOK, SecretsKnown, SignaturesVerify, [Next]_vars
               PROVE  SignaturesVerify'
    OBVIOUS
  <1> DEFINE Verifies(s) == sender[s].pc = "send" =>
                sender[s].signed \cap accepts[WebhookOf(sender[s].row.delivery)] # {}
  <1>1. CASE UNCHANGED <<sender, accepts>>
    BY <1>1 DEF SignaturesVerify
  <1>2. ASSUME NEW s \in Senders, UNCHANGED accepts, Verifies(s)',
               \A r \in Senders \ {s} : sender'[r] = sender[r]
        PROVE  SignaturesVerify'
    BY <1>2 DEF SignaturesVerify
  <1>3. ASSUME NEW s \in Loops, Retry(s) PROVE SignaturesVerify'
    <2>1. /\ UNCHANGED accepts /\ \A r \in Senders \ {s} : sender'[r] = sender[r]
          /\ sender'[s].pc # "send"
      BY <1>3 DEF Retry, FetchDue, LookUpWebhook, EndLoop, Bury, RecordRetry, AutoDisable,
                  TypeOK, Senders, Continue, Idle
    <2> QED BY <1>2, <2>1 DEF Senders
  <1>4. ASSUME NEW s \in Requests, Redeliver(s) \/ RecordRedelivery(s) PROVE SignaturesVerify'
    <2>1. /\ UNCHANGED accepts /\ \A r \in Senders \ {s} : sender'[r] = sender[r]
          /\ sender'[s].pc # "send"
      BY <1>4 DEF Redeliver, RecordRedelivery, TypeOK, Senders, Idle
    <2> QED BY <1>2, <2>1 DEF Senders
  <1>5. ASSUME NEW s \in Senders, Send(s) \/ SenderFails(s) PROVE SignaturesVerify'
    <2>1. /\ UNCHANGED accepts /\ \A r \in Senders \ {s} : sender'[r] = sender[r]
          /\ sender'[s].pc # "send"
      BY <1>5 DEF Send, SenderFails, TypeOK, Senders, Continue, Idle
    <2> QED BY <1>2, <2>1
  <1>6. ASSUME NEW s \in Senders, LoadSecrets(s) PROVE SignaturesVerify'
    <2>1. PICK h \in Webhooks : h = WebhookOf(sender[s].row.delivery)
      BY <1>6, Held, SnapshotFields DEF LoadSecrets
    <2> DEFINE signed == ActiveSecrets(h)
    <2>2. signed \cap accepts[h] # {}
      BY DEF SecretsKnown, ActiveSecrets
    <2>3. /\ sender'[s] = [pc |-> "send", todo |-> sender[s].todo, row |-> sender[s].row,
                           signed |-> signed]
          /\ UNCHANGED accepts /\ \A r \in Senders \ {s} : sender'[r] = sender[r]
      BY <1>6, <2>1 DEF LoadSecrets, TypeOK
    <2> HIDE DEF signed
    <2>4. Verifies(s)'
      BY <2>1, <2>2, <2>3
    <2> QED BY <1>2, <2>3, <2>4
  <1>7. ASSUME NEW h \in Webhooks, InstallSecret(h) PROVE SignaturesVerify'
    <2>1. UNCHANGED sender /\ \A g \in Webhooks : accepts[g] \subseteq accepts'[g]
      BY <1>7 DEF InstallSecret, TypeOK
    <2>2. ASSUME NEW s \in Senders, sender[s].pc = "send"
          PROVE  WebhookOf(sender[s].row.delivery) \in Webhooks
      BY <2>2, Held, SnapshotFields
    <2> QED BY <2>1, <2>2 DEF SignaturesVerify
  <1>8. ASSUME NEW h \in Webhooks, OverlapEnds(h) PROVE SignaturesVerify'
    <2>1. /\ UNCHANGED sender
          /\ \A g \in Webhooks : accepts'[g] = IF g = h THEN {secret[h].current} ELSE accepts[g]
          /\ \A s \in Senders : sender[s].pc = "send" /\ WebhookOf(sender[s].row.delivery) = h
                                   => secret[h].current \in sender[s].signed
      BY <1>8 DEF OverlapEnds, TypeOK
    <2>2. ASSUME NEW s \in Senders, sender[s].pc = "send"
          PROVE  WebhookOf(sender[s].row.delivery) \in Webhooks
      BY <2>2, Held, SnapshotFields
    <2> QED BY <2>1, <2>2 DEF SignaturesVerify
  <1> QED
    BY <1>1, <1>3, <1>4, <1>5, <1>6, <1>7, <1>8
    DEF Next, vars, SelectWebhooks, InsertDeliveries, BackoffEnds, CreateWebhook,
        EnableOrDisable, DeleteWebhook, RotateSecret, ClearPreviousSecrets

-----------------------------------------------------------------------------
LEMMA InitInv == Init => WebhookInv
  <1> SUFFICES ASSUME Init PROVE WebhookInv
    OBVIOUS
  <1> USE BoundsAssumption DEF Init
  <1>1. TypeOK
    <2>1. NoRow \in Row
      BY DEF NoRow, Row
    <2> QED BY <2>1 DEF TypeOK, Versions
  <1>2. SecretsKnown
    BY DEF SecretsKnown
  <1>3. SignaturesVerify
    BY DEF SignaturesVerify, Idle
  <1>4. WithinBudget
    <2>1. \A d \in Deliveries : Unrecorded(d) = {}
      BY DEF Unrecorded, Idle, Senders
    <2>2. \A d \in Deliveries : Allowance(d) = 0
      <3> SUFFICES ASSUME NEW d \in Deliveries PROVE Allowance(d) = 0
        OBVIOUS
      <3>1. Cardinality({}) = 0
        BY FS_EmptySet
      <3>2. Allowance(d) = sent[d] - Cardinality({})
        BY <2>1 DEF Allowance
      <3>3. sent[d] = 0
        OBVIOUS
      <3> QED BY <3>1, <3>2, <3>3
    <2> QED BY <2>2 DEF WithinBudget, LoopWithinBudget, Covered, NoRow, Idle, Senders
  <1> QED BY <1>1, <1>2, <1>3, <1>4 DEF WebhookInv

LEMMA Invariant == Spec => []WebhookInv
  <1>1. WebhookInv /\ [Next]_vars => WebhookInv'
    BY SecretsStep, TypeStep, SignedStep, BudgetStep DEF WebhookInv
  <1> QED BY InitInv, <1>1, PTL DEF Spec

(* Every variable keeps its type, for every set of webhooks, events,       *)
(* loops and redeliver requests: in particular a rotation that is under    *)
(* way always has a previous secret to sign with.                          *)
THEOREM TypeCorrect == Spec => []TypeOK
  <1>1. WebhookInv => TypeOK
    BY DEF WebhookInv
  <1> QED BY Invariant, <1>1, PTL

(* Attempt counts that overlapping loops and redeliveries read, lose and   *)
(* write back never exceed the number of requests sent.                    *)
THEOREM HonestCounts == Spec => []AttemptsWereSent
  <1>1. WebhookInv => AttemptsWereSent
    <2> SUFFICES ASSUME WebhookInv, NEW d \in Deliveries PROVE rows[d].attempts <= sent[d]
      BY DEF AttemptsWereSent
    <2>1. rows[d].attempts <= Allowance(d) /\ rows[d].attempts \in Nat
      BY DEF WebhookInv, WithinBudget, TypeOK, Row
    <2>2. Allowance(d) \in Int /\ Allowance(d) <= sent[d] /\ sent[d] \in Nat
      BY Counting DEF WebhookInv
    <2> QED BY <2>1, <2>2
  <1> QED BY Invariant, <1>1, PTL

(* A webhook is disabled for a delivery only after max_attempts requests   *)
(* of that delivery.                                                       *)
THEOREM BudgetSpent == Spec => []DisabledOnlyAfterBudget
  <1>1. WebhookInv => DisabledOnlyAfterBudget
    <2> SUFFICES ASSUME WebhookInv, NEW s \in Loops, sender[s].pc = "disable"
                 PROVE  sent[sender[s].row.delivery] >= MaxAttempts
      BY DEF DisabledOnlyAfterBudget
    <2>1. MaxAttempts <= sent[sender[s].row.delivery]
      BY DEF WebhookInv, WithinBudget, LoopWithinBudget, Covered
    <2>2. sent[sender[s].row.delivery] \in Nat
      BY Held, SnapshotFields DEF WebhookInv, TypeOK, Senders
    <2> QED BY <2>1, <2>2, BoundsAssumption
  <1> QED BY Invariant, <1>1, PTL

(* Whatever rotations happen, a request under way carries a signature its  *)
(* receiver can verify.                                                    *)
THEOREM VerifiableSignatures == Spec => []SignaturesVerify
  <1>1. WebhookInv => SignaturesVerify
    BY DEF WebhookInv
  <1> QED BY Invariant, <1>1, PTL

-----------------------------------------------------------------------------
(* The rows of an event exist only once the producer has inserted them, so *)
(* the INSERT overwrites none.                                             *)
InsertedOnce == \A d \in Deliveries : fanout[d[1]].pc # "done" => rows[d] = NoRow

LEMMA InsertedOnceStep == TypeOK /\ InsertedOnce /\ [Next]_vars => InsertedOnce'
  <1> SUFFICES ASSUME TypeOK, InsertedOnce, [Next]_vars PROVE InsertedOnce'
    OBVIOUS
  <1>0. \A d \in Deliveries : d[1] \in Events /\ rows[d] \in Row
    BY DEF TypeOK, Deliveries
  <1>1. ASSUME UNCHANGED fanout,
               \A d \in Deliveries : ~rows[d].stored /\ rows[d].next # "later" =>
                  rows'[d] \in {rows[d], NoRow}
        PROVE  InsertedOnce'
    <2>1. ASSUME NEW d \in Deliveries, rows[d] = NoRow PROVE rows'[d] = NoRow
      <3>1. ~rows[d].stored /\ rows[d].next # "later"
        BY <2>1 DEF NoRow
      <3> QED BY <1>1, <2>1, <3>1
    <2> QED BY <1>1, <2>1 DEF InsertedOnce
  <1>2. ASSUME NEW e \in Events, SelectWebhooks(e) PROVE InsertedOnce'
    BY <1>2 DEF SelectWebhooks, InsertedOnce, TypeOK
  <1>3. ASSUME NEW e \in Events, InsertDeliveries(e) PROVE InsertedOnce'
    <2>1. fanout'[e].pc = "done" /\ \A f \in Events \ {e} : fanout'[f] = fanout[f]
      BY <1>3 DEF InsertDeliveries, TypeOK
    <2>2. \A d \in Deliveries : d[1] # e => rows'[d] = rows[d]
      BY <1>3 DEF InsertDeliveries, TypeOK
    <2> QED BY <1>0, <2>1, <2>2 DEF InsertedOnce
  <1>4. ASSUME NEW e \in Deliveries, NEW row, rows' = Update(e, row), UNCHANGED fanout
        PROVE  InsertedOnce'
    BY <1>1, <1>4 DEF Update, TypeOK
  <1>5. ASSUME NEW s \in Senders, Bury(s) \/ RecordRetry(s) \/ RecordRedelivery(s)
        PROVE  InsertedOnce'
    <2>1. sender[s].row.delivery \in Deliveries
      BY <1>5, Held, SnapshotFields DEF Bury, RecordRetry, RecordRedelivery
    <2>2. /\ \E row : rows' = Update(sender[s].row.delivery, row)
          /\ UNCHANGED fanout
      BY <1>5 DEF Bury, RecordRetry, RecordRedelivery
    <2> QED BY <1>4, <2>1, <2>2
  <1>6. ASSUME NEW d \in Deliveries, BackoffEnds(d) PROVE InsertedOnce'
    BY <1>1, <1>6 DEF BackoffEnds, TypeOK
  <1>7. ASSUME NEW h \in Webhooks, DeleteWebhook(h) PROVE InsertedOnce'
    BY <1>1, <1>7 DEF DeleteWebhook, TypeOK
  <1>8. CASE UNCHANGED <<rows, fanout>>
    BY <1>1, <1>8
  <1> QED
    BY <1>2, <1>3, <1>5, <1>6, <1>7, <1>8
    DEF Next, vars, Retry, Senders, FetchDue, LookUpWebhook, EndLoop, AutoDisable, Redeliver,
        LoadSecrets, Send, SenderFails, CreateWebhook, EnableOrDisable, RotateSecret,
        InstallSecret, OverlapEnds, ClearPreviousSecrets

(* Only a manual redelivery or the deletion of the webhook takes back the  *)
(* success of a delivery: a retry loop that read the row before it         *)
(* succeeded does not.                                                     *)
THEOREM SuccessKept == Spec => SuccessIsKept
  <1>1. Init => InsertedOnce
    BY DEF Init, InsertedOnce
  <1>2. Spec => []InsertedOnce
    BY <1>1, InsertedOnceStep, TypeCorrect, PTL DEF Spec
  <1>3. ASSUME TypeOK, InsertedOnce, [Next]_vars, NEW d \in Deliveries,
               rows[d].success, ~rows'[d].success
        PROVE  \/ ~rows'[d].stored
               \/ \E s \in Requests : sender[s].pc = "record" /\ sender'[s] = Idle
    <2>1. ASSUME NEW s \in Requests, RecordRedelivery(s)
          PROVE  sender[s].pc = "record" /\ sender'[s] = Idle
      BY <1>3, <2>1 DEF RecordRedelivery, TypeOK, Senders
    <2>2. ASSUME NEW s \in Loops, RecordRetry(s) PROVE rows'[d].success
      <3> DEFINE e == sender[s].row.delivery
      <3>1. e \in Deliveries /\ sender[s].success \in BOOLEAN
        BY <1>3, <2>2, Held, SnapshotFields DEF RecordRetry, Senders
      <3>2. CASE d # e \/ ~rows[e].stored
        BY <1>3, <2>2, <3>1, <3>2 DEF RecordRetry, Update, TypeOK
      <3>3. CASE d = e /\ rows[e].stored
        <4>1. rows[e] \in Row
          BY <1>3, <3>1 DEF TypeOK
        <4>2. Counted(s, rows[e]).success /\ Counted(s, rows[e]) \in Row
          <5>1. sender[s].row.attempts \in Nat /\ s \in Senders
            BY <1>3, <2>2, Held, SnapshotFields DEF RecordRetry, Senders
          <5>2. Counted(s, rows[e]) \in Row
            BY <3>1, <4>1, <5>1, CountedType
          <5>3. Counted(s, rows[e]).success = (rows[e].success \/ sender[s].success)
            BY <4>1 DEF Counted, Row
          <5> QED BY <1>3, <3>3, <5>2, <5>3
        <4>3. PICK n \in {"none", "later"} : rows' = Update(e, [Counted(s, rows[e]) EXCEPT !.next = n])
          BY <2>2 DEF RecordRetry
        <4>4. rows'[e] = [Counted(s, rows[e]) EXCEPT !.next = n]
          BY <1>3, <3>1, <3>3, <4>3 DEF Update, TypeOK
        <4> QED BY <3>3, <4>2, <4>4 DEF Row
      <3> QED BY <3>2, <3>3
    <2>3. ASSUME NEW s \in Loops, Bury(s) PROVE rows'[d].success
      <3>1. sender[s].row.delivery \in Deliveries
        BY <1>3, <2>3, Held, SnapshotFields DEF Bury, Senders
      <3> QED BY <1>3, <2>3, <3>1 DEF Bury, Update, TypeOK, Row
    <2>4. ASSUME NEW e \in Events, InsertDeliveries(e) PROVE rows'[d].success
      <3>1. d[1] # e
        BY <1>3, <2>4 DEF InsertDeliveries, InsertedOnce, NoRow
      <3> QED BY <1>3, <2>4, <3>1 DEF InsertDeliveries, TypeOK
    <2>5. ASSUME NEW e \in Deliveries, BackoffEnds(e) PROVE rows'[d].success
      BY <1>3, <2>5 DEF BackoffEnds, TypeOK, Row
    <2>6. ASSUME NEW h \in Webhooks, DeleteWebhook(h) PROVE ~rows'[d].stored
      BY <1>3, <2>6 DEF DeleteWebhook, NoRow
    <2>7. CASE UNCHANGED rows
      BY <1>3, <2>7
    <2> QED
      BY <1>3, <2>1, <2>2, <2>3, <2>4, <2>5, <2>6, <2>7
      DEF Next, vars, Retry, SelectWebhooks, FetchDue, LookUpWebhook, EndLoop, AutoDisable,
          Redeliver, LoadSecrets, Send, SenderFails, CreateWebhook, EnableOrDisable,
          RotateSecret, InstallSecret, OverlapEnds, ClearPreviousSecrets
  <1>4. TypeOK /\ InsertedOnce /\ [Next]_vars =>
          [\A d \in Deliveries :
             rows[d].success /\ ~rows'[d].success =>
                \/ ~rows'[d].stored
                \/ \E s \in Requests : sender[s].pc = "record" /\ sender'[s] = Idle]_vars
    BY <1>3
  <1> QED BY <1>2, <1>4, TypeCorrect, PTL DEF Spec, SuccessIsKept

-----------------------------------------------------------------------------
(* A row that still has a next attempt has attempts left, succeeded or not *)
(* (a loop may schedule a row that another loop has completed), as long as *)
(* only the retry loops send.                                              *)
AttemptsLeft == \A d \in Deliveries : rows[d].next # "none" => rows[d].attempts < MaxAttempts
OnlyLoopsSend == \A s \in Requests : sender[s] = Idle
NoRedelivery == \A s \in Requests : ~Redeliver(s)

LEMMA OnlyLoopsStep ==
    ASSUME TypeOK, OnlyLoopsSend, [Next /\ NoRedelivery]_vars
    PROVE  OnlyLoopsSend'
  <1>1. ASSUME NEW s \in Senders, NEW to, sender' = [sender EXCEPT ![s] = to],
               s \in Requests => to = Idle
        PROVE  OnlyLoopsSend'
    BY <1>1 DEF OnlyLoopsSend, TypeOK, Senders
  <1>2. ASSUME NEW s \in Loops, Retry(s) PROVE OnlyLoopsSend'
    BY <1>1, <1>2, WebhooksAssumption
    DEF Senders, Retry, FetchDue, LookUpWebhook, EndLoop, Bury, RecordRetry, AutoDisable
  <1>3. ASSUME NEW s \in Requests PROVE ~RecordRedelivery(s)
    BY <1>3 DEF RecordRedelivery, OnlyLoopsSend, Idle
  <1>4. ASSUME NEW s \in Senders, LoadSecrets(s) \/ Send(s) PROVE OnlyLoopsSend'
    <2>1. s \notin Requests
      BY <1>4 DEF LoadSecrets, Send, OnlyLoopsSend, Idle
    <2> QED BY <1>1, <1>4, <2>1 DEF LoadSecrets, Send
  <1>5. ASSUME NEW s \in Senders, SenderFails(s) PROVE OnlyLoopsSend'
    <2>1. s \notin Requests
      BY <1>5 DEF SenderFails, OnlyLoopsSend
    <2> QED BY <1>1, <1>5, <2>1 DEF SenderFails
  <1>6. CASE UNCHANGED sender
    BY <1>6 DEF OnlyLoopsSend
  <1> QED
    BY <1>2, <1>3, <1>4, <1>5, <1>6
    DEF Next, NoRedelivery, vars, SelectWebhooks, InsertDeliveries, BackoffEnds, CreateWebhook,
        EnableOrDisable, DeleteWebhook, RotateSecret, InstallSecret, OverlapEnds, ClearPreviousSecrets

LEMMA AttemptsLeftStep ==
    ASSUME TypeOK, OnlyLoopsSend, AttemptsLeft, [Next]_vars
    PROVE  AttemptsLeft'
  <1>1. ASSUME NEW d \in Deliveries, NEW row \in Row, rows' = Update(d, row),
               row.next # "none" => row.attempts < MaxAttempts
        PROVE  AttemptsLeft'
    BY <1>1 DEF AttemptsLeft, Update, TypeOK
  <1>2. ASSUME NEW s \in Loops, RecordRetry(s) PROVE AttemptsLeft'
    <2> DEFINE d == sender[s].row.delivery
               counted == Counted(s, rows[d])
    <2>1. /\ d \in Deliveries /\ rows[d] \in Row
          /\ sender[s].success \in BOOLEAN /\ sender[s].row.attempts \in Nat
      BY <1>2, Held, SnapshotFields DEF RecordRetry, Senders, TypeOK
    <2>2. counted \in Row /\ counted.attempts = NewAttempts(s)
      <3>1. NewAttempts(s) \in Nat /\ (rows[d].success \/ sender[s].success) \in BOOLEAN
        BY <2>1 DEF NewAttempts
      <3>2. counted = [rows[d] EXCEPT !.attempts = NewAttempts(s),
                                      !.success = rows[d].success \/ sender[s].success]
        BY <2>1 DEF Counted, Row
      <3>3. counted \in Row
        BY <1>2, <2>1, CountedType DEF Senders
      <3>4. counted.attempts = NewAttempts(s)
        BY <2>1, <3>2 DEF Row
      <3> QED BY <3>3, <3>4
    <2>3. PICK next \in {"none", "later"} :
             /\ rows' = Update(d, [counted EXCEPT !.next = next])
             /\ next = "later" => ~Exhausted(s)
      BY <1>2 DEF RecordRetry
    <2>4. [counted EXCEPT !.next = next] \in Row
      BY <2>2 DEF Row
    <2>5. NewAttempts(s) \in Nat
      BY <2>1 DEF NewAttempts
    <2>6. /\ [counted EXCEPT !.next = next].next = next
          /\ [counted EXCEPT !.next = next].attempts = NewAttempts(s)
      BY <2>2 DEF Row
    <2>7. next # "none" => NewAttempts(s) < MaxAttempts
      BY <2>3, <2>5, BoundsAssumption DEF Exhausted
    <2> HIDE DEF d, counted
    <2> QED BY <1>1, <2>1, <2>3, <2>4, <2>6, <2>7
  <1>3. ASSUME NEW s \in Loops, Bury(s) PROVE AttemptsLeft'
    <2> DEFINE d == sender[s].row.delivery
    <2>1. d \in Deliveries /\ rows[d] \in Row
      BY <1>3, Held, SnapshotFields DEF Bury, Senders, TypeOK
    <2>2. [rows[d] EXCEPT !.next = "none"] \in Row /\ [rows[d] EXCEPT !.next = "none"].next = "none"
      BY <2>1 DEF Row
    <2> QED BY <1>1, <1>3, <2>1, <2>2 DEF Bury
  <1>4. ASSUME NEW d \in Deliveries, BackoffEnds(d) PROVE AttemptsLeft'
    BY <1>4 DEF BackoffEnds, AttemptsLeft, TypeOK, Row
  <1>5. ASSUME NEW e \in Events, InsertDeliveries(e) PROVE AttemptsLeft'
    <2>1. \A d \in Deliveries : rows'[d] \in {rows[d], NewRow}
      BY <1>5 DEF InsertDeliveries
    <2>2. NewRow.attempts = 0
      BY DEF NewRow, NoRow
    <2> QED BY <2>1, <2>2, BoundsAssumption DEF AttemptsLeft
  <1>6. ASSUME NEW h \in Webhooks, DeleteWebhook(h) PROVE AttemptsLeft'
    <2>1. \A d \in Deliveries : rows'[d] \in {rows[d], NoRow}
      BY <1>6 DEF DeleteWebhook
    <2> QED BY <2>1 DEF AttemptsLeft, NoRow
  <1>7. ASSUME NEW s \in Requests PROVE ~RecordRedelivery(s)
    BY <1>7 DEF RecordRedelivery, OnlyLoopsSend, Idle
  <1>8. CASE UNCHANGED rows
    BY <1>8 DEF AttemptsLeft
  <1> QED
    BY <1>2, <1>3, <1>4, <1>5, <1>6, <1>7, <1>8
    DEF Next, vars, Retry, SelectWebhooks, FetchDue, LookUpWebhook, EndLoop, AutoDisable, Redeliver,
        LoadSecrets, Send, SenderFails, CreateWebhook, EnableOrDisable, RotateSecret,
        InstallSecret, OverlapEnds, ClearPreviousSecrets

(* Where no redelivery is requested, a row with a next attempt gets one    *)
(* (migration 067), however the loops of the replicas overlap: only the    *)
(* redeliver handler, which raises attempts and leaves next_retry_at, uses *)
(* up the attempts of a scheduled row.                                     *)
THEOREM LoopsRetryScheduled == Spec /\ [][NoRedelivery]_vars => []ScheduledMeansRetried
  <1>1. Init => OnlyLoopsSend /\ AttemptsLeft
    BY DEF Init, OnlyLoopsSend, AttemptsLeft, NoRow, Senders
  <1>2. TypeOK /\ OnlyLoopsSend /\ AttemptsLeft /\ [Next /\ NoRedelivery]_vars =>
           OnlyLoopsSend' /\ AttemptsLeft'
    BY OnlyLoopsStep, AttemptsLeftStep
  <1>3. [Next]_vars /\ [NoRedelivery]_vars => [Next /\ NoRedelivery]_vars
    OBVIOUS
  <1>4. AttemptsLeft => ScheduledMeansRetried
    BY DEF AttemptsLeft, ScheduledMeansRetried
  <1> QED BY <1>1, <1>2, <1>3, <1>4, TypeCorrect, PTL DEF Spec
=============================================================================
