------------------------ MODULE ScanLifecycleProofs ------------------------
(***************************************************************************)
(* Proofs about ScanLifecycle, for every set of artifacts, contents,       *)
(* scanners and workers and every bound.                                   *)
(*                                                                         *)
(* Results are reused because they carry the checksum of a content, so the *)
(* invariant says of a row what it may carry (RowHonest), of a worker that *)
(* the rows it was given are labelled with the content it read, or with a  *)
(* checksum that an upload has overtaken (Belongs), and that the results   *)
(* it found and is about to reuse are those of that content (SourceOK).    *)
(* A step of one worker keeps what the others rely on because it changes   *)
(* rows only as RowEvolves says.                                           *)
(***************************************************************************)
EXTENDS ScanLifecycle, TLAPS

Labelled(r) == FindingsIn(rows[r].checksum, rows[r].type)

RowHonest(r) ==
    Stored(r) =>
        /\ rows[r].count \subseteq rows[r].findings
        /\ rows[r].checksum \notin relabelled =>
              /\ rows[r].findings \subseteq Labelled(r)
              /\ rows[r].status = "completed" =>
                    /\ Labelled(r) \subseteq rows[r].findings
                    /\ rows[r].count = Labelled(r)

(* Row r was inserted for scans of type t of content c.                    *)
Belongs(r, t, c) ==
    /\ rows[r].status # "unused"
    /\ Stored(r) => rows[r].type = t /\ rows[r].checksum \in {c} \cup relabelled

(* What a worker in state `at' relies on.                                  *)
PreparedOK(at) == \A p \in at.prepared : Belongs(p[2], p[1], at.content)

TargetOK(at) ==
    /\ at.target # Nil => Belongs(at.target, at.type, at.content)
    /\ at.pc \in {"prepare", "insert", "pick"} => at.target = Nil
    /\ (at.pc = "complete" /\ Stored(at.target)) =>
          FindingsIn(at.content, at.type) \subseteq rows[at.target].findings

Settled(r) == rows[r].findings = Labelled(r) /\ rows[r].count = Labelled(r)

SourceOK(at) ==
    at.pc \in {"orphan", "convert", "copy"} =>
        /\ rows[at.source].status \notin {"unused", "running"}
        /\ Stored(at.source) =>
              /\ rows[at.source].checksum = at.content
              /\ rows[at.source].type = at.type
              /\ at.content \notin relabelled => Settled(at.source)

WorkerOK(at) == PreparedOK(at) /\ TargetOK(at) /\ SourceOK(at)

ScanInv == /\ TypeOK
           /\ \A r \in Rows : RowHonest(r)
           /\ \A w \in Workers : WorkerOK(worker[w])

(* What a step may do to row r.                                            *)
RowEvolves(r) ==
    rows[r].status # "unused" =>
        /\ rows'[r].status # "unused"
        /\ rows[r].status # "running" => rows'[r].status # "running"
        /\ Stored(r)' =>
              /\ Stored(r)
              /\ rows'[r].checksum = rows[r].checksum
              /\ rows'[r].type = rows[r].type
              /\ rows[r].findings \subseteq rows'[r].findings
              /\ (rows[r].checksum \notin relabelled /\ Settled(r)) => Settled(r)'

Evolves == relabelled \subseteq relabelled' /\ \A r \in Rows : RowEvolves(r)

-----------------------------------------------------------------------------
LEMMA RowsAreNotNil == Nil \notin Rows
  BY NilAssumption DEF Rows

LEMMA FindingsType == ASSUME NEW c, NEW t PROVE FindingsIn(c, t) \subseteq Vulnerable
  BY DEF FindingsIn

LEMMA FailedType ==
    ASSUME TypeOK, NEW r \in Rows
    PROVE  Failed(r) \in Row
  <1>1. rows[r] \in Row
    BY DEF TypeOK
  <1> QED BY <1>1 DEF Failed, Row

LEMMA UnusedType == UnusedRow \in Row
  BY DEF UnusedRow, Row

LEMMA RunningType ==
    ASSUME NEW a \in Artifacts, NEW t \in Types \cup {Nil}, NEW c \in Contents \cup {Nil}
    PROVE  RunningRow(a, t, c) \in Row
  BY DEF RunningRow, UnusedRow, Row

LEMMA ConvertedType ==
    ASSUME TypeOK, NEW r \in Rows, NEW s \in Rows
    PROVE  ConvertedFrom(r, s) \in Row
  <1>1. rows[r] \in Row /\ rows[s] \in Row
    BY DEF TypeOK
  <1> QED BY <1>1 DEF ConvertedFrom, Row

LEMMA UpdateType ==
    ASSUME TypeOK, NEW r \in Rows, NEW row \in Row
    PROVE  Update(r, row) \in [Rows -> Row]
  BY DEF TypeOK, Update

LEMMA NextRowUnused ==
    ASSUME NEW a, NEW row, InsertRow(a, row)
    PROVE  NextRow \in Rows /\ rows[NextRow].status = "unused"
  BY DEF InsertRow, NextRow

LEMMA InsertType ==
    ASSUME TypeOK, NEW a, NEW row \in Row, InsertRow(a, row)
    PROVE  rows' \in [Rows -> Row]
  BY DEF TypeOK, InsertRow

LEMMA BusyType ==
    ASSUME TypeOK, NEW w \in Workers, worker[w].pc # "idle"
    PROVE  worker[w] \in Worker
  BY DEF TypeOK, IdleWorker

LEMMA BecomesType ==
    ASSUME TypeOK, NEW w \in Workers, NEW state \in Worker \cup {IdleWorker}, Becomes(w, state)
    PROVE  worker' \in [Workers -> Worker \cup {IdleWorker}]
  BY DEF TypeOK, Becomes

LEMMA GotoType ==
    ASSUME TypeOK, NEW w \in Workers, worker[w].pc # "idle",
           NEW pc \in Steps, Goto(w, pc), HasItsRows([worker[w] EXCEPT !.pc = pc])
    PROVE  worker' \in [Workers -> Worker \cup {IdleWorker}]
  <1>1. [worker[w] EXCEPT !.pc = pc] \in Worker
    BY BusyType DEF Worker, WorkerFields, HasItsRows
  <1> QED BY <1>1, BecomesType DEF Goto

LEMMA NextScannerType ==
    ASSUME TypeOK, NEW w \in Workers, NextScanner(w), worker[w].pc # "idle"
    PROVE  worker' \in [Workers -> Worker \cup {IdleWorker}]
  <1> DEFINE next == [worker[w] EXCEPT !.pc = "pick", !.type = Nil, !.target = Nil,
                                       !.source = Nil, !.verdict = {}]
  <1>2. worker[w] \in WorkerFields
    BY BusyType DEF Worker
  <1>3. next \in WorkerFields /\ next.pc = "pick"
    BY <1>2 DEF WorkerFields, Steps
  <1>1. next \in Worker
    BY <1>3 DEF Worker, HasItsRows
  <1> QED BY <1>1 DEF TypeOK, NextScanner, Becomes

LEMMA WithScannerType ==
    ASSUME TypeOK, NEW w \in Workers, worker[w].pc = "pick",
           NEW t \in worker[w].todo, NEW target \in PreparedFor(w, t)
    PROVE  /\ WithScanner(w, t, target) \in Worker
           /\ WithScanner(w, t, target).pc = "pick"
           /\ t \in Types /\ target \in Rows \cup {Nil}
  <1>1. worker[w] \in Worker /\ t \in Types /\ target \in Rows \cup {Nil}
    BY BusyType DEF PreparedFor, Worker, WorkerFields, HasItsRows
  <1> QED BY <1>1 DEF WithScanner, Worker, WorkerFields, HasItsRows

LEMMA WithPrepared ==
    ASSUME NEW prepared \in SUBSET ((Types \cup {Nil}) \X Rows),
           NEW t \in Types \cup {Nil}, NEW r \in Rows
    PROVE  prepared \cup {<<t, r>>} \in SUBSET ((Types \cup {Nil}) \X Rows)
  OBVIOUS

LEMMA SetQuarantineType ==
    ASSUME TypeOK, NEW a \in Artifacts, NEW status \in QuarantineStatus, SetQuarantine(a, status)
    PROVE  artifact' \in [Artifacts -> Artifact \cup {PurgedArtifact}]
  <1>1. artifact[a] \in Artifact \/ artifact[a] = PurgedArtifact
    BY DEF TypeOK
  <1>2. CASE artifact[a].state = "purged"
    BY <1>2 DEF TypeOK, SetQuarantine
  <1>3. CASE artifact[a].state # "purged"
    <2>1. artifact[a] \in Artifact
      BY <1>1, <1>3 DEF PurgedArtifact
    <2>2. [artifact[a] EXCEPT !.quarantine = status] \in Artifact
      BY <2>1 DEF Artifact
    <2> QED BY <1>3, <2>2 DEF TypeOK, SetQuarantine
  <1> QED BY <1>2, <1>3


-----------------------------------------------------------------------------
LEMMA TypeOfTrigger ==
    ASSUME TypeOK, NEW w \in Workers, Trigger(w)
    PROVE  TypeOK'
  <1>1. PICK a \in Artifacts :
           /\ artifact[a].state = "live"
           /\ Becomes(w, [IdleWorker EXCEPT !.pc = "prepare", !.artifact = a,
                                            !.content = artifact[a].content, !.todo = Types])
    BY DEF Trigger
  <1>2. artifact[a].content \in Contents
    BY <1>1 DEF TypeOK, Artifact, PurgedArtifact
  <1>3. [IdleWorker EXCEPT !.pc = "prepare", !.artifact = a,
            !.content = artifact[a].content, !.todo = Types] \in Worker
    BY <1>2 DEF IdleWorker, Worker, WorkerFields, HasItsRows, Steps
  <1> QED BY <1>1, <1>3, BecomesType DEF Trigger, TypeOK

LEMMA TypeOfLookUp ==
    ASSUME TypeOK, NEW w \in Workers, LookUpExisting(w)
    PROVE  TypeOK'
  <1> DEFINE at == worker[w]
             Found(t, r) == [at EXCEPT !.prepared = @ \cup {<<t, r>>}, !.todo = @ \ {t}]
             Missing(t) == [at EXCEPT !.pc = "insert", !.type = t]
  <1>1. at \in Worker
    BY BusyType DEF LookUpExisting
  <1>2. PICK t \in at.todo :
           \/ \E r \in Rows : Becomes(w, Found(t, r))
           \/ Becomes(w, Missing(t))
    BY DEF LookUpExisting, Existing, Reusable
  <1>3. t \in Types
    BY <1>1, <1>2 DEF Worker, WorkerFields, HasItsRows
  <1>4. ASSUME NEW r \in Rows PROVE Found(t, r) \in Worker
    <2>1. at.prepared \cup {<<t, r>>} \in SUBSET ((Types \cup {Nil}) \X Rows)
      BY <1>1, <1>3, WithPrepared DEF Worker, WorkerFields, HasItsRows
    <2> QED BY <1>1, <2>1 DEF Worker, WorkerFields, HasItsRows
  <1>5. Missing(t) \in Worker
    BY <1>1, <1>3 DEF Worker, WorkerFields, HasItsRows, Steps
  <1>6. worker' \in [Workers -> Worker \cup {IdleWorker}]
    <2> HIDE DEF at, Found, Missing
    <2> QED BY <1>2, <1>4, <1>5, BecomesType
  <1> QED BY <1>6 DEF LookUpExisting, TypeOK

LEMMA TypeOfPlaceholder ==
    ASSUME TypeOK, NEW w \in Workers, InsertPlaceholder(w)
    PROVE  TypeOK'
  <1> DEFINE at == worker[w]
             row == RunningRow(at.artifact, at.type, at.content)
             next == [at EXCEPT !.pc = "prepare", !.type = Nil,
                                !.prepared = @ \cup {<<at.type, NextRow>>},
                                !.todo = @ \ {at.type}]
  <1>1. at \in Worker
    BY BusyType DEF InsertPlaceholder
  <1>2. InsertRow(at.artifact, row)
    BY DEF InsertPlaceholder
  <1>3. row \in Row
    BY <1>1, RunningType DEF Worker, WorkerFields, HasItsRows
  <1>4. rows' \in [Rows -> Row]
    BY <1>2, <1>3, InsertType
  <1>5. NextRow \in Rows
    BY <1>2, NextRowUnused
  <1>6. at.prepared \cup {<<at.type, NextRow>>} \in SUBSET ((Types \cup {Nil}) \X Rows)
    BY <1>1, <1>5, WithPrepared DEF Worker, WorkerFields, HasItsRows
  <1>7. next \in Worker
    BY <1>1, <1>6 DEF Worker, WorkerFields, HasItsRows, Steps
  <1>8. Becomes(w, next)
    BY DEF InsertPlaceholder
  <1>9. worker' \in [Workers -> Worker \cup {IdleWorker}]
    BY <1>7, <1>8, BecomesType
  <1> QED BY <1>4, <1>9 DEF InsertPlaceholder, TypeOK

LEMMA TypeOfBegin ==
    ASSUME TypeOK, NEW w \in Workers, ScanUnprepared(w) \/ BeginScan(w)
    PROVE  TypeOK'
  <1>1. CASE ScanUnprepared(w)
    <2>1. \A a \in Artifacts : [IdleWorker EXCEPT !.pc = "prepare", !.artifact = a] \in Worker
      BY DEF IdleWorker, Worker, WorkerFields, HasItsRows, Steps
    <2> QED BY <1>1, <2>1, BecomesType DEF ScanUnprepared, TypeOK
  <1>2. CASE BeginScan(w)
    <2> DEFINE at == worker[w]
               content == artifact[at.artifact].content
    <2>1. at \in Worker
      BY <1>2, BusyType DEF BeginScan
    <2>2. content \in Contents \cup {Nil}
      BY <2>1 DEF TypeOK, Worker, WorkerFields, HasItsRows, Artifact, PurgedArtifact
    <2>3. [at EXCEPT !.pc = "pick", !.todo = Types, !.content = content] \in Worker
      BY <2>1, <2>2 DEF Worker, WorkerFields, HasItsRows, Steps
    <2>4. \A p \in at.prepared : rows[p[2]].checksum \in Contents \cup {Nil}
      <3>1. \A p \in at.prepared : p[2] \in Rows
        BY <2>1 DEF Worker, WorkerFields, HasItsRows
      <3> QED BY <3>1 DEF TypeOK, Row
    <2>5. relabelled' \subseteq Contents \cup {Nil}
      BY <1>2, <2>4 DEF BeginScan, TypeOK
    <2>6. worker' \in [Workers -> Worker \cup {IdleWorker}]
      BY <1>2, <2>3, BecomesType DEF BeginScan, Stop
    <2> QED BY <1>2, <2>5, <2>6 DEF BeginScan, TypeOK
  <1> QED BY <1>1, <1>2

LEMMA TypeOfPick ==
    ASSUME TypeOK, NEW w \in Workers, SkipScanner(w) \/ FindReusable(w)
    PROVE  TypeOK'
  <1>0. worker[w].pc = "pick"
    BY DEF SkipScanner, FindReusable
  <1>1. CASE SkipScanner(w)
    <2>0. PICK t \in worker[w].todo : \E target \in PreparedFor(w, t) :
             /\ rows' = IF target = Nil THEN rows ELSE Update(target, Failed(target))
             /\ \/ Becomes(w, IdleWorker)
                \/ Becomes(w, [WithScanner(w, t, Nil) EXCEPT !.type = Nil])
      BY <1>1 DEF SkipScanner
    <2>1. PICK target \in PreparedFor(w, t) :
             /\ rows' = IF target = Nil THEN rows ELSE Update(target, Failed(target))
             /\ \/ Becomes(w, IdleWorker)
                \/ Becomes(w, [WithScanner(w, t, Nil) EXCEPT !.type = Nil])
      BY <2>0
    <2>2. target \in Rows \cup {Nil} /\ t \in Types
      BY <1>0, <2>1, WithScannerType
    <2>3. worker[w] \in Worker
      BY <1>0, BusyType
    <2>4. [WithScanner(w, t, Nil) EXCEPT !.type = Nil] \in Worker
      BY <1>0, <2>2, <2>3 DEF WithScanner, Worker, WorkerFields, HasItsRows
    <2>5. worker' \in [Workers -> Worker \cup {IdleWorker}]
      BY <2>1, <2>4, BecomesType
    <2>6. rows' \in [Rows -> Row]
      BY <2>1, <2>2, FailedType, UpdateType DEF TypeOK
    <2> QED BY <1>1, <2>5, <2>6 DEF SkipScanner, TypeOK
  <1>2. CASE FindReusable(w)
    <2>0. PICK t \in worker[w].todo : \E target \in PreparedFor(w, t) :
             \/ \E s \in Rows : Becomes(w, ReuseOf(WithScanner(w, t, target), s))
             \/ Becomes(w, [WithScanner(w, t, target) EXCEPT !.pc = "fresh"])
      BY <1>2 DEF FindReusable, Reusable
    <2>1. PICK target \in PreparedFor(w, t) :
             \/ \E s \in Rows : Becomes(w, ReuseOf(WithScanner(w, t, target), s))
             \/ Becomes(w, [WithScanner(w, t, target) EXCEPT !.pc = "fresh"])
      BY <2>0
    <2>2. WithScanner(w, t, target) \in Worker /\ WithScanner(w, t, target).pc = "pick"
      BY <1>0, <2>1, WithScannerType
    <2>3. [WithScanner(w, t, target) EXCEPT !.pc = "fresh"] \in Worker
      BY <2>2 DEF Worker, WorkerFields, HasItsRows, Steps
    <2>4. ASSUME NEW s \in Rows, NEW at \in Worker, at.pc = "pick"
          PROVE  ReuseOf(at, s) \in Worker \cup {IdleWorker}
      <3>1. [at EXCEPT !.pc = IF at.target = Nil THEN "copy" ELSE "convert",
                       !.source = s] \in Worker
        <4> DEFINE n == [at EXCEPT !.pc = IF at.target = Nil THEN "copy" ELSE "convert",
                                   !.source = s]
        <4>1. at \in WorkerFields
          BY <2>4 DEF Worker
        <4>2. n \in WorkerFields
          BY <4>1 DEF WorkerFields, Steps
        <4>3. /\ n.pc = (IF at.target = Nil THEN "copy" ELSE "convert")
              /\ n.target = at.target /\ n.source = s
          BY <4>1 DEF WorkerFields
        <4>4. HasItsRows(n)
          BY <4>3, RowsAreNotNil DEF HasItsRows
        <4> QED BY <4>2, <4>4 DEF Worker
      <3>2. at.target # Nil => [at EXCEPT !.pc = "orphan", !.source = s] \in Worker
        BY <2>4, RowsAreNotNil DEF Worker, WorkerFields, HasItsRows, Steps
      <3>3. [at EXCEPT !.type = Nil, !.target = Nil] \in Worker
        BY <2>4 DEF Worker, WorkerFields, HasItsRows
      <3> QED BY <3>1, <3>2, <3>3 DEF ReuseOf
    <2>5. worker' \in [Workers -> Worker \cup {IdleWorker}]
      BY <2>1, <2>2, <2>3, <2>4, BecomesType
    <2> QED BY <1>2, <2>5 DEF FindReusable, TypeOK
  <1> QED BY <1>1, <1>2

LEMMA VerdictType ==
    ASSUME TypeOK, NEW w \in Workers, worker[w].pc # "idle", NEW found \in SUBSET Vulnerable,
           Becomes(w, [worker[w] EXCEPT !.pc = "verdict", !.verdict = found])
    PROVE  worker' \in [Workers -> Worker \cup {IdleWorker}]
  <1> DEFINE next == [worker[w] EXCEPT !.pc = "verdict", !.verdict = found]
  <1>2. worker[w] \in WorkerFields
    BY BusyType DEF Worker
  <1>3. next \in WorkerFields /\ next.pc = "verdict"
    BY <1>2 DEF WorkerFields, Steps
  <1>1. next \in Worker
    BY <1>3 DEF Worker, HasItsRows
  <1> QED BY <1>1, BecomesType

LEMMA TypeOfReuse ==
    ASSUME TypeOK, NEW w \in Workers,
           ConvertOrphan(w) \/ ConvertToReused(w) \/ CopyScanResults(w)
    PROVE  TypeOK'
  <1> DEFINE at == worker[w]
  <1>0. at \in Worker /\ at.pc \in {"orphan", "convert", "copy"}
    BY BusyType DEF ConvertOrphan, ConvertToReused, CopyScanResults
  <1>1. at.source \in Rows /\ (at.pc # "copy" => at.target \in Rows)
    BY <1>0 DEF Worker, WorkerFields, HasItsRows
  <1>2. CASE ConvertOrphan(w)
    <2>1. rows' \in [Rows -> Row]
      BY <1>1, <1>2, ConvertedType DEF ConvertOrphan, TypeOK
    <2> QED BY <1>0, <1>2, <2>1, NextScannerType DEF ConvertOrphan, TypeOK
  <1>3. CASE ConvertToReused(w)
    <2>1. rows' \in [Rows -> Row]
      BY <1>1, <1>3, ConvertedType DEF ConvertToReused, TypeOK
    <2>2. rows'[at.target].count \in SUBSET Vulnerable
      BY <1>1, <1>3, <2>1 DEF ConvertToReused, Row
    <2>3. HasItsRows([at EXCEPT !.pc = "fresh"])
      BY <1>0 DEF HasItsRows, Worker, WorkerFields
    <2>4. worker' \in [Workers -> Worker \cup {IdleWorker}]
      BY <1>0, <1>3, <2>2, <2>3, GotoType, VerdictType DEF ConvertToReused, Steps
    <2> QED BY <1>3, <2>1, <2>4 DEF ConvertToReused, TypeOK
  <1>4. CASE CopyScanResults(w)
    <2> DEFINE copy == [UnusedRow EXCEPT !.artifact = at.artifact, !.type = at.type,
                          !.checksum = at.content, !.status = "completed",
                          !.findings = rows[at.source].findings,
                          !.count = rows[at.source].count,
                          !.recent = rows[at.source].recent]
    <2>1. rows[at.source] \in Row
      BY <1>1 DEF TypeOK
    <2>2. copy \in Row
      BY <1>0, <2>1 DEF UnusedRow, Row, Worker, WorkerFields
    <2>3. rows' \in [Rows -> Row]
      BY <1>4, <2>2, InsertType DEF CopyScanResults, TypeOK
    <2>4. HasItsRows([at EXCEPT !.pc = "fresh"])
      BY <1>0 DEF HasItsRows, Worker, WorkerFields
    <2>5. rows[at.source].count \in SUBSET Vulnerable
      BY <2>1 DEF Row
    <2>6. worker' \in [Workers -> Worker \cup {IdleWorker}]
      BY <1>0, <1>4, <2>4, <2>5, GotoType, VerdictType DEF CopyScanResults, Steps
    <2> QED BY <1>4, <2>3, <2>6 DEF CopyScanResults, TypeOK
  <1> QED BY <1>2, <1>3, <1>4

LEMMA TypeOfFresh ==
    ASSUME TypeOK, NEW w \in Workers, FreshStep(w)
    PROVE  TypeOK'
  <1> DEFINE at == worker[w]
             found == FindingsIn(at.content, at.type)
  <1>0. at \in Worker
    BY BusyType DEF FreshStep, GetOrCreateRow, CreateFindings, CompleteScan, FailScan, FlagArtifact
  <1>1. at.pc \in {"findings", "complete", "fail"} => at.target \in Rows /\ rows[at.target] \in Row
    BY <1>0 DEF Worker, WorkerFields, HasItsRows, TypeOK
  <1>2. found \in SUBSET Vulnerable
    BY FindingsType
  <1>3. CASE GetOrCreateRow(w)
    <2>1. PICK outcome \in {"findings", "fail"} :
             \/ at.target # Nil /\ Goto(w, outcome) /\ UNCHANGED rows
             \/ /\ InsertRow(at.artifact, RunningRow(at.artifact, at.type, at.content))
                /\ Becomes(w, [at EXCEPT !.pc = outcome, !.target = NextRow])
      BY <1>3 DEF GetOrCreateRow
    <2>2. CASE at.target # Nil /\ Goto(w, outcome) /\ UNCHANGED rows
      <3>1. HasItsRows([at EXCEPT !.pc = outcome]) /\ outcome \in Steps
        BY <1>0, <2>2 DEF HasItsRows, Worker, WorkerFields, Steps
      <3> QED BY <1>3, <2>2, <3>1, GotoType DEF GetOrCreateRow, TypeOK
    <2>3. CASE /\ InsertRow(at.artifact, RunningRow(at.artifact, at.type, at.content))
               /\ Becomes(w, [at EXCEPT !.pc = outcome, !.target = NextRow])
      <3>1. RunningRow(at.artifact, at.type, at.content) \in Row
        BY <1>0, RunningType DEF Worker, WorkerFields
      <3>2. rows' \in [Rows -> Row]
        BY <2>3, <3>1, InsertType
      <3>3. NextRow \in Rows
        BY <2>3, NextRowUnused
      <3>4. [at EXCEPT !.pc = outcome, !.target = NextRow] \in Worker
        BY <1>0, <3>3, RowsAreNotNil DEF Worker, WorkerFields, HasItsRows, Steps
      <3>5. worker' \in [Workers -> Worker \cup {IdleWorker}]
        BY <2>3, <3>4, BecomesType
      <3> QED BY <1>3, <3>2, <3>5 DEF GetOrCreateRow, TypeOK
    <2> QED BY <2>1, <2>2, <2>3
  <1>4. CASE CreateFindings(w)
    <2>1. [rows[at.target] EXCEPT !.findings = @ \cup found] \in Row
      BY <1>1, <1>2, <1>4 DEF CreateFindings, Row
    <2>2. rows' \in [Rows -> Row]
      BY <1>1, <1>4, <2>1, UpdateType DEF CreateFindings
    <2>3. HasItsRows([at EXCEPT !.pc = "complete"]) /\ "complete" \in Steps
      BY <1>0, <1>4 DEF HasItsRows, Worker, WorkerFields, Steps, CreateFindings
    <2> QED BY <1>4, <2>2, <2>3, GotoType DEF CreateFindings, TypeOK
  <1>5. CASE CompleteScan(w)
    <2>1. [rows[at.target] EXCEPT !.status = "completed", !.recent = TRUE, !.count = found] \in Row
      BY <1>1, <1>2, <1>5 DEF CompleteScan, Row
    <2>2. rows' \in [Rows -> Row]
      BY <1>1, <1>5, <2>1, UpdateType DEF CompleteScan
    <2> QED BY <1>2, <1>5, <2>2, VerdictType DEF CompleteScan, TypeOK
  <1>6. CASE FailScan(w)
    <2>1. rows' \in [Rows -> Row]
      BY <1>1, <1>6, FailedType, UpdateType DEF FailScan
    <2>2. HasItsRows([at EXCEPT !.pc = "flag"]) /\ "flag" \in Steps
      BY <1>0 DEF HasItsRows, Worker, WorkerFields, Steps
    <2> QED BY <1>6, <2>1, <2>2, GotoType DEF FailScan, TypeOK
  <1>7. CASE FlagArtifact(w)
    BY <1>0, <1>7, NextScannerType, SetQuarantineType
       DEF FlagArtifact, TypeOK, Worker, WorkerFields, QuarantineStatus
  <1> QED BY <1>3, <1>4, <1>5, <1>6, <1>7 DEF FreshStep

LEMMA TypeOfVerdict ==
    ASSUME TypeOK, NEW w \in Workers, VerdictStep(w)
    PROVE  TypeOK'
  <1> DEFINE at == worker[w]
  <1>0. at \in Worker
    BY BusyType DEF VerdictStep, ReadQuarantine, DecideQuarantine, MarkArtifact
  <1>1. at.artifact \in Artifacts
    BY <1>0 DEF Worker, WorkerFields
  <1>2. \A status \in {"released", "rejected", "clean", "flagged"} :
           SetQuarantine(at.artifact, status) \/ Transition(at.artifact, status) =>
              artifact' \in [Artifacts -> Artifact \cup {PurgedArtifact}]
    BY <1>1, SetQuarantineType DEF Transition, QuarantineStatus, TypeOK
  <1>3. CASE ReadQuarantine(w)
    <2>1. \A pc \in {"decide", "mark"} : HasItsRows([at EXCEPT !.pc = pc]) /\ pc \in Steps
      BY <1>0 DEF HasItsRows, Worker, WorkerFields, Steps
    <2> QED BY <1>3, <2>1, GotoType DEF ReadQuarantine, TypeOK
  <1>4. CASE DecideQuarantine(w)
    BY <1>2, <1>4, NextScannerType DEF DecideQuarantine, TypeOK
  <1>5. CASE MarkArtifact(w)
    BY <1>2, <1>5, NextScannerType DEF MarkArtifact, TypeOK
  <1> QED BY <1>3, <1>4, <1>5 DEF VerdictStep

LEMMA TypeOfOwner ==
    ASSUME TypeOK, NEW a \in Artifacts, Owner(a)
    PROVE  TypeOK'
  <1>0. artifact[a] \in Artifact \/ artifact[a] = PurgedArtifact
    BY DEF TypeOK
  <1>1. CASE UploadArtifact(a)
    <2>1. PICK c \in Contents :
             artifact' = [artifact EXCEPT ![a].content = c, ![a].state = "live"]
      BY <1>1 DEF UploadArtifact
    <2>2. artifact[a] \in Artifact
      BY <1>0, <1>1 DEF UploadArtifact, PurgedArtifact
    <2>3. artifact' \in [Artifacts -> Artifact \cup {PurgedArtifact}]
      BY <2>1, <2>2 DEF TypeOK, Artifact
    <2>4. uploads' \in 0..MaxUploads
      BY <1>1, RowsAssumption DEF UploadArtifact, TypeOK
    <2>5. held' \subseteq Artifacts
      BY <1>1 DEF UploadArtifact, TypeOK
    <2> QED BY <1>1, <2>3, <2>4, <2>5 DEF UploadArtifact, TypeOK
  <1>2. CASE HoldArtifact(a)
    BY <1>2, SetQuarantineType DEF HoldArtifact, TypeOK, QuarantineStatus
  <1>3. CASE HoldFails(a)
    BY <1>3 DEF HoldFails, TypeOK
  <1>4. CASE AdminDecides(a)
    BY <1>4, SetQuarantineType DEF AdminDecides, TypeOK, QuarantineStatus
  <1>5. CASE DeleteArtifact(a)
    <2>1. artifact[a] \in Artifact
      BY <1>0, <1>5 DEF DeleteArtifact, PurgedArtifact
    <2>2. artifact' \in [Artifacts -> Artifact \cup {PurgedArtifact}]
      BY <1>5, <2>1 DEF DeleteArtifact, TypeOK, Artifact
    <2> QED BY <1>5, <2>2 DEF DeleteArtifact, TypeOK
  <1>6. CASE PurgeArtifact(a)
    <2>1. [UnusedRow EXCEPT !.status = "gone"] \in Row
      BY DEF UnusedRow, Row
    <2> QED BY <1>6, <2>1 DEF PurgeArtifact, TypeOK
  <1> QED BY <1>1, <1>2, <1>3, <1>4, <1>5, <1>6 DEF Owner

LEMMA TypeOfTime ==
    ASSUME TypeOK, (\E r \in Rows : ResultsAge(r)) \/ ReapStuckScans
    PROVE  TypeOK'
  <1>1. ASSUME NEW r \in Rows, ResultsAge(r) PROVE TypeOK'
    <2>1. [rows[r] EXCEPT !.recent = FALSE] \in Row
      BY DEF TypeOK, Row
    <2> QED BY <1>1, <2>1 DEF ResultsAge, TypeOK
  <1>2. CASE ReapStuckScans
    BY <1>2, FailedType DEF ReapStuckScans, TypeOK
  <1> QED BY <1>1, <1>2

LEMMA TypeStep == ASSUME TypeOK, [Next]_vars PROVE TypeOK'
  <1>1. CASE UNCHANGED vars
    BY <1>1 DEF vars, TypeOK
  <1>2. ASSUME NEW w \in Workers, Scan(w) PROVE TypeOK'
    <2>1. CASE WorkerStops(w)
      BY <2>1, BecomesType DEF WorkerStops, Stop, TypeOK
    <2> QED BY <1>2, <2>1, TypeOfTrigger, TypeOfLookUp, TypeOfPlaceholder, TypeOfBegin,
               TypeOfPick, TypeOfReuse, TypeOfFresh, TypeOfVerdict
            DEF Scan, PrepareStep, ReuseStep
  <1> QED BY <1>1, <1>2, TypeOfOwner, TypeOfTime DEF Next

LEMMA InitType == Init => TypeOK
  <1>1. UnusedRow \in Row
    BY UnusedType
  <1>2. ASSUME Init PROVE artifact \in [Artifacts -> Artifact \cup {PurgedArtifact}]
    BY <1>2, ScansAssumption DEF Init, Artifact, QuarantineStatus
  <1> QED BY <1>1, <1>2, RowsAssumption DEF Init, TypeOK

(* Type correctness: every variable keeps its type, and a worker has the   *)
(* rows its next step needs.                                               *)
THEOREM TypeCorrect == Spec => []TypeOK
  BY InitType, TypeStep, PTL DEF Spec

-----------------------------------------------------------------------------
LEMMA WorkerKept ==
    ASSUME TypeOK, NEW at \in Worker \cup {IdleWorker}, WorkerOK(at), Evolves
    PROVE  WorkerOK(at)'
  <1>0. \A p \in at.prepared : p[2] \in Rows
    BY DEF Worker, WorkerFields, IdleWorker
  <1>1. at.target # Nil => at.target \in Rows
    BY DEF Worker, WorkerFields, IdleWorker
  <1>2. at.pc \in {"orphan", "convert", "copy"} => at.source \in Rows
    BY DEF Worker, WorkerFields, HasItsRows, IdleWorker
  <1>3. ASSUME NEW r \in Rows, NEW t, Belongs(r, t, at.content)
        PROVE  Belongs(r, t, at.content)'
    BY <1>3 DEF Evolves, RowEvolves, Belongs, Stored
  <1>4. PreparedOK(at)'
    BY <1>0, <1>3 DEF WorkerOK, PreparedOK
  <1>5. TargetOK(at)'
    <2>1. at.target # Nil => Belongs(at.target, at.type, at.content)'
      BY <1>1, <1>3 DEF WorkerOK, TargetOK
    <2>2. ASSUME at.pc = "complete", Stored(at.target)'
          PROVE  FindingsIn(at.content, at.type) \subseteq rows'[at.target].findings
      <3>1. at.target \in Rows
        BY <2>2, <1>1 DEF Worker, HasItsRows, IdleWorker
      <3>2. RowEvolves(at.target) /\ rows[at.target].status # "unused"
        BY <3>1, RowsAreNotNil DEF Evolves, WorkerOK, TargetOK, Belongs
      <3> QED BY <2>2, <3>2 DEF RowEvolves, WorkerOK, TargetOK, Stored
    <2>3. at.pc \in {"prepare", "insert", "pick"} => at.target = Nil
      BY DEF WorkerOK, TargetOK
    <2> QED BY <2>1, <2>2, <2>3 DEF TargetOK, FindingsIn
  <1>6. SourceOK(at)'
    <2> SUFFICES ASSUME at.pc \in {"orphan", "convert", "copy"}
                 PROVE  SourceOK(at)'
      BY DEF SourceOK
    <2>1. RowEvolves(at.source) /\ rows[at.source].status \notin {"unused", "running"}
      BY <1>2 DEF Evolves, WorkerOK, SourceOK
    <2>2. rows'[at.source].status \notin {"unused", "running"}
      BY <2>1 DEF RowEvolves
    <2>3. ASSUME Stored(at.source)'
          PROVE  /\ rows'[at.source].checksum = at.content
                 /\ rows'[at.source].type = at.type
                 /\ at.content \notin relabelled' => Settled(at.source)'
      BY <2>1, <2>3 DEF RowEvolves, Evolves, WorkerOK, SourceOK
    <2> QED BY <2>2, <2>3 DEF SourceOK
  <1> QED BY <1>4, <1>5, <1>6 DEF WorkerOK

(* A step of worker w, which leaves it in state `new'.                     *)
LEMMA WorkersKept ==
    ASSUME TypeOK, \A v \in Workers : WorkerOK(worker[v]), Evolves,
           NEW w \in Workers, NEW new, Becomes(w, new), WorkerOK(new)'
    PROVE  \A v \in Workers : WorkerOK(worker[v])'
  <1> SUFFICES ASSUME NEW v \in Workers
               PROVE  WorkerOK(worker[v])'
    OBVIOUS
  <1>1. CASE v = w
    <2>1. worker'[v] = new
      BY <1>1 DEF Becomes, TypeOK
    <2> QED BY <2>1
  <1>2. CASE v # w
    <2>1. worker'[v] = worker[v]
      BY <1>2 DEF Becomes, TypeOK
    <2>2. PICK at \in Worker \cup {IdleWorker} : at = worker[v]
      BY DEF TypeOK
    <2>3. WorkerOK(at)'
      BY <2>2, WorkerKept
    <2> QED BY <2>1, <2>2, <2>3
  <1> QED BY <1>1, <1>2

LEMMA IdleOK == WorkerOK(IdleWorker) /\ WorkerOK(IdleWorker)'
  BY DEF WorkerOK, PreparedOK, TargetOK, SourceOK, IdleWorker

RowsHonest == \A r \in Rows : RowHonest(r)
WorkersOK == \A w \in Workers : WorkerOK(worker[w])

LEMMA RowsUnchanged ==
    ASSUME RowsHonest, UNCHANGED rows, relabelled \subseteq relabelled'
    PROVE  Evolves /\ RowsHonest'
  BY DEF Evolves, RowEvolves, RowsHonest, RowHonest, Labelled, Stored, Settled

(* A step that changes one row.                                            *)
LEMMA OneRowChanges ==
    ASSUME TypeOK, RowsHonest, UNCHANGED relabelled,
           NEW r \in Rows, \A q \in Rows \ {r} : rows'[q] = rows[q],
           RowEvolves(r), RowHonest(r)'
    PROVE  Evolves /\ RowsHonest'
  <1> SUFFICES ASSUME NEW q \in Rows \ {r}
               PROVE  RowEvolves(q) /\ RowHonest(q)'
    BY DEF Evolves, RowsHonest
  <1>1. rows'[q] = rows[q]
    OBVIOUS
  <1> QED BY <1>1 DEF RowEvolves, RowHonest, RowsHonest, Labelled, Stored, Settled

(* A worker that leaves its row alone, or gives it up, relies on no more.  *)
LEMMA WorkerRelaxed ==
    ASSUME NEW at, NEW new, WorkerOK(at),
           new.prepared \subseteq at.prepared, new.content = at.content,
           \/ new.target = Nil
           \/ /\ new.target = at.target /\ new.type = at.type
              /\ new.pc \notin {"prepare", "insert", "pick"},
           new.pc \notin {"complete", "orphan", "convert", "copy"}
    PROVE  WorkerOK(new)
  BY DEF WorkerOK, PreparedOK, TargetOK, SourceOK

LEMMA WorkerBlank ==
    ASSUME NEW new, new.prepared = {}, new.target = Nil,
           new.pc \notin {"complete", "orphan", "convert", "copy"}
    PROVE  WorkerOK(new)
  BY DEF WorkerOK, PreparedOK, TargetOK, SourceOK

LEMMA BecomesTyped ==
    ASSUME TypeOK, TypeOK', NEW w \in Workers, NEW new, Becomes(w, new)
    PROVE  new \in Worker \cup {IdleWorker}
  <1>1. worker'[w] = new
    BY DEF Becomes, TypeOK
  <1>2. worker'[w] \in (Worker \cup {IdleWorker})
    BY DEF TypeOK
  <1> QED BY <1>1, <1>2

LEMMA GotoOK ==
    ASSUME TypeOK, TypeOK', RowsHonest, WorkersOK, UNCHANGED <<rows, relabelled>>,
           NEW w \in Workers, NEW new, Becomes(w, new), WorkerOK(new)
    PROVE  Evolves /\ RowsHonest' /\ WorkersOK'
  <1>1. Evolves /\ RowsHonest'
    BY RowsUnchanged
  <1>2. WorkerOK(new)'
    BY <1>1, WorkerKept, BecomesTyped
  <1> QED BY <1>1, <1>2, WorkersKept DEF WorkersOK

LEMMA NextScannerOK ==
    ASSUME TypeOK, WorkersOK, Evolves, NEW w \in Workers, NextScanner(w), worker[w].pc # "idle"
    PROVE  WorkersOK'
  <1> DEFINE at == worker[w]
             next == [at EXCEPT !.pc = "pick", !.type = Nil, !.target = Nil,
                                !.source = Nil, !.verdict = {}]
  <1>0. at \in Worker /\ WorkerOK(at)
    BY BusyType DEF WorkersOK
  <1>1. next \in Worker
    BY <1>0 DEF Worker, WorkerFields, HasItsRows, Steps
  <1>2. WorkerOK(next)
    <2>1. /\ next.prepared = at.prepared /\ next.content = at.content
          /\ next.target = Nil /\ next.pc = "pick"
      BY <1>0 DEF Worker, WorkerFields
    <2> HIDE DEF next, at
    <2> QED BY <1>0, <2>1, WorkerRelaxed
  <1>3. PICK new \in Worker \cup {IdleWorker} : Becomes(w, new) /\ WorkerOK(new)
    <2>1. Becomes(w, IdleWorker) \/ Becomes(w, next)
      BY DEF NextScanner
    <2> HIDE DEF next
    <2> QED BY <1>1, <1>2, <2>1, IdleOK
  <1>4. WorkerOK(new)'
    BY <1>3, WorkerKept
  <1> QED BY <1>3, <1>4, WorkersKept DEF WorkersOK

-----------------------------------------------------------------------------
LEMMA InsertOK ==
    ASSUME TypeOK, RowsHonest, UNCHANGED relabelled, NEW row \in Row,
           NEW a, InsertRow(a, row), row.status # "unused",
           row.count \subseteq row.findings,
           row.checksum \notin relabelled =>
              /\ row.findings \subseteq FindingsIn(row.checksum, row.type)
              /\ row.status = "completed" =>
                    /\ FindingsIn(row.checksum, row.type) \subseteq row.findings
                    /\ row.count = FindingsIn(row.checksum, row.type)
    PROVE  /\ Evolves /\ RowsHonest'
           /\ NextRow \in Rows
           /\ rows'[NextRow] = row
  <1>1. PICK r \in Rows : r = NextRow /\ rows[r].status = "unused"
    BY NextRowUnused
  <1>2. rows' = [rows EXCEPT ![r] = row]
    BY <1>1 DEF InsertRow
  <1>3. rows'[r] = row /\ \A q \in Rows \ {r} : rows'[q] = rows[q]
    BY <1>2 DEF TypeOK
  <1>4. RowEvolves(r)
    BY <1>1 DEF RowEvolves
  <1>5. RowHonest(r)'
    BY <1>3 DEF RowHonest, Labelled
  <1> QED BY <1>1, <1>3, <1>4, <1>5, OneRowChanges

LEMMA HonestTrigger ==
    ASSUME ScanInv, TypeOK', NEW w \in Workers, Trigger(w) \/ ScanUnprepared(w)
    PROVE  Evolves /\ RowsHonest' /\ WorkersOK'
  <1> DEFINE Unprepared(a) == [IdleWorker EXCEPT !.pc = "prepare", !.artifact = a]
             Triggered(a) == [IdleWorker EXCEPT !.pc = "prepare", !.artifact = a,
                                                !.content = artifact[a].content, !.todo = Types]
  <1>1. PICK a \in Artifacts : Becomes(w, Unprepared(a)) \/ Becomes(w, Triggered(a))
    BY DEF Trigger, ScanUnprepared
  <1>2. \A new \in {Unprepared(a), Triggered(a)} :
           new.prepared = {} /\ new.target = Nil /\ new.pc = "prepare"
    BY DEF IdleWorker
  <1> HIDE DEF Unprepared, Triggered
  <1>3. PICK new \in {Unprepared(a), Triggered(a)} : Becomes(w, new)
    BY <1>1
  <1>4. WorkerOK(new)
    BY <1>2, <1>3, WorkerBlank
  <1> QED BY <1>3, <1>4, GotoOK DEF ScanInv, RowsHonest, WorkersOK, Trigger, ScanUnprepared

LEMMA HonestLookUp ==
    ASSUME ScanInv, TypeOK', NEW w \in Workers, LookUpExisting(w)
    PROVE  Evolves /\ RowsHonest' /\ WorkersOK'
  <1> DEFINE at == worker[w]
             Found(t, r) == [at EXCEPT !.prepared = @ \cup {<<t, r>>}, !.todo = @ \ {t}]
             Missing(t) == [at EXCEPT !.pc = "insert", !.type = t]
  <1>0. at \in Worker /\ WorkerOK(at) /\ at.pc = "prepare"
    BY BusyType DEF LookUpExisting, ScanInv
  <1>1. PICK t \in at.todo :
           \/ \E r \in Existing(at.artifact, at.content, t) : Becomes(w, Found(t, r))
           \/ Becomes(w, Missing(t))
    BY DEF LookUpExisting
  <1>2. WorkerOK(Missing(t))
    BY <1>0 DEF WorkerOK, PreparedOK, TargetOK, SourceOK, Worker, WorkerFields
  <1>3. ASSUME NEW r \in Existing(at.artifact, at.content, t)
        PROVE  WorkerOK(Found(t, r))
    <2>1. Belongs(r, t, at.content)
      BY DEF Existing, Reusable, Belongs
    <2>2. PreparedOK(Found(t, r))
      BY <1>0, <2>1 DEF WorkerOK, PreparedOK, Worker, WorkerFields
    <2> QED BY <1>0, <2>2 DEF WorkerOK, TargetOK, SourceOK, Worker, WorkerFields
  <1> HIDE DEF Found, Missing
  <1>4. PICK new : Becomes(w, new) /\ WorkerOK(new)
    BY <1>1, <1>2, <1>3
  <1> QED BY <1>4, GotoOK DEF ScanInv, RowsHonest, WorkersOK, LookUpExisting

LEMMA HonestPlaceholder ==
    ASSUME ScanInv, TypeOK', NEW w \in Workers, InsertPlaceholder(w)
    PROVE  Evolves /\ RowsHonest' /\ WorkersOK'
  <1> DEFINE at == worker[w]
             row == RunningRow(at.artifact, at.type, at.content)
             next(r) == [at EXCEPT !.pc = "prepare", !.type = Nil,
                                   !.prepared = @ \cup {<<at.type, r>>},
                                   !.todo = @ \ {at.type}]
  <1>0. at \in Worker /\ WorkerOK(at) /\ at.pc = "insert" /\ TypeOK
    BY BusyType DEF InsertPlaceholder, ScanInv
  <1>1. row \in Row
    BY <1>0, RunningType DEF Worker, WorkerFields
  <1>2. /\ row.status = "running" /\ row.findings = {} /\ row.count = {}
        /\ row.type = at.type /\ row.checksum = at.content
    BY DEF RunningRow, UnusedRow
  <1>3. InsertRow(at.artifact, row) /\ UNCHANGED relabelled /\ Becomes(w, next(NextRow))
    BY DEF InsertPlaceholder
  <1>4. PICK old \in Worker : old = at
    BY <1>0
  <1>5. PICK r : r = NextRow
    OBVIOUS
  <1>6. PICK new : new = next(r)
    OBVIOUS
  <1>7. /\ new.pc = "prepare" /\ new.target = Nil /\ new.content = old.content
        /\ new.prepared = old.prepared \cup {<<old.type, r>>}
    BY <1>0, <1>4, <1>6 DEF WorkerOK, TargetOK, Worker, WorkerFields
  <1>8. /\ Evolves /\ RowsHonest' /\ r \in Rows
        /\ rows'[r].type = old.type /\ rows'[r].checksum = old.content
        /\ rows'[r].status = "running"
    <2> HIDE DEF row
    <2>1. /\ row.count \subseteq row.findings /\ row.status # "unused"
          /\ row.findings \subseteq FindingsIn(row.checksum, row.type)
      BY <1>2
    <2>2. Evolves /\ RowsHonest' /\ r \in Rows /\ rows'[r] = row
      BY <1>0, <1>1, <1>2, <1>3, <1>5, <2>1, InsertOK DEF ScanInv, RowsHonest
    <2> QED BY <1>2, <1>4, <2>2
  <1>9. WorkerOK(new)'
    <2>1. PreparedOK(old)'
      BY <1>0, <1>4, <1>8, WorkerKept DEF WorkerOK
    <2>2. Belongs(r, old.type, old.content)'
      BY <1>8 DEF Belongs
    <2>3. PreparedOK(new)'
      BY <1>7, <2>1, <2>2 DEF PreparedOK
    <2> QED BY <1>7, <2>3 DEF WorkerOK, TargetOK, SourceOK
  <1>10. Becomes(w, new)
    BY <1>3, <1>5, <1>6
  <1> HIDE DEF at
  <1> QED BY <1>0, <1>8, <1>9, <1>10, WorkersKept DEF WorkersOK, ScanInv

LEMMA HonestBegin ==
    ASSUME ScanInv, TypeOK', NEW w \in Workers, BeginScan(w)
    PROVE  Evolves /\ RowsHonest' /\ WorkersOK'
  <1>0. worker[w] \in Worker /\ WorkerOK(worker[w]) /\ worker[w].pc = "prepare" /\ TypeOK
    BY BusyType DEF BeginScan, ScanInv
  <1>1. Evolves /\ RowsHonest'
    BY RowsUnchanged DEF BeginScan, ScanInv, RowsHonest
  <1>2. CASE Stop(w)
    BY <1>0, <1>1, <1>2, IdleOK, WorkersKept DEF Stop, WorkersOK, ScanInv
  <1>3. CASE ~Stop(w)
    <2>1. PICK at \in Worker : at = worker[w]
      BY <1>0
    <2>2. PICK content : content = artifact[at.artifact].content
      OBVIOUS
    <2>3. PICK new : new = [at EXCEPT !.pc = "pick", !.todo = Types, !.content = content]
      OBVIOUS
    <2>4. /\ Becomes(w, new) /\ UNCHANGED rows
          /\ relabelled' = relabelled \cup ({rows[p[2]].checksum : p \in at.prepared} \ {content})
      BY <1>3, <2>1, <2>2, <2>3 DEF BeginScan
    <2>5. /\ new.pc = "pick" /\ new.target = Nil /\ new.content = content
          /\ new.prepared = at.prepared
      BY <1>0, <2>1, <2>3 DEF WorkerOK, TargetOK, Worker, WorkerFields
    <2>6. ASSUME NEW p \in at.prepared PROVE Belongs(p[2], p[1], content)'
      <3>1. Belongs(p[2], p[1], at.content)
        BY <1>0, <2>1 DEF WorkerOK, PreparedOK
      <3>2. rows[p[2]].checksum \in {content} \cup relabelled'
        BY <2>4
      <3> QED BY <2>4, <3>1, <3>2 DEF Belongs, Stored
    <2>7. WorkerOK(new)'
      BY <2>5, <2>6 DEF WorkerOK, PreparedOK, TargetOK, SourceOK
    <2> QED BY <1>0, <1>1, <2>4, <2>7, WorkersKept DEF WorkersOK, ScanInv
  <1> QED BY <1>2, <1>3

LEMMA FailKeeps ==
    ASSUME TypeOK, RowsHonest, UNCHANGED relabelled,
           NEW r \in Rows, rows' = Update(r, Failed(r))
    PROVE  Evolves /\ RowsHonest'
  <1>1. CASE ~Stored(r)
    BY <1>1, RowsUnchanged DEF Update
  <1>2. CASE Stored(r)
    <2>0. rows[r] \in Row
      BY DEF TypeOK
    <2>1. rows' = [rows EXCEPT ![r] = Failed(r)]
      BY <1>2 DEF Update
    <2>2. /\ \A q \in Rows \ {r} : rows'[q] = rows[q]
          /\ rows'[r].status = "failed" /\ rows'[r].type = rows[r].type
          /\ rows'[r].checksum = rows[r].checksum
          /\ rows'[r].findings = rows[r].findings /\ rows'[r].count = rows[r].count
      <3>1. rows'[r] = Failed(r) /\ \A q \in Rows \ {r} : rows'[q] = rows[q]
        BY <2>1 DEF TypeOK
      <3> QED BY <2>0, <3>1 DEF Failed, Row
    <2>3. RowEvolves(r)
      BY <1>2, <2>2 DEF RowEvolves, Settled, Labelled
    <2>4. RowHonest(r)'
      BY <1>2, <2>2 DEF RowHonest, RowsHonest, Labelled, Stored
    <2> QED BY <2>2, <2>3, <2>4, OneRowChanges
  <1> QED BY <1>1, <1>2

LEMMA WithScannerOK ==
    ASSUME TypeOK, WorkersOK, NEW w \in Workers, worker[w].pc = "pick",
           NEW t \in worker[w].todo, NEW target \in PreparedFor(w, t),
           NEW at, at = WithScanner(w, t, target)
    PROVE  /\ PreparedOK(at)
           /\ target # Nil => Belongs(target, t, at.content)
           /\ at \in Worker /\ at.pc = "pick" /\ at.target = target /\ at.type = t
  <1>1. worker[w] \in Worker /\ WorkerOK(worker[w])
    BY BusyType DEF WorkersOK
  <1>2. /\ at.prepared \subseteq worker[w].prepared /\ at.content = worker[w].content
        /\ at.target = target /\ at.type = t
    BY <1>1 DEF WithScanner, Worker, WorkerFields
  <1>3. target # Nil => <<t, target>> \in worker[w].prepared
    BY DEF PreparedFor
  <1> QED BY <1>1, <1>2, <1>3, WithScannerType DEF WorkerOK, PreparedOK

LEMMA HonestSkip ==
    ASSUME ScanInv, TypeOK', NEW w \in Workers, SkipScanner(w)
    PROVE  Evolves /\ RowsHonest' /\ WorkersOK'
  <1>0. TypeOK /\ RowsHonest /\ WorkersOK /\ worker[w].pc = "pick" /\ UNCHANGED relabelled
    BY DEF ScanInv, RowsHonest, WorkersOK, SkipScanner
  <1>1. PICK t \in worker[w].todo : \E target \in PreparedFor(w, t) :
           /\ rows' = IF target = Nil THEN rows ELSE Update(target, Failed(target))
           /\ \/ Becomes(w, IdleWorker)
              \/ Becomes(w, [WithScanner(w, t, Nil) EXCEPT !.type = Nil])
    BY DEF SkipScanner
  <1>2. PICK target \in PreparedFor(w, t) :
           /\ rows' = IF target = Nil THEN rows ELSE Update(target, Failed(target))
           /\ \/ Becomes(w, IdleWorker)
              \/ Becomes(w, [WithScanner(w, t, Nil) EXCEPT !.type = Nil])
    BY <1>1
  <1>3. target \in Rows \cup {Nil}
    BY <1>0, <1>2, WithScannerType
  <1>4. Evolves /\ RowsHonest'
    BY <1>0, <1>2, <1>3, FailKeeps, RowsUnchanged
  <1>5. PICK skipped : skipped = [WithScanner(w, t, Nil) EXCEPT !.type = Nil]
    OBVIOUS
  <1>6. WorkerOK(skipped)
    <2>1. worker[w] \in Worker /\ WorkerOK(worker[w])
      BY <1>0, BusyType DEF WorkersOK
    <2>2. /\ skipped.prepared \subseteq worker[w].prepared
          /\ skipped.content = worker[w].content
          /\ skipped.target = Nil /\ skipped.pc = "pick"
      BY <1>0, <1>5, <2>1 DEF WithScanner, Worker, WorkerFields
    <2> QED BY <2>1, <2>2, WorkerRelaxed
  <1>7. PICK new : Becomes(w, new) /\ WorkerOK(new)
    BY <1>2, <1>5, <1>6, IdleOK
  <1>8. WorkerOK(new)'
    BY <1>0, <1>4, <1>7, BecomesTyped, WorkerKept
  <1> QED BY <1>0, <1>4, <1>7, <1>8, WorkersKept DEF WorkersOK

LEMMA HonestFind ==
    ASSUME ScanInv, TypeOK', NEW w \in Workers, FindReusable(w)
    PROVE  Evolves /\ RowsHonest' /\ WorkersOK'
  <1>0. TypeOK /\ RowsHonest /\ WorkersOK /\ worker[w].pc = "pick" /\ UNCHANGED <<rows, relabelled>>
    BY DEF ScanInv, RowsHonest, WorkersOK, FindReusable
  <1>1. PICK t \in worker[w].todo : \E target \in PreparedFor(w, t) :
           LET at == WithScanner(w, t, target)
           IN  \/ \E source \in Reusable(at.content, t) : Becomes(w, ReuseOf(at, source))
               \/ Becomes(w, [at EXCEPT !.pc = "fresh"])
    BY DEF FindReusable
  <1>2. PICK target \in PreparedFor(w, t) :
           LET at == WithScanner(w, t, target)
           IN  \/ \E source \in Reusable(at.content, t) : Becomes(w, ReuseOf(at, source))
               \/ Becomes(w, [at EXCEPT !.pc = "fresh"])
    BY <1>1
  <1>3. PICK at : at = WithScanner(w, t, target)
    OBVIOUS
  <1>4. /\ PreparedOK(at)
        /\ at.target # Nil => Belongs(at.target, at.type, at.content)
        /\ at \in Worker /\ at.pc = "pick" /\ at.type = t
    BY <1>0, <1>3, WithScannerOK
  <1>5. WorkerOK([at EXCEPT !.pc = "fresh"])
    BY <1>4 DEF WorkerOK, PreparedOK, TargetOK, SourceOK, Worker, WorkerFields
  <1>6. ASSUME NEW source \in Reusable(at.content, t) PROVE WorkerOK(ReuseOf(at, source))
    <2>1. /\ source \in Rows /\ rows[source].status = "completed"
          /\ rows[source].checksum = at.content /\ rows[source].type = at.type
      BY <1>4 DEF Reusable
    <2>2. at.content \notin relabelled => Settled(source)
      BY <1>0, <2>1 DEF RowsHonest, RowHonest, Settled, Stored, Labelled
    <2>3. ASSUME NEW pc \in {"orphan", "convert", "copy"},
                 NEW next, next = [at EXCEPT !.pc = pc, !.source = source]
          PROVE  WorkerOK(next)
      <3>1. /\ next.prepared = at.prepared /\ next.content = at.content
            /\ next.target = at.target /\ next.type = at.type
            /\ next.pc = pc /\ next.source = source
        BY <1>4, <2>3 DEF Worker, WorkerFields
      <3> QED BY <1>4, <2>1, <2>2, <3>1 DEF WorkerOK, PreparedOK, TargetOK, SourceOK
    <2>4. WorkerOK([at EXCEPT !.type = Nil, !.target = Nil])
      BY <1>4 DEF WorkerOK, PreparedOK, TargetOK, SourceOK, Worker, WorkerFields
    <2> QED BY <2>3, <2>4, IdleOK DEF ReuseOf
  <1>7. PICK new : Becomes(w, new) /\ WorkerOK(new)
    BY <1>2, <1>3, <1>5, <1>6
  <1> QED BY <1>0, <1>7, GotoOK

LEMMA StepOK ==
    ASSUME TypeOK, TypeOK', WorkersOK, Evolves,
           NEW w \in Workers, NEW new, Becomes(w, new), WorkerOK(new)
    PROVE  WorkersOK'
  BY BecomesTyped, WorkerKept, WorkersKept DEF WorkersOK

(* A worker that does not turn to a row it did not have before.            *)
LEMMA GoesOn ==
    ASSUME NEW at \in Worker, WorkerOK(at), at.pc \notin {"prepare", "insert", "pick"},
           NEW pc \in {"fresh", "findings", "fail", "flag", "verdict", "decide", "mark"},
           NEW found, NEW new \in {[at EXCEPT !.pc = pc],
                                   [at EXCEPT !.pc = pc, !.verdict = found]}
    PROVE  WorkerOK(new)
  <1>1. /\ new.prepared = at.prepared /\ new.content = at.content
        /\ new.target = at.target /\ new.type = at.type /\ new.pc = pc
    BY DEF Worker, WorkerFields
  <1> QED BY <1>1, WorkerRelaxed

LEMMA ConvertedFields ==
    ASSUME NEW r \in Rows, NEW s \in Rows, rows[r] \in Row, rows[s] \in Row
    PROVE  LET row == ConvertedFrom(r, s)
           IN  /\ row.status = "completed" /\ row.type = rows[r].type
               /\ row.checksum = rows[r].checksum
               /\ row.findings = rows[r].findings \cup rows[s].findings
               /\ row.count = rows[s].count
  <1>1. PICK old \in Row, source \in Row : old = rows[r] /\ source = rows[s]
    OBVIOUS
  <1>2. PICK row : row = ConvertedFrom(r, s)
    OBVIOUS
  <1>3. row = [old EXCEPT !.status = "completed", !.recent = TRUE,
                          !.findings = @ \cup source.findings, !.count = source.count]
    BY <1>1, <1>2 DEF ConvertedFrom
  <1>4. /\ row.status = "completed" /\ row.type = old.type /\ row.checksum = old.checksum
        /\ row.findings = old.findings \cup source.findings /\ row.count = source.count
    BY <1>1, <1>3 DEF Row
  <1> QED BY <1>1, <1>2, <1>4

LEMMA ConvertKeeps ==
    ASSUME TypeOK, RowsHonest, UNCHANGED relabelled,
           NEW at \in Worker, WorkerOK(at), at.pc \in {"orphan", "convert"},
           Stored(at.source), IsRunning(at.target),
           rows' = [rows EXCEPT ![at.target] = ConvertedFrom(at.target, at.source)]
    PROVE  Evolves /\ RowsHonest'
  <1>1. PICK r \in Rows : r = at.target
    BY DEF Worker, WorkerFields, HasItsRows
  <1>2. PICK s \in Rows : s = at.source
    BY DEF Worker, WorkerFields, HasItsRows
  <1>3. rows[r] \in Row /\ rows[s] \in Row
    BY DEF TypeOK
  <1>4. /\ \A q \in Rows \ {r} : rows'[q] = rows[q]
        /\ rows'[r].status = "completed" /\ rows'[r].type = rows[r].type
        /\ rows'[r].checksum = rows[r].checksum
        /\ rows'[r].findings = rows[r].findings \cup rows[s].findings
        /\ rows'[r].count = rows[s].count
    <2>1. rows'[r] = ConvertedFrom(r, s) /\ \A q \in Rows \ {r} : rows'[q] = rows[q]
      BY <1>1, <1>2 DEF TypeOK
    <2> QED BY <1>3, <2>1, ConvertedFields
  <1>5. rows[r].status = "running" /\ Stored(r) /\ Stored(s)
    BY <1>1, <1>2 DEF IsRunning, Stored
  <1>6. rows[r].type = at.type /\ rows[r].checksum \in {at.content} \cup relabelled
    BY <1>1, <1>5, RowsAreNotNil DEF WorkerOK, TargetOK, Belongs
  <1>7. at.content \notin relabelled =>
           /\ rows[s].findings = FindingsIn(at.content, at.type)
           /\ rows[s].count = FindingsIn(at.content, at.type)
    BY <1>2, <1>5 DEF WorkerOK, SourceOK, Settled, Labelled
  <1>8. rows[s].count \subseteq rows[s].findings
    BY <1>5 DEF RowsHonest, RowHonest
  <1>9. rows[r].checksum \notin relabelled =>
           /\ rows[s].findings = Labelled(r) /\ rows[s].count = Labelled(r)
           /\ rows[r].findings \subseteq Labelled(r)
    BY <1>5, <1>6, <1>7 DEF RowsHonest, RowHonest, Labelled
  <1>10. Labelled(r)' = Labelled(r)
    BY <1>4 DEF Labelled, FindingsIn
  <1>11. RowEvolves(r)
    BY <1>4, <1>5, <1>9, <1>10 DEF RowEvolves, Settled
  <1>12. RowHonest(r)'
    BY <1>4, <1>8, <1>9, <1>10 DEF RowHonest
  <1> QED BY <1>4, <1>11, <1>12, OneRowChanges

LEMMA HonestOrphan ==
    ASSUME ScanInv, TypeOK', NEW w \in Workers, ConvertOrphan(w)
    PROVE  Evolves /\ RowsHonest' /\ WorkersOK'
  <1>0. TypeOK /\ RowsHonest /\ WorkersOK /\ UNCHANGED relabelled
    BY DEF ScanInv, RowsHonest, WorkersOK, ConvertOrphan
  <1>1. PICK at \in Worker : at = worker[w]
    BY <1>0, BusyType DEF ConvertOrphan
  <1>2. WorkerOK(at) /\ at.pc = "orphan"
    BY <1>0, <1>1 DEF WorkersOK, ConvertOrphan
  <1>3. Evolves /\ RowsHonest'
    BY <1>0, <1>1, <1>2, ConvertKeeps, RowsUnchanged DEF ConvertOrphan
  <1> QED BY <1>0, <1>1, <1>2, <1>3, NextScannerOK DEF ConvertOrphan

LEMMA HonestConvert ==
    ASSUME ScanInv, TypeOK', NEW w \in Workers, ConvertToReused(w)
    PROVE  Evolves /\ RowsHonest' /\ WorkersOK'
  <1>0. TypeOK /\ RowsHonest /\ WorkersOK /\ UNCHANGED relabelled
    BY DEF ScanInv, RowsHonest, WorkersOK, ConvertToReused
  <1>1. PICK at \in Worker : at = worker[w]
    BY <1>0, BusyType DEF ConvertToReused
  <1>2. WorkerOK(at) /\ at.pc = "convert"
    BY <1>0, <1>1 DEF WorkersOK, ConvertToReused
  <1>3. \/ UNCHANGED rows
        \/ /\ Stored(at.source) /\ IsRunning(at.target)
           /\ rows' = [rows EXCEPT ![at.target] = ConvertedFrom(at.target, at.source)]
    BY <1>1 DEF ConvertToReused
  <1>4. Evolves /\ RowsHonest'
    BY <1>0, <1>2, <1>3, ConvertKeeps, RowsUnchanged
  <1>5. PICK found : found = rows'[at.target].count
    OBVIOUS
  <1>6. \/ Becomes(w, [at EXCEPT !.pc = "fresh"])
        \/ Becomes(w, [at EXCEPT !.pc = "verdict", !.verdict = found])
    BY <1>1, <1>5 DEF ConvertToReused, Goto
  <1>7. PICK new : Becomes(w, new) /\ WorkerOK(new)
    BY <1>2, <1>6, GoesOn
  <1> QED BY <1>0, <1>4, <1>7, StepOK

LEMMA HonestCopy ==
    ASSUME ScanInv, TypeOK', NEW w \in Workers, CopyScanResults(w)
    PROVE  Evolves /\ RowsHonest' /\ WorkersOK'
  <1>0. TypeOK /\ RowsHonest /\ WorkersOK /\ UNCHANGED relabelled
    BY DEF ScanInv, RowsHonest, WorkersOK, CopyScanResults
  <1>1. PICK at \in Worker : at = worker[w]
    BY <1>0, BusyType DEF CopyScanResults
  <1>2. WorkerOK(at) /\ at.pc = "copy" /\ at.source \in Rows
    BY <1>0, <1>1 DEF WorkersOK, CopyScanResults, Worker, WorkerFields, HasItsRows
  <1> DEFINE source == rows[at.source]
             row == [UnusedRow EXCEPT !.artifact = at.artifact, !.type = at.type,
                        !.checksum = at.content, !.status = "completed",
                        !.findings = source.findings, !.count = source.count,
                        !.recent = source.recent]
  <1>3. CASE UNCHANGED rows /\ Goto(w, "fresh")
    <2>1. WorkerOK([at EXCEPT !.pc = "fresh"])
      BY <1>2, GoesOn
    <2> QED BY <1>0, <1>1, <1>3, <2>1, RowsUnchanged, StepOK DEF Goto
  <1>4. CASE /\ Stored(at.source) /\ InsertRow(at.artifact, row)
             /\ Becomes(w, [at EXCEPT !.pc = "verdict", !.verdict = source.count])
    <2>1. /\ row.status = "completed" /\ row.findings = source.findings
          /\ row.count = source.count /\ row.type = at.type /\ row.checksum = at.content
      BY DEF UnusedRow
    <2>2. row \in Row
      <3>1. source \in Row
        BY <1>0, <1>2 DEF TypeOK
      <3> QED BY <3>1 DEF Row, UnusedRow, Worker, WorkerFields
    <2>3. source.count \subseteq source.findings
      BY <1>2, <1>4, <1>0 DEF RowsHonest, RowHonest
    <2>4. at.content \notin relabelled =>
             /\ source.findings = FindingsIn(at.content, at.type)
             /\ source.count = FindingsIn(at.content, at.type)
      BY <1>2, <1>4 DEF WorkerOK, SourceOK, Settled, Labelled
    <2>5. PICK found : found = source.count
      OBVIOUS
    <2>6. WorkerOK([at EXCEPT !.pc = "verdict", !.verdict = found])
      BY <1>2, GoesOn
    <2>7. Evolves /\ RowsHonest'
      <3> HIDE DEF row, source
      <3> QED BY <1>0, <1>4, <2>1, <2>2, <2>3, <2>4, InsertOK
    <2> QED BY <1>0, <1>4, <2>5, <2>6, <2>7, StepOK
  <1> QED BY <1>1, <1>3, <1>4 DEF CopyScanResults

LEMMA HonestCreate ==
    ASSUME ScanInv, TypeOK', NEW w \in Workers, GetOrCreateRow(w)
    PROVE  Evolves /\ RowsHonest' /\ WorkersOK'
  <1>0. TypeOK /\ RowsHonest /\ WorkersOK /\ UNCHANGED relabelled
    BY DEF ScanInv, RowsHonest, WorkersOK, GetOrCreateRow
  <1>1. PICK at \in Worker : at = worker[w]
    BY <1>0, BusyType DEF GetOrCreateRow
  <1>2. WorkerOK(at) /\ at.pc = "fresh"
    BY <1>0, <1>1 DEF WorkersOK, GetOrCreateRow
  <1> DEFINE row == RunningRow(at.artifact, at.type, at.content)
  <1>3. PICK outcome \in {"findings", "fail"} :
           \/ Goto(w, outcome) /\ UNCHANGED rows
           \/ /\ InsertRow(at.artifact, row)
              /\ Becomes(w, [at EXCEPT !.pc = outcome, !.target = NextRow])
    BY <1>1 DEF GetOrCreateRow
  <1>4. CASE Goto(w, outcome) /\ UNCHANGED rows
    <2>1. WorkerOK([at EXCEPT !.pc = outcome])
      BY <1>2, GoesOn
    <2> QED BY <1>0, <1>1, <1>4, <2>1, RowsUnchanged, StepOK DEF Goto
  <1>5. CASE /\ InsertRow(at.artifact, row)
             /\ Becomes(w, [at EXCEPT !.pc = outcome, !.target = NextRow])
    <2>1. /\ row.status = "running" /\ row.findings = {} /\ row.count = {}
          /\ row.type = at.type /\ row.checksum = at.content
      BY DEF RunningRow, UnusedRow
    <2>2. row \in Row
      BY RunningType DEF Worker, WorkerFields
    <2>3. PICK r : r = NextRow
      OBVIOUS
    <2>4. Evolves /\ RowsHonest' /\ r \in Rows /\ rows'[r] = row
      <3> HIDE DEF row
      <3>1. /\ row.count \subseteq row.findings /\ row.status # "unused"
            /\ row.findings \subseteq FindingsIn(row.checksum, row.type)
        BY <2>1
      <3> QED BY <1>0, <1>5, <2>1, <2>2, <2>3, <3>1, InsertOK
    <2>5. PICK new : new = [at EXCEPT !.pc = outcome, !.target = r]
      OBVIOUS
    <2>6. /\ new.pc = outcome /\ new.target = r /\ new.type = at.type
          /\ new.content = at.content /\ new.prepared = at.prepared
      BY <2>5 DEF Worker, WorkerFields
    <2>7. PreparedOK(at)'
      BY <1>0, <1>2, <2>4, WorkerKept DEF WorkerOK
    <2>8. Belongs(r, at.type, at.content)'
      BY <2>1, <2>4 DEF Belongs
    <2>9. WorkerOK(new)'
      BY <2>6, <2>7, <2>8 DEF WorkerOK, PreparedOK, TargetOK, SourceOK
    <2>10. Becomes(w, new)
      BY <1>5, <2>3, <2>5
    <2> QED BY <1>0, <2>4, <2>9, <2>10, WorkersKept DEF WorkersOK
  <1> QED BY <1>3, <1>4, <1>5

(* The row a worker fills: completing it states the findings it has.       *)
LEMMA TargetFacts ==
    ASSUME TypeOK, RowsHonest, NEW at \in Worker, WorkerOK(at),
           at.pc \in {"findings", "complete"}
    PROVE  /\ at.target \in Rows /\ rows[at.target] \in Row
           /\ rows[at.target].status # "unused"
           /\ Stored(at.target) =>
                 /\ rows[at.target].type = at.type
                 /\ rows[at.target].checksum \notin relabelled =>
                       FindingsIn(at.content, at.type) = Labelled(at.target)
  <1>1. at.target \in Rows
    BY DEF Worker, WorkerFields, HasItsRows
  <1>2. Belongs(at.target, at.type, at.content)
    BY <1>1, RowsAreNotNil DEF WorkerOK, TargetOK
  <1>3. rows[at.target] \in Row
    BY <1>1 DEF TypeOK
  <1> QED BY <1>1, <1>2, <1>3 DEF Belongs, Labelled

LEMMA HonestFindings ==
    ASSUME ScanInv, TypeOK', NEW w \in Workers, CreateFindings(w)
    PROVE  Evolves /\ RowsHonest' /\ WorkersOK'
  <1>0. TypeOK /\ RowsHonest /\ WorkersOK /\ UNCHANGED relabelled
    BY DEF ScanInv, RowsHonest, WorkersOK, CreateFindings
  <1>1. PICK at \in Worker : at = worker[w]
    BY <1>0, BusyType DEF CreateFindings
  <1>2. WorkerOK(at) /\ at.pc = "findings"
    BY <1>0, <1>1 DEF WorkersOK, CreateFindings
  <1>3. PICK r \in Rows : r = at.target
    BY <1>0, <1>2, TargetFacts
  <1>4. PICK found : found = FindingsIn(at.content, at.type)
    OBVIOUS
  <1>5. PICK old \in Row : old = rows[r]
    BY <1>3 DEF TypeOK, ScanInv
  <1>6. rows' = Update(r, [old EXCEPT !.findings = old.findings \cup found])
    BY <1>1, <1>3, <1>4, <1>5 DEF CreateFindings
  <1>7. CASE ~Stored(r)
    <2>1. Evolves /\ RowsHonest' /\ UNCHANGED rows
      BY <1>0, <1>6, <1>7, RowsUnchanged DEF Update
    <2>2. WorkerOK([at EXCEPT !.pc = "complete"])
      BY <1>2, <1>3, <1>7 DEF WorkerOK, PreparedOK, TargetOK, SourceOK, Worker, WorkerFields
    <2> QED BY <1>0, <1>1, <2>1, <2>2, StepOK DEF Goto, CreateFindings
  <1>8. CASE Stored(r)
    <2>1. /\ \A q \in Rows \ {r} : rows'[q] = rows[q]
          /\ rows'[r] = [old EXCEPT !.findings = old.findings \cup found]
      BY <1>0, <1>6, <1>8 DEF Update, TypeOK
    <2>2. /\ rows'[r].status = rows[r].status /\ rows'[r].type = rows[r].type
          /\ rows'[r].checksum = rows[r].checksum /\ rows'[r].count = rows[r].count
          /\ rows'[r].findings = rows[r].findings \cup found
      BY <1>5, <2>1 DEF Row
    <2>3. Labelled(r)' = Labelled(r)
      BY <2>2 DEF Labelled, FindingsIn
    <2>4. /\ rows[r].type = at.type
          /\ rows[r].checksum \notin relabelled => found = Labelled(r)
      BY <1>0, <1>2, <1>3, <1>4, <1>8, TargetFacts
    <2>5. RowEvolves(r)
      BY <1>8, <2>2, <2>3, <2>4 DEF RowEvolves, Settled
    <2>6. RowHonest(r)'
      BY <1>0, <1>8, <2>2, <2>3, <2>4 DEF RowHonest, RowsHonest, Stored
    <2>7. Evolves /\ RowsHonest'
      BY <1>0, <2>1, <2>5, <2>6, OneRowChanges
    <2>8. PICK new : new = [at EXCEPT !.pc = "complete"]
      OBVIOUS
    <2>9. /\ new.pc = "complete" /\ new.target = at.target /\ new.type = at.type
          /\ new.content = at.content /\ new.prepared = at.prepared
      BY <2>8 DEF Worker, WorkerFields
    <2>10. WorkerOK(at)'
      BY <1>0, <1>2, <2>7, WorkerKept
    <2>11. WorkerOK(new)'
      <3>1. found \subseteq rows'[new.target].findings
        BY <1>3, <2>2, <2>9
      <3>2. PreparedOK(new)' /\ SourceOK(new)'
        BY <2>9, <2>10 DEF WorkerOK, PreparedOK, SourceOK
      <3>3. new.target # Nil => Belongs(new.target, new.type, new.content)'
        BY <2>9, <2>10 DEF WorkerOK, TargetOK
      <3> QED BY <1>4, <2>9, <3>1, <3>2, <3>3 DEF WorkerOK, TargetOK, FindingsIn
    <2>12. Becomes(w, new)
      BY <1>1, <2>8 DEF CreateFindings, Goto
    <2> QED BY <1>0, <2>7, <2>11, <2>12, WorkersKept DEF WorkersOK
  <1> QED BY <1>7, <1>8

LEMMA HonestComplete ==
    ASSUME ScanInv, TypeOK', NEW w \in Workers, CompleteScan(w)
    PROVE  Evolves /\ RowsHonest' /\ WorkersOK'
  <1>0. TypeOK /\ RowsHonest /\ WorkersOK /\ UNCHANGED relabelled
    BY DEF ScanInv, RowsHonest, WorkersOK, CompleteScan
  <1>1. PICK at \in Worker : at = worker[w]
    BY <1>0, BusyType DEF CompleteScan
  <1>2. WorkerOK(at) /\ at.pc = "complete"
    BY <1>0, <1>1 DEF WorkersOK, CompleteScan
  <1>3. PICK r \in Rows : r = at.target
    BY <1>0, <1>2, TargetFacts
  <1>4. PICK found : found = FindingsIn(at.content, at.type)
    OBVIOUS
  <1>5. PICK old \in Row : old = rows[r]
    BY <1>3 DEF TypeOK, ScanInv
  <1>6. rows' = Update(r, [old EXCEPT !.status = "completed", !.recent = TRUE, !.count = found])
    BY <1>1, <1>3, <1>4, <1>5 DEF CompleteScan
  <1>7. Evolves /\ RowsHonest'
    <2>1. CASE ~Stored(r)
      BY <1>0, <1>6, <2>1, RowsUnchanged DEF Update
    <2>2. CASE Stored(r)
      <3>1. /\ \A q \in Rows \ {r} : rows'[q] = rows[q]
            /\ rows'[r] = [old EXCEPT !.status = "completed", !.recent = TRUE, !.count = found]
        BY <1>0, <1>6, <2>2 DEF Update, TypeOK
      <3>2. /\ rows'[r].status = "completed" /\ rows'[r].type = rows[r].type
            /\ rows'[r].checksum = rows[r].checksum /\ rows'[r].count = found
            /\ rows'[r].findings = rows[r].findings
        BY <1>5, <3>1 DEF Row
      <3>3. Labelled(r)' = Labelled(r)
        BY <3>2 DEF Labelled, FindingsIn
      <3>4. rows[r].checksum \notin relabelled => found = Labelled(r)
        BY <1>0, <1>2, <1>3, <1>4, <2>2, TargetFacts
      <3>5. found \subseteq rows[r].findings
        BY <1>2, <1>3, <1>4, <2>2 DEF WorkerOK, TargetOK
      <3>6. RowEvolves(r)
        BY <2>2, <3>2, <3>3, <3>4 DEF RowEvolves, Settled
      <3>7. RowHonest(r)'
        BY <1>0, <2>2, <3>2, <3>3, <3>4, <3>5 DEF RowHonest, RowsHonest
      <3> QED BY <1>0, <3>1, <3>6, <3>7, OneRowChanges
    <2> QED BY <2>1, <2>2
  <1>8. WorkerOK([at EXCEPT !.pc = "verdict", !.verdict = found])
    BY <1>2, GoesOn
  <1> QED BY <1>0, <1>1, <1>4, <1>7, <1>8, StepOK DEF CompleteScan

LEMMA HonestEnd ==
    ASSUME ScanInv, TypeOK', NEW w \in Workers,
           FailScan(w) \/ FlagArtifact(w) \/ VerdictStep(w) \/ WorkerStops(w)
    PROVE  Evolves /\ RowsHonest' /\ WorkersOK'
  <1>0. TypeOK /\ RowsHonest /\ WorkersOK /\ UNCHANGED relabelled
    BY DEF ScanInv, RowsHonest, WorkersOK, FailScan, FlagArtifact, VerdictStep,
           ReadQuarantine, DecideQuarantine, MarkArtifact, WorkerStops
  <1>1. PICK at \in Worker : at = worker[w]
    BY <1>0, BusyType DEF FailScan, FlagArtifact, VerdictStep,
                          ReadQuarantine, DecideQuarantine, MarkArtifact, WorkerStops
  <1>2. WorkerOK(at)
    BY <1>0, <1>1 DEF WorkersOK
  <1>3. CASE FailScan(w)
    <2>1. at.pc = "fail" /\ at.target \in Rows
      BY <1>1, <1>3 DEF FailScan, Worker, WorkerFields, HasItsRows
    <2>2. Evolves /\ RowsHonest'
      BY <1>0, <1>1, <1>3, <2>1, FailKeeps DEF FailScan
    <2>3. WorkerOK([at EXCEPT !.pc = "flag"])
      BY <1>2, <2>1, GoesOn
    <2> QED BY <1>0, <1>1, <1>3, <2>2, <2>3, StepOK DEF FailScan, Goto
  <1>4. CASE ReadQuarantine(w)
    <2>1. \A pc \in {"decide", "mark"} : WorkerOK([at EXCEPT !.pc = pc])
      BY <1>1, <1>2, <1>4, GoesOn DEF ReadQuarantine
    <2>2. Evolves /\ RowsHonest'
      BY <1>0, <1>4, RowsUnchanged DEF ReadQuarantine
    <2> QED BY <1>0, <1>1, <1>4, <2>1, <2>2, StepOK DEF ReadQuarantine, Goto
  <1>5. CASE FlagArtifact(w) \/ DecideQuarantine(w) \/ MarkArtifact(w)
    BY <1>0, <1>5, RowsUnchanged, NextScannerOK
       DEF FlagArtifact, DecideQuarantine, MarkArtifact
  <1>6. CASE WorkerStops(w)
    BY <1>0, <1>6, IdleOK, RowsUnchanged, StepOK DEF WorkerStops, Stop
  <1> QED BY <1>3, <1>4, <1>5, <1>6 DEF VerdictStep

-----------------------------------------------------------------------------
(* Steps that no worker takes.                                             *)
LEMMA BystandersOK ==
    ASSUME TypeOK, WorkersOK, Evolves, UNCHANGED worker
    PROVE  WorkersOK'
  <1> SUFFICES ASSUME NEW w \in Workers
               PROVE  WorkerOK(worker[w])'
    BY DEF WorkersOK
  <1>1. PICK at \in Worker \cup {IdleWorker} : at = worker[w]
    BY DEF TypeOK
  <1>2. WorkerOK(at)'
    BY <1>1, WorkerKept DEF WorkersOK
  <1> QED BY <1>1, <1>2

LEMMA HonestOwner ==
    ASSUME ScanInv, NEW a \in Artifacts, Owner(a)
    PROVE  Evolves /\ RowsHonest' /\ WorkersOK'
  <1>0. TypeOK /\ RowsHonest /\ WorkersOK /\ UNCHANGED <<relabelled, worker>>
    BY DEF ScanInv, RowsHonest, WorkersOK, Owner, UploadArtifact, HoldArtifact, HoldFails,
           AdminDecides, DeleteArtifact, PurgeArtifact
  <1>1. CASE UNCHANGED rows
    BY <1>0, <1>1, RowsUnchanged, BystandersOK
  <1>2. CASE PurgeArtifact(a)
    <2>1. ASSUME NEW r \in Rows PROVE RowEvolves(r) /\ RowHonest(r)'
      <3>1. rows'[r] = rows[r] \/ rows'[r] = [UnusedRow EXCEPT !.status = "gone"]
        BY <1>2 DEF PurgeArtifact
      <3>2. CASE rows'[r] = rows[r]
        BY <1>0, <3>2 DEF RowEvolves, RowHonest, RowsHonest, Labelled, Stored, Settled
      <3>3. CASE rows'[r] = [UnusedRow EXCEPT !.status = "gone"]
        <4>1. rows'[r].status = "gone"
          BY <3>3 DEF UnusedRow
        <4> QED BY <4>1 DEF RowEvolves, RowHonest, Stored
      <3> QED BY <3>1, <3>2, <3>3
    <2>2. Evolves /\ RowsHonest'
      BY <1>0, <2>1 DEF Evolves, RowsHonest
    <2> QED BY <1>0, <2>2, BystandersOK
  <1> QED BY <1>1, <1>2 DEF Owner, UploadArtifact, HoldArtifact, HoldFails,
                            AdminDecides, DeleteArtifact

LEMMA HonestTime ==
    ASSUME ScanInv, (\E r \in Rows : ResultsAge(r)) \/ ReapStuckScans
    PROVE  Evolves /\ RowsHonest' /\ WorkersOK'
  <1>0. TypeOK /\ RowsHonest /\ WorkersOK /\ UNCHANGED <<relabelled, worker>>
    BY DEF ScanInv, RowsHonest, WorkersOK, ResultsAge, ReapStuckScans
  <1>1. ASSUME NEW r \in Rows PROVE RowEvolves(r) /\ RowHonest(r)'
    <2>1. PICK old \in Row : old = rows[r]
      BY <1>0 DEF TypeOK
    <2>2. \/ rows'[r] = old
          \/ rows'[r] = [old EXCEPT !.recent = FALSE]
          \/ /\ old.status = "running"
             /\ rows'[r] = [old EXCEPT !.status = "failed", !.recent = TRUE]
      BY <1>0, <2>1 DEF ResultsAge, ReapStuckScans, Stuck, IsRunning, Failed, TypeOK
    <2>3. /\ rows'[r].type = rows[r].type /\ rows'[r].checksum = rows[r].checksum
          /\ rows'[r].findings = rows[r].findings /\ rows'[r].count = rows[r].count
          /\ \/ rows'[r].status = rows[r].status
             \/ rows[r].status = "running" /\ rows'[r].status = "failed"
      BY <2>1, <2>2 DEF Row
    <2>4. RowEvolves(r)
      BY <2>3 DEF RowEvolves, Settled, Labelled, Stored
    <2>5. RowHonest(r)'
      BY <1>0, <2>3 DEF RowHonest, RowsHonest, Labelled, Stored
    <2> QED BY <2>4, <2>5
  <1>2. Evolves /\ RowsHonest'
    BY <1>0, <1>1 DEF Evolves, RowsHonest
  <1> QED BY <1>0, <1>2, BystandersOK

-----------------------------------------------------------------------------
LEMMA ScanInvInit == Init => ScanInv
  <1> SUFFICES ASSUME Init PROVE ScanInv
    OBVIOUS
  <1>1. TypeOK
    BY InitType
  <1>2. \A r \in Rows : RowHonest(r)
    BY DEF Init, RowHonest, Stored, UnusedRow
  <1>3. \A w \in Workers : WorkerOK(worker[w])
    BY IdleOK DEF Init
  <1> QED BY <1>1, <1>2, <1>3 DEF ScanInv

LEMMA ScanInvStep == ASSUME ScanInv, [Next]_vars PROVE Evolves /\ ScanInv'
  <1>0. TypeOK'
    BY TypeStep DEF ScanInv
  <1>1. Evolves /\ RowsHonest' /\ WorkersOK'
    <2>1. CASE UNCHANGED vars
      BY <2>1, RowsUnchanged, BystandersOK DEF vars, ScanInv, RowsHonest, WorkersOK
    <2>2. ASSUME NEW w \in Workers, Scan(w) PROVE Evolves /\ RowsHonest' /\ WorkersOK'
      BY <1>0, <2>2, HonestTrigger, HonestLookUp, HonestPlaceholder, HonestBegin, HonestSkip,
         HonestFind, HonestOrphan, HonestConvert, HonestCopy, HonestCreate, HonestFindings,
         HonestComplete, HonestEnd
         DEF Scan, PrepareStep, ReuseStep, FreshStep
    <2> QED BY <2>1, <2>2, HonestOwner, HonestTime DEF Next
  <1> QED BY <1>0, <1>1 DEF ScanInv, RowsHonest, WorkersOK

LEMMA Invariance == Spec => []ScanInv
  BY ScanInvInit, ScanInvStep, PTL DEF Spec

(* The count a row states is of findings it has, although the janitor, the *)
(* owner and other scans change rows between the steps of a scan.          *)
THEOREM CountedFindings == Spec => []CountedFindingsExist
  <1>1. ScanInv => CountedFindingsExist
    BY DEF ScanInv, CountedFindingsExist, RowHonest, Stored
  <1> QED BY <1>1, Invariance, PTL

(* A completed row has exactly the findings of the content it is labelled  *)
(* with, however often it was copied or converted on the way, unless an    *)
(* upload overtook a placeholder with that label.                          *)
THEOREM HonestResults == Spec => []ResultsMatchChecksum
  <1>1. ScanInv => ResultsMatchChecksum
    BY DEF ScanInv, ResultsMatchChecksum, RowHonest, Stored, Labelled
  <1> QED BY <1>1, Invariance, PTL
-----------------------------------------------------------------------------
(* A verdict may be the count of a placeholder that failed before it could *)
(* be converted.  That it is not completed later, by a scan whose verdict  *)
(* would differ, follows because a row that is not settled has one holder. *)
Has(at, r) == r = at.target \/ \E p \in at.prepared : p[2] = r

SettledLabel(r) == rows[r].checksum \notin relabelled => Settled(r)

OneHolder ==
    \A r \in Rows : \A v, w \in Workers :
        (v # w /\ Has(worker[v], r) /\ Has(worker[w], r) /\ Stored(r)) => SettledLabel(r)

FailedUnsettled(at) ==
    \/ rows[at.target].status = "gone"
    \/ rows[at.target].checksum # at.content
    \/ rows[at.target].status = "failed" /\ ~Settled(at.target)

VerdictOK(at) ==
    (at.pc \in {"verdict", "decide", "mark"} /\ at.content \notin relabelled) =>
        \/ at.verdict = FindingsIn(at.content, at.type)
        \/ at.target # Nil /\ FailedUnsettled(at)

VerdictInv == ScanInv /\ OneHolder /\ \A w \in Workers : VerdictOK(worker[w])

LEMMA HeldIsUsed ==
    ASSUME NEW at, WorkerOK(at), NEW r \in Rows, Has(at, r)
    PROVE  rows[r].status # "unused"
  BY RowsAreNotNil DEF WorkerOK, PreparedOK, TargetOK, Belongs, Has

(* A worker gets a row by inserting it or by finding it completed.         *)
LEMMA RowsTaken ==
    ASSUME ScanInv, NEW w \in Workers, Scan(w), NEW r \in Rows, Has(worker'[w], r),
           ~Has(worker[w], r)
    PROVE  rows[r].status = "unused" \/ SettledLabel(r)
  <1>0. TypeOK /\ Nil \notin Rows
    BY RowsAreNotNil DEF ScanInv
  <1>1. worker[w] \in Worker \/ worker[w] = IdleWorker
    BY <1>0 DEF TypeOK
  <1>2. ~Has(IdleWorker, r)
    BY <1>0 DEF Has, IdleWorker
  <1>3. ASSUME NEW new, Becomes(w, new) PROVE Has(new, r)
    BY <1>0, <1>3 DEF Becomes, TypeOK
  <1>4. ASSUME NEW new, Becomes(w, new), new.target \in {worker[w].target, Nil},
               new.prepared \subseteq worker[w].prepared
        PROVE  FALSE
    BY <1>0, <1>3, <1>4 DEF Has
  <1>5. CASE Trigger(w) \/ ScanUnprepared(w)
    <2> DEFINE Unprepared(a) == [IdleWorker EXCEPT !.pc = "prepare", !.artifact = a]
               Triggered(a) == [IdleWorker EXCEPT !.pc = "prepare", !.artifact = a,
                                      !.content = artifact[a].content, !.todo = Types]
    <2>1. PICK a \in Artifacts : Becomes(w, Unprepared(a)) \/ Becomes(w, Triggered(a))
      BY <1>5 DEF Trigger, ScanUnprepared
    <2>2. \A new \in {Unprepared(a), Triggered(a)} : new.prepared = {} /\ new.target = Nil
      BY DEF IdleWorker
    <2> HIDE DEF Unprepared, Triggered
    <2> QED BY <1>4, <2>1, <2>2
  <1>6. CASE LookUpExisting(w)
    <2>0. worker[w] \in Worker
      BY <1>0, <1>6, BusyType DEF LookUpExisting
    <2>1. PICK at \in Worker : at = worker[w]
      BY <2>0
    <2>2. PICK t \in at.todo :
             \/ \E q \in Existing(at.artifact, at.content, t) :
                   Becomes(w, [at EXCEPT !.prepared = @ \cup {<<t, q>>}, !.todo = @ \ {t}])
             \/ Becomes(w, [at EXCEPT !.pc = "insert", !.type = t])
      BY <1>6, <2>1 DEF LookUpExisting
    <2>3. CASE Becomes(w, [at EXCEPT !.pc = "insert", !.type = t])
      <3>1. PICK new : new = [at EXCEPT !.pc = "insert", !.type = t]
        OBVIOUS
      <3>2. new.target = at.target /\ new.prepared = at.prepared
        BY <3>1 DEF Worker, WorkerFields
      <3> QED BY <1>4, <2>1, <2>3, <3>1, <3>2
    <2>4. ASSUME NEW q \in Existing(at.artifact, at.content, t),
                 Becomes(w, [at EXCEPT !.prepared = @ \cup {<<t, q>>}, !.todo = @ \ {t}])
          PROVE  SettledLabel(r)
      <3>1. PICK new : new = [at EXCEPT !.prepared = @ \cup {<<t, q>>}, !.todo = @ \ {t}]
        OBVIOUS
      <3>2. new.target = at.target /\ new.prepared = at.prepared \cup {<<t, q>>}
        BY <3>1 DEF Worker, WorkerFields
      <3>3. Has(new, r)
        BY <1>3, <2>4, <3>1
      <3>4. q = r
        <4> HIDE DEF Existing
        <4> QED BY <2>1, <3>2, <3>3 DEF Has
      <3> QED BY <3>4 DEF Existing, Reusable, ScanInv, RowHonest, Stored, SettledLabel,
                          Settled, Labelled
    <2> QED BY <2>2, <2>3, <2>4
  <1>7. CASE InsertPlaceholder(w)
    <2>0. worker[w] \in Worker
      BY <1>1, <1>7 DEF InsertPlaceholder, IdleWorker
    <2>1. PICK at \in Worker : at = worker[w]
      BY <2>0
    <2>2. PICK q : q = NextRow
      OBVIOUS
    <2>3. PICK new : new = [at EXCEPT !.pc = "prepare", !.type = Nil,
                               !.prepared = @ \cup {<<at.type, q>>}, !.todo = @ \ {at.type}]
      OBVIOUS
    <2>4. new.target = at.target /\ new.prepared = at.prepared \cup {<<at.type, q>>}
      BY <2>3 DEF Worker, WorkerFields
    <2>5. Becomes(w, new) /\ InsertRow(at.artifact, RunningRow(at.artifact, at.type, at.content))
      BY <1>7, <2>1, <2>2, <2>3 DEF InsertPlaceholder
    <2>6. rows[q].status = "unused"
      BY <2>2, <2>5, NextRowUnused
    <2>7. q = r
      BY <1>3, <2>1, <2>4, <2>5 DEF Has
    <2> QED BY <2>6, <2>7
  <1>8. CASE BeginScan(w)
    <2>0. worker[w] \in Worker
      BY <1>1, <1>8 DEF BeginScan, IdleWorker
    <2>1. PICK content : content = artifact[worker[w].artifact].content
      OBVIOUS
    <2>2. PICK new : /\ new = [worker[w] EXCEPT !.pc = "pick", !.todo = Types, !.content = content]
                     /\ Becomes(w, new) \/ Becomes(w, IdleWorker)
      BY <1>8, <2>1 DEF BeginScan, Stop
    <2>3. new.target = worker[w].target /\ new.prepared = worker[w].prepared
      BY <2>0, <2>2 DEF Worker, WorkerFields
    <2> QED BY <1>2, <1>3, <1>4, <2>2, <2>3
  <1>9. CASE SkipScanner(w) \/ FindReusable(w)
    <2>0. worker[w] \in Worker
      BY <1>1, <1>9 DEF SkipScanner, FindReusable, IdleWorker
    <2>1. PICK t \in worker[w].todo : \E target \in PreparedFor(w, t) :
             LET at == WithScanner(w, t, target)
             IN  \/ Becomes(w, IdleWorker)
                 \/ Becomes(w, [WithScanner(w, t, Nil) EXCEPT !.type = Nil])
                 \/ \E source \in Rows : Becomes(w, ReuseOf(at, source))
                 \/ Becomes(w, [at EXCEPT !.pc = "fresh"])
      BY <1>9 DEF SkipScanner, FindReusable, Reusable
    <2>2. PICK target \in PreparedFor(w, t) :
             LET at == WithScanner(w, t, target)
             IN  \/ Becomes(w, IdleWorker)
                 \/ Becomes(w, [WithScanner(w, t, Nil) EXCEPT !.type = Nil])
                 \/ \E source \in Rows : Becomes(w, ReuseOf(at, source))
                 \/ Becomes(w, [at EXCEPT !.pc = "fresh"])
      BY <2>1
    <2>3. target \in Rows \cup {Nil} /\ (target # Nil => Has(worker[w], target))
      BY DEF PreparedFor, Has
    <2>4. PICK new : Becomes(w, new) /\ Has(new, r) /\ new.target \in {target, Nil}
                     /\ new.prepared \subseteq worker[w].prepared
      <3> DEFINE at == WithScanner(w, t, target)
                 skipped == [WithScanner(w, t, Nil) EXCEPT !.type = Nil]
                 ready == [at EXCEPT !.pc = "fresh"]
                 passed == [at EXCEPT !.type = Nil, !.target = Nil]
                 turned(pc, source) == [at EXCEPT !.pc = pc, !.source = source]
      <3>1. /\ skipped.target = Nil /\ skipped.prepared \subseteq worker[w].prepared
            /\ ready.target = target /\ ready.prepared \subseteq worker[w].prepared
            /\ passed.target = Nil /\ passed.prepared \subseteq worker[w].prepared
            /\ IdleWorker.target = Nil /\ IdleWorker.prepared = {}
        BY <2>0 DEF WithScanner, Worker, WorkerFields, IdleWorker
      <3>2. ASSUME NEW pc, NEW source
            PROVE  /\ turned(pc, source).target = target
                   /\ turned(pc, source).prepared \subseteq worker[w].prepared
        BY <2>0 DEF WithScanner, Worker, WorkerFields
      <3>3. ASSUME NEW source
            PROVE  ReuseOf(at, source) \in
                      {IdleWorker, passed} \cup {turned(pc, source) : pc \in {"copy", "convert", "orphan"}}
        BY DEF ReuseOf
      <3>4. PICK new : /\ Becomes(w, new)
                       /\ \/ new \in {IdleWorker, skipped, ready, passed}
                          \/ \E pc, source : new = turned(pc, source)
        <4> HIDE DEF at, skipped, ready, passed, turned
        <4> QED BY <2>2, <3>3 DEF at, skipped, ready
      <3> HIDE DEF at, skipped, ready, passed, turned
      <3> QED BY <1>3, <3>1, <3>2, <3>4
    <2> QED BY <1>0, <2>3, <2>4 DEF Has
  <1>10. CASE GetOrCreateRow(w)
    <2>0. worker[w] \in Worker
      BY <1>1, <1>10 DEF GetOrCreateRow, IdleWorker
    <2>1. PICK at \in Worker : at = worker[w]
      BY <2>0
    <2>2. PICK outcome, q : /\ q = NextRow
                            /\ \/ Becomes(w, [at EXCEPT !.pc = outcome])
                               \/ /\ Becomes(w, [at EXCEPT !.pc = outcome, !.target = q])
                                  /\ InsertRow(at.artifact,
                                               RunningRow(at.artifact, at.type, at.content))
      BY <1>10, <2>1 DEF GetOrCreateRow, Goto
    <2>3. PICK same, new : /\ same = [at EXCEPT !.pc = outcome]
                           /\ new = [at EXCEPT !.pc = outcome, !.target = q]
      OBVIOUS
    <2>4. /\ same.target = at.target /\ same.prepared = at.prepared
          /\ new.target = q /\ new.prepared = at.prepared
      BY <2>3 DEF Worker, WorkerFields
    <2>5. CASE Becomes(w, same)
      BY <1>4, <2>1, <2>4, <2>5
    <2>6. CASE Becomes(w, new) /\ InsertRow(at.artifact,
                                            RunningRow(at.artifact, at.type, at.content))
      <3>1. rows[q].status = "unused"
        BY <2>2, <2>6, NextRowUnused
      <3>2. q = r
        BY <1>3, <2>1, <2>4, <2>6 DEF Has
      <3> QED BY <3>1, <3>2
    <2> QED BY <2>2, <2>3, <2>5, <2>6
  <1>11. CASE \/ ConvertOrphan(w) \/ ConvertToReused(w) \/ CopyScanResults(w)
              \/ CreateFindings(w) \/ CompleteScan(w) \/ FailScan(w) \/ FlagArtifact(w)
              \/ VerdictStep(w) \/ WorkerStops(w)
    <2>0. worker[w] \in Worker
      BY <1>1, <1>11 DEF ConvertOrphan, ConvertToReused, CopyScanResults, CreateFindings,
            CompleteScan, FailScan, FlagArtifact, VerdictStep, ReadQuarantine,
            DecideQuarantine, MarkArtifact, WorkerStops, IdleWorker
    <2>1. PICK at \in Worker : at = worker[w]
      BY <2>0
    <2> DEFINE Goes(pc) == [at EXCEPT !.pc = pc]
               Finds(pc, found) == [at EXCEPT !.pc = pc, !.verdict = found]
               next == [at EXCEPT !.pc = "pick", !.type = Nil, !.target = Nil,
                                  !.source = Nil, !.verdict = {}]
    <2>2. PICK pc, found : \/ Becomes(w, Goes(pc)) \/ Becomes(w, Finds(pc, found))
                           \/ Becomes(w, IdleWorker) \/ Becomes(w, next)
      BY <1>11, <2>1 DEF ConvertOrphan, ConvertToReused, CopyScanResults, CreateFindings,
            CompleteScan, FailScan, FlagArtifact, VerdictStep, ReadQuarantine,
            DecideQuarantine, MarkArtifact, WorkerStops, NextScanner, Stop, Goto
    <2>3. \A new \in {Goes(pc), Finds(pc, found), next, IdleWorker} :
             new.target \in {at.target, Nil} /\ new.prepared \subseteq at.prepared
      <3>1. Goes(pc).target = at.target /\ Goes(pc).prepared = at.prepared
        BY DEF Worker, WorkerFields
      <3>2. Finds(pc, found).target = at.target /\ Finds(pc, found).prepared = at.prepared
        BY DEF Worker, WorkerFields
      <3>3. next.target = Nil /\ next.prepared = at.prepared
        BY DEF Worker, WorkerFields
      <3>4. IdleWorker.target = Nil /\ IdleWorker.prepared = {}
        BY DEF IdleWorker
      <3> HIDE DEF Goes, Finds, next
      <3> QED BY <3>1, <3>2, <3>3, <3>4
    <2> HIDE DEF Goes, Finds, next
    <2> QED BY <1>4, <2>1, <2>2, <2>3
  <1> QED BY <1>5, <1>6, <1>7, <1>8, <1>9, <1>10, <1>11
          DEF Scan, PrepareStep, ReuseStep, FreshStep

(* A failed row is changed only by a worker that has it.                   *)
LEMMA FailedRowKept ==
    ASSUME ScanInv, NEW w \in Workers, Scan(w), NEW r \in Rows,
           rows[r].status = "failed", ~Has(worker[w], r)
    PROVE  rows'[r] = rows[r]
  <1>0. TypeOK /\ Nil \notin Rows
    BY RowsAreNotNil DEF ScanInv
  <1>1. ASSUME NEW q \in Rows \ {r}, NEW row,
               rows' = [rows EXCEPT ![q] = row] \/ rows' = Update(q, row)
        PROVE  rows'[r] = rows[r]
    BY <1>0, <1>1 DEF Update, TypeOK
  <1>2. ASSUME NEW a, NEW row, InsertRow(a, row) PROVE rows'[r] = rows[r]
    <2>1. PICK q : q = NextRow /\ rows[q].status = "unused" /\ q \in Rows
      BY <1>2, NextRowUnused
    <2> QED BY <1>1, <1>2, <2>1 DEF InsertRow
  <1>3. CASE UNCHANGED rows
    BY <1>3
  <1>4. CASE InsertPlaceholder(w) \/ CopyScanResults(w) \/ GetOrCreateRow(w)
    BY <1>2, <1>4 DEF InsertPlaceholder, CopyScanResults, GetOrCreateRow
  <1>5. CASE SkipScanner(w)
    <2>1. PICK t \in worker[w].todo : \E target \in PreparedFor(w, t) :
             rows' = IF target = Nil THEN rows ELSE Update(target, Failed(target))
      BY <1>5 DEF SkipScanner
    <2>2. PICK target \in PreparedFor(w, t) :
             rows' = IF target = Nil THEN rows ELSE Update(target, Failed(target))
      BY <2>1
    <2>3. target # Nil => target \in Rows /\ Has(worker[w], target)
      BY DEF PreparedFor, Has
    <2> QED BY <1>1, <2>2, <2>3
  <1>6. CASE ConvertOrphan(w) \/ ConvertToReused(w)
    <2>1. PICK at \in Worker : at = worker[w] /\ at.pc \in {"orphan", "convert"}
      BY <1>0, <1>6, BusyType DEF ConvertOrphan, ConvertToReused
    <2>2. at.target \in Rows
      BY <2>1 DEF Worker, WorkerFields, HasItsRows
    <2>3. \/ UNCHANGED rows
          \/ /\ IsRunning(at.target)
             /\ rows' = [rows EXCEPT ![at.target] = ConvertedFrom(at.target, at.source)]
      BY <1>6, <2>1 DEF ConvertOrphan, ConvertToReused
    <2>4. IsRunning(at.target) => at.target # r
      BY DEF IsRunning
    <2> QED BY <1>1, <2>2, <2>3, <2>4
  <1>7. CASE CreateFindings(w) \/ CompleteScan(w) \/ FailScan(w)
    <2>1. PICK at \in Worker : at = worker[w] /\ at.pc \in {"findings", "complete", "fail"}
      BY <1>0, <1>7, BusyType DEF CreateFindings, CompleteScan, FailScan
    <2>2. at.target \in Rows \ {r}
      BY <2>1 DEF Worker, WorkerFields, HasItsRows, Has
    <2>3. PICK row : rows' = Update(at.target, row)
      BY <1>7, <2>1 DEF CreateFindings, CompleteScan, FailScan
    <2> QED BY <1>1, <2>2, <2>3
  <1> QED BY <1>3, <1>4, <1>5, <1>6, <1>7
          DEF Scan, PrepareStep, ReuseStep, FreshStep, VerdictStep, Trigger, ScanUnprepared,
              LookUpExisting, BeginScan, FindReusable, FlagArtifact, ReadQuarantine,
              DecideQuarantine, MarkArtifact, WorkerStops

LEMMA ScanMoves == ASSUME NEW w \in Workers, Scan(w) PROVE \E new : Becomes(w, new)
  BY DEF Scan, PrepareStep, ReuseStep, FreshStep, VerdictStep, Trigger, ScanUnprepared,
         LookUpExisting, InsertPlaceholder, BeginScan, SkipScanner, FindReusable,
         ConvertOrphan, ConvertToReused, CopyScanResults, GetOrCreateRow, CreateFindings,
         CompleteScan, FailScan, FlagArtifact, ReadQuarantine, DecideQuarantine,
         MarkArtifact, WorkerStops, Goto, Stop, NextScanner

LEMMA OneHolderStep ==
    ASSUME ScanInv, Evolves, OneHolder,
           UNCHANGED worker \/ \E w \in Workers : Scan(w) /\ \E new : Becomes(w, new)
    PROVE  OneHolder'
  <1> SUFFICES ASSUME NEW r \in Rows, NEW v \in Workers, NEW w \in Workers, v # w,
                      Has(worker'[v], r), Has(worker'[w], r), Stored(r)'
               PROVE  SettledLabel(r)'
    BY DEF OneHolder, Has
  <1>0. TypeOK /\ \A u \in Workers : WorkerOK(worker[u])
    BY DEF ScanInv
  <1>1. ASSUME rows[r].status # "unused", SettledLabel(r) PROVE SettledLabel(r)'
    BY <1>1 DEF Evolves, RowEvolves, SettledLabel, Stored
  <1>2. CASE Has(worker[v], r) /\ Has(worker[w], r)
    <2>1. rows[r].status # "unused"
      BY <1>0, <1>2, HeldIsUsed
    <2>2. Stored(r)
      BY <2>1 DEF Evolves, RowEvolves
    <2> QED BY <1>1, <1>2, <2>1, <2>2 DEF OneHolder
  <1>3. CASE ~(Has(worker[v], r) /\ Has(worker[w], r))
    <2>1. PICK u \in Workers : Scan(u) /\ \E new : Becomes(u, new)
      BY <1>3
    <2>2. \A x \in Workers \ {u} : worker'[x] = worker[x]
      BY <1>0, <2>1 DEF Becomes, TypeOK
    <2>3. u \in {v, w} /\ ~Has(worker[u], r) /\ Has(worker'[u], r)
      BY <1>3, <2>2
    <2>4. PICK x \in {v, w} : x # u /\ Has(worker[x], r)
      BY <2>2, <2>3
    <2>5. rows[r].status # "unused"
      BY <1>0, <2>4, HeldIsUsed
    <2>6. SettledLabel(r)
      BY <2>1, <2>3, <2>5, RowsTaken
    <2> QED BY <1>1, <2>5, <2>6
  <1> QED BY <1>2, <1>3

(* A step leaves r alone, if r has failed and is not settled.              *)
Spared(r) ==
    (rows[r].status = "failed" /\ ~SettledLabel(r)) =>
        rows'[r] = rows[r] \/ rows'[r].status = "gone"

LEMMA VerdictKept ==
    ASSUME TypeOK, TypeOK', Evolves,
           NEW at \in Worker \cup {IdleWorker}, WorkerOK(at), VerdictOK(at),
           \A r \in Rows : Has(at, r) => Spared(r)
    PROVE  VerdictOK(at)'
  <1> SUFFICES ASSUME at.pc \in {"verdict", "decide", "mark"}, at.content \notin relabelled',
                      at.verdict # FindingsIn(at.content, at.type)
               PROVE  at.target # Nil /\ FailedUnsettled(at)'
    BY DEF VerdictOK, FindingsIn
  <1>1. at.content \notin relabelled /\ at.target # Nil /\ FailedUnsettled(at)
    BY DEF VerdictOK, Evolves
  <1>2. PICK r \in Rows : r = at.target
    BY <1>1 DEF Worker, WorkerFields, IdleWorker
  <1>3. rows[r].status # "unused" /\ RowEvolves(r) /\ rows[r] \in Row /\ Spared(r)
    BY <1>2, HeldIsUsed DEF Has, Evolves, TypeOK
  <1>4. CASE ~Stored(r)'
    <2>1. rows'[r].status # "unused"
      BY <1>3 DEF RowEvolves
    <2>2. rows'[r] \in Row
      BY DEF TypeOK
    <2>3. rows'[r].status = "gone"
      BY <1>4, <2>1, <2>2 DEF Stored, Row
    <2> QED BY <1>1, <1>2, <2>3 DEF FailedUnsettled
  <1>5. CASE Stored(r)'
    <2>1. Stored(r) /\ rows'[r].checksum = rows[r].checksum
      BY <1>3, <1>5 DEF RowEvolves
    <2>2. CASE rows[r].checksum # at.content
      BY <1>1, <1>2, <2>1, <2>2 DEF FailedUnsettled
    <2>3. CASE rows[r].checksum = at.content
      <3>1. rows[r].status = "failed" /\ ~Settled(r)
        BY <1>1, <1>2, <2>1, <2>3 DEF FailedUnsettled, Stored
      <3>2. rows'[r] = rows[r]
        BY <1>1, <1>3, <1>5, <2>3, <3>1 DEF Spared, SettledLabel, Stored
      <3> QED BY <1>1, <1>2, <3>1, <3>2 DEF FailedUnsettled, Settled, Labelled, FindingsIn
    <2> QED BY <2>2, <2>3
  <1> QED BY <1>4, <1>5

(* What a step of w does to the verdict of w.                              *)
LEMMA VerdictMade ==
    ASSUME ScanInv, TypeOK', Evolves, NEW w \in Workers, Scan(w), VerdictOK(worker[w])
    PROVE  VerdictOK(worker[w])'
  <1>0. TypeOK /\ WorkerOK(worker[w])
    BY DEF ScanInv
  <1>1. ASSUME NEW new, Becomes(w, new) PROVE worker'[w] = new
    BY <1>0, <1>1 DEF Becomes, TypeOK
  <1>2. ASSUME NEW new, Becomes(w, new), new.pc \notin {"verdict", "decide", "mark"}
        PROVE  VerdictOK(worker[w])'
    BY <1>1, <1>2 DEF VerdictOK
  <1>3. ASSUME NEW at \in Worker, NEW found,
               Becomes(w, [at EXCEPT !.pc = "verdict", !.verdict = found]),
               at.content \notin relabelled' =>
                  \/ found = FindingsIn(at.content, at.type)
                  \/ at.target # Nil /\ FailedUnsettled(at)'
        PROVE  VerdictOK(worker[w])'
    <2>1. PICK new : new = [at EXCEPT !.pc = "verdict", !.verdict = found]
      OBVIOUS
    <2>2. /\ new.verdict = found /\ new.content = at.content /\ new.type = at.type
          /\ new.target = at.target
      BY <2>1 DEF Worker, WorkerFields
    <2>3. worker'[w] = new
      BY <1>1, <1>3, <2>1
    <2> QED BY <1>3, <2>2, <2>3 DEF VerdictOK, FailedUnsettled, FindingsIn, Settled, Labelled
  <1>4. CASE CompleteScan(w)
    <2>1. PICK at \in Worker : at = worker[w]
      BY <1>0, <1>4, BusyType DEF CompleteScan
    <2>2. PICK found : found = FindingsIn(at.content, at.type)
      OBVIOUS
    <2> QED BY <1>3, <1>4, <2>1, <2>2 DEF CompleteScan
  <1>5. CASE CopyScanResults(w)
    <2>1. PICK at \in Worker : at = worker[w] /\ at.pc = "copy"
      BY <1>0, <1>5, BusyType DEF CopyScanResults
    <2>2. PICK found : found = rows[at.source].count
      OBVIOUS
    <2>3. CASE Becomes(w, [at EXCEPT !.pc = "fresh"])
      <3>1. [at EXCEPT !.pc = "fresh"].pc = "fresh"
        BY DEF Worker, WorkerFields
      <3> HIDE DEF Worker
      <3>2. PICK new : new = [at EXCEPT !.pc = "fresh"]
        OBVIOUS
      <3> QED BY <1>2, <2>3, <3>1, <3>2
    <2>4. CASE Stored(at.source) /\ Becomes(w, [at EXCEPT !.pc = "verdict", !.verdict = found])
      <3>1. at.content \notin relabelled => found = FindingsIn(at.content, at.type)
        BY <1>0, <2>1, <2>2, <2>4 DEF WorkerOK, SourceOK, Settled, Labelled
      <3> QED BY <1>3, <2>4, <3>1 DEF Evolves
    <2> QED BY <1>5, <2>1, <2>2, <2>3, <2>4 DEF CopyScanResults, Goto
  <1>6. CASE ConvertToReused(w)
    <2>1. PICK at \in Worker : at = worker[w] /\ at.pc = "convert"
      BY <1>0, <1>6, BusyType DEF ConvertToReused
    <2>2. PICK found : found = rows'[at.target].count
      OBVIOUS
    <2>3. CASE Becomes(w, [at EXCEPT !.pc = "fresh"])
      <3>1. PICK new : new = [at EXCEPT !.pc = "fresh"]
        OBVIOUS
      <3>2. new.pc = "fresh"
        BY <3>1 DEF Worker, WorkerFields
      <3> QED BY <1>2, <2>3, <3>1, <3>2
    <2>4. CASE /\ Stored(at.source) /\ Stored(at.target)
               /\ Becomes(w, [at EXCEPT !.pc = "verdict", !.verdict = found])
               /\ rows' = IF IsRunning(at.target)
                          THEN [rows EXCEPT ![at.target] = ConvertedFrom(at.target, at.source)]
                          ELSE rows
      <3>1. PICK r \in Rows, s \in Rows : r = at.target /\ s = at.source /\ r # Nil
        BY <2>1, RowsAreNotNil DEF Worker, WorkerFields, HasItsRows
      <3>2. Stored(r) /\ Stored(s) /\ rows[r] \in Row /\ rows[s] \in Row
        BY <1>0, <2>4, <3>1 DEF TypeOK
      <3>3. CASE IsRunning(r)
        <4>1. rows'[r] = ConvertedFrom(r, s)
          BY <1>0, <2>4, <3>1, <3>3 DEF TypeOK
        <4>2. found = rows[s].count
          BY <2>2, <3>1, <3>2, <4>1, ConvertedFields
        <4>3. at.content \notin relabelled => found = FindingsIn(at.content, at.type)
          BY <1>0, <2>1, <3>1, <3>2, <4>2 DEF WorkerOK, SourceOK, Settled, Labelled
        <4> QED BY <1>3, <2>4, <4>3 DEF Evolves
      <3>4. CASE ~IsRunning(r)
        <4>1. rows' = rows /\ found = rows[r].count
          BY <2>2, <2>4, <3>1, <3>4
        <4>2. rows[r].type = at.type
          BY <1>0, <2>1, <3>1, <3>2 DEF WorkerOK, TargetOK, Belongs
        <4>3. rows[r].status \in {"completed", "failed"}
          BY <3>2, <3>4 DEF Stored, IsRunning
        <4>4. ASSUME at.content \notin relabelled, rows[r].checksum = at.content
              PROVE  \/ found = FindingsIn(at.content, at.type)
                     \/ rows[r].status = "failed" /\ ~Settled(r)
          <5>1. Labelled(r) = FindingsIn(at.content, at.type)
            BY <4>2, <4>4 DEF Labelled
          <5>2. rows[r].status = "completed" => rows[r].count = Labelled(r)
            BY <3>2, <4>4 DEF ScanInv, RowHonest
          <5>3. Settled(r) => rows[r].count = Labelled(r)
            BY DEF Settled
          <5> QED BY <4>1, <4>3, <5>1, <5>2, <5>3
        <4>5. at.content \notin relabelled' =>
                 \/ found = FindingsIn(at.content, at.type)
                 \/ at.target # Nil /\ FailedUnsettled(at)'
          BY <3>1, <4>1, <4>4 DEF FailedUnsettled, Evolves, Settled, Labelled, FindingsIn
        <4> QED BY <1>3, <2>4, <4>5
      <3> QED BY <3>3, <3>4
    <2> QED BY <1>6, <2>1, <2>2, <2>3, <2>4 DEF ConvertToReused, Goto
  <1>7. CASE ReadQuarantine(w)
    <2>1. PICK at \in Worker : at = worker[w] /\ at.pc = "verdict"
      BY <1>0, <1>7, BusyType DEF ReadQuarantine
    <2>2. PICK pc \in {"decide", "mark"} : Becomes(w, [at EXCEPT !.pc = pc])
      BY <1>7, <2>1 DEF ReadQuarantine, Goto
    <2>3. PICK new : new = [at EXCEPT !.pc = pc]
      OBVIOUS
    <2>4. /\ new.verdict = at.verdict /\ new.content = at.content /\ new.type = at.type
          /\ new.target = at.target
      BY <2>3 DEF Worker, WorkerFields
    <2>5. worker'[w] = new /\ UNCHANGED <<rows, relabelled>>
      BY <1>1, <1>7, <2>2, <2>3 DEF ReadQuarantine
    <2> QED BY <2>1, <2>4, <2>5 DEF VerdictOK, FailedUnsettled, FindingsIn, Settled, Labelled
  <1>8. CASE Trigger(w) \/ ScanUnprepared(w)
    <2>1. PICK a : \/ Becomes(w, [IdleWorker EXCEPT !.pc = "prepare", !.artifact = a])
                   \/ Becomes(w, [IdleWorker EXCEPT !.pc = "prepare", !.artifact = a,
                                     !.content = artifact[a].content, !.todo = Types])
      BY <1>8 DEF Trigger, ScanUnprepared
    <2>2. PICK one, two : /\ one = [IdleWorker EXCEPT !.pc = "prepare", !.artifact = a]
                          /\ two = [IdleWorker EXCEPT !.pc = "prepare", !.artifact = a,
                                       !.content = artifact[a].content, !.todo = Types]
      OBVIOUS
    <2>3. one.pc = "prepare" /\ two.pc = "prepare"
      BY <2>2 DEF IdleWorker
    <2> QED BY <1>2, <2>1, <2>2, <2>3
  <1>9. CASE LookUpExisting(w) \/ InsertPlaceholder(w) \/ BeginScan(w) \/ SkipScanner(w)
             \/ FindReusable(w)
    <2>1. PICK at \in Worker : at = worker[w] /\ at.pc \in {"prepare", "insert", "pick"}
      BY <1>0, <1>9, BusyType
         DEF LookUpExisting, InsertPlaceholder, BeginScan, SkipScanner, FindReusable
    <2>2. ASSUME NEW new, Becomes(w, new),
                 new.pc \in {"prepare", "insert", "pick", "idle", "copy", "convert", "orphan", "fresh"}
          PROVE  VerdictOK(worker[w])'
      BY <1>2, <2>2
    <2>3. CASE LookUpExisting(w)
      <3>1. PICK t : \/ \E r : Becomes(w, [at EXCEPT !.prepared = @ \cup {<<t, r>>},
                                                    !.todo = @ \ {t}])
                     \/ Becomes(w, [at EXCEPT !.pc = "insert", !.type = t])
        BY <2>1, <2>3 DEF LookUpExisting
      <3>2. \A r : [at EXCEPT !.prepared = @ \cup {<<t, r>>}, !.todo = @ \ {t}].pc = at.pc
        BY DEF Worker, WorkerFields
      <3>3. [at EXCEPT !.pc = "insert", !.type = t].pc = "insert"
        BY DEF Worker, WorkerFields
      <3> QED BY <2>1, <2>2, <3>1, <3>2, <3>3
    <2>4. CASE InsertPlaceholder(w)
      <3>1. PICK r : r = NextRow
        OBVIOUS
      <3>2. PICK new : new = [at EXCEPT !.pc = "prepare", !.type = Nil,
                                 !.prepared = @ \cup {<<at.type, r>>}, !.todo = @ \ {at.type}]
        OBVIOUS
      <3>3. new.pc = "prepare"
        BY <3>2 DEF Worker, WorkerFields
      <3> QED BY <2>1, <2>2, <2>4, <3>1, <3>2, <3>3 DEF InsertPlaceholder
    <2>5. CASE BeginScan(w)
      <3>1. PICK content : content = artifact[at.artifact].content
        OBVIOUS
      <3>2. PICK new : new = [at EXCEPT !.pc = "pick", !.todo = Types, !.content = content]
        OBVIOUS
      <3>3. new.pc = "pick" /\ IdleWorker.pc = "idle"
        BY <3>2 DEF Worker, WorkerFields, IdleWorker
      <3> QED BY <2>1, <2>2, <2>5, <3>1, <3>2, <3>3 DEF BeginScan, Stop
    <2>6. CASE SkipScanner(w)
      <3>1. PICK t : \/ Becomes(w, IdleWorker)
                     \/ Becomes(w, [WithScanner(w, t, Nil) EXCEPT !.type = Nil])
        BY <2>6 DEF SkipScanner
      <3>2. PICK new : new = [WithScanner(w, t, Nil) EXCEPT !.type = Nil]
        OBVIOUS
      <3>3. new.pc = at.pc /\ IdleWorker.pc = "idle"
        BY <2>1, <3>2 DEF WithScanner, Worker, WorkerFields, IdleWorker
      <3> QED BY <2>1, <2>2, <3>1, <3>2, <3>3
    <2>7. CASE FindReusable(w)
      <3>1. PICK t, target :
               LET next == WithScanner(w, t, target)
               IN  \/ \E source : Becomes(w, ReuseOf(next, source))
                   \/ Becomes(w, [next EXCEPT !.pc = "fresh"])
        BY <2>7 DEF FindReusable
      <3>2. PICK next : next = WithScanner(w, t, target)
        OBVIOUS
      <3>3. PICK fresh, passed : /\ fresh = [next EXCEPT !.pc = "fresh"]
                                 /\ passed = [next EXCEPT !.type = Nil, !.target = Nil]
        OBVIOUS
      <3>4. fresh.pc = "fresh" /\ passed.pc = at.pc /\ IdleWorker.pc = "idle"
        BY <2>1, <3>2, <3>3 DEF WithScanner, Worker, WorkerFields, IdleWorker
      <3>5. ASSUME NEW pc, NEW source
            PROVE  [next EXCEPT !.pc = pc, !.source = source].pc = pc
        BY <2>1, <3>2 DEF WithScanner, Worker, WorkerFields
      <3>6. ASSUME NEW source
            PROVE  ReuseOf(next, source).pc \in {"copy", "convert", "orphan", "idle", "pick",
                                                 "prepare", "insert"}
        BY <2>1, <3>3, <3>4, <3>5 DEF ReuseOf
      <3> QED BY <2>2, <3>1, <3>2, <3>3, <3>4, <3>6
    <2> QED BY <1>9, <2>3, <2>4, <2>5, <2>6, <2>7
  <1>10. CASE GetOrCreateRow(w) \/ CreateFindings(w) \/ FailScan(w)
    <2>1. PICK at \in Worker : at = worker[w]
      BY <1>0, <1>10, BusyType DEF GetOrCreateRow, CreateFindings, FailScan
    <2>2. PICK pc \in {"findings", "fail", "complete", "flag"} :
             \/ Becomes(w, [at EXCEPT !.pc = pc])
             \/ \E r : Becomes(w, [at EXCEPT !.pc = pc, !.target = r])
      BY <1>10, <2>1 DEF GetOrCreateRow, CreateFindings, FailScan, Goto
    <2>3. [at EXCEPT !.pc = pc].pc = pc /\ \A r : [at EXCEPT !.pc = pc, !.target = r].pc = pc
      BY DEF Worker, WorkerFields
    <2> QED BY <1>2, <2>2, <2>3
  <1>11. CASE ConvertOrphan(w) \/ FlagArtifact(w) \/ DecideQuarantine(w) \/ MarkArtifact(w)
              \/ WorkerStops(w)
    <2>1. PICK at \in Worker : at = worker[w]
      BY <1>0, <1>11, BusyType
         DEF ConvertOrphan, FlagArtifact, DecideQuarantine, MarkArtifact, WorkerStops
    <2>2. PICK new : new = [at EXCEPT !.pc = "pick", !.type = Nil, !.target = Nil,
                                      !.source = Nil, !.verdict = {}]
      OBVIOUS
    <2>3. Becomes(w, new) \/ Becomes(w, IdleWorker)
      BY <1>11, <2>1, <2>2 DEF ConvertOrphan, FlagArtifact, DecideQuarantine, MarkArtifact,
                                WorkerStops, NextScanner, Stop
    <2>4. new.pc = "pick" /\ IdleWorker.pc = "idle"
      BY <2>2 DEF Worker, WorkerFields, IdleWorker
    <2> QED BY <1>2, <2>3, <2>4
  <1> QED BY <1>4, <1>5, <1>6, <1>7, <1>8, <1>9, <1>10, <1>11
          DEF Scan, PrepareStep, ReuseStep, FreshStep, VerdictStep

LEMMA VerdictsStep ==
    ASSUME VerdictInv, ScanInv', Evolves, Next
    PROVE  \A w \in Workers : VerdictOK(worker[w])'
  <1> SUFFICES ASSUME NEW w \in Workers PROVE VerdictOK(worker[w])'
    OBVIOUS
  <1>0. TypeOK /\ TypeOK' /\ ScanInv /\ WorkerOK(worker[w]) /\ VerdictOK(worker[w])
    BY DEF VerdictInv, ScanInv
  <1>1. PICK at \in Worker \cup {IdleWorker} : at = worker[w]
    BY <1>0 DEF TypeOK
  <1>2. ASSUME worker'[w] = worker[w], \A r \in Rows : Has(at, r) => Spared(r)
        PROVE  VerdictOK(worker[w])'
    <2>1. VerdictOK(at)'
      BY <1>0, <1>1, <1>2, VerdictKept
    <2> QED BY <1>1, <1>2, <2>1
  <1>3. ASSUME NEW v \in Workers, Scan(v), v # w PROVE VerdictOK(worker[w])'
    <2>1. worker'[w] = worker[w]
      BY <1>0, <1>3, ScanMoves DEF Becomes, TypeOK
    <2>2. ASSUME NEW r \in Rows, Has(at, r), rows[r].status = "failed", ~SettledLabel(r)
          PROVE  rows'[r] = rows[r]
      <3>1. ~Has(worker[v], r)
        BY <1>1, <1>3, <2>2 DEF VerdictInv, OneHolder, Stored
      <3> QED BY <1>0, <1>3, <2>2, <3>1, FailedRowKept
    <2> QED BY <1>2, <2>1, <2>2 DEF Spared
  <1>4. CASE Scan(w)
    BY <1>0, <1>4, VerdictMade
  <1>5. ASSUME NEW a \in Artifacts, Owner(a) PROVE VerdictOK(worker[w])'
    <2>1. UNCHANGED worker /\ \A r \in Rows : rows'[r] = rows[r] \/ rows'[r].status = "gone"
      BY <1>5 DEF Owner, UploadArtifact, HoldArtifact, HoldFails, AdminDecides,
                  DeleteArtifact, PurgeArtifact, UnusedRow
    <2> QED BY <1>2, <2>1 DEF Spared
  <1>6. CASE (\E r \in Rows : ResultsAge(r)) \/ ReapStuckScans
    <2>1. UNCHANGED worker /\ \A r \in Rows : rows[r].status = "failed" => rows'[r] = rows[r]
      BY <1>0, <1>6 DEF ResultsAge, ReapStuckScans, Stuck, IsRunning, TypeOK
    <2> QED BY <1>2, <2>1 DEF Spared
  <1> QED BY <1>3, <1>4, <1>5, <1>6 DEF Next

LEMMA VerdictInvInit == Init => VerdictInv
  <1> SUFFICES ASSUME Init PROVE VerdictInv
    OBVIOUS
  <1>1. OneHolder
    BY DEF Init, OneHolder, Stored, UnusedRow
  <1>2. \A w \in Workers : VerdictOK(worker[w])
    BY DEF Init, VerdictOK, IdleWorker
  <1> QED BY <1>1, <1>2, ScanInvInit DEF VerdictInv

LEMMA VerdictInvStep == ASSUME VerdictInv, [Next]_vars PROVE VerdictInv' /\ Evolves
  <1>1. ScanInv /\ OneHolder /\ Evolves /\ ScanInv'
    BY ScanInvStep DEF VerdictInv
  <1>2. CASE UNCHANGED vars
    <2>1. UNCHANGED worker /\ OneHolder'
      BY <1>1, <1>2, OneHolderStep DEF vars
    <2>2. \A w \in Workers : VerdictOK(worker[w])'
      BY <1>2 DEF vars, VerdictInv, VerdictOK, FailedUnsettled, Settled, Labelled, FindingsIn
    <2> QED BY <1>1, <2>1, <2>2 DEF VerdictInv
  <1>3. CASE Next
    <2>1. UNCHANGED worker \/ \E w \in Workers : Scan(w) /\ \E new : Becomes(w, new)
      BY <1>3, ScanMoves DEF Next, Owner, UploadArtifact, HoldArtifact, HoldFails,
            AdminDecides, DeleteArtifact, PurgeArtifact, ResultsAge, ReapStuckScans
    <2>2. OneHolder'
      BY <1>1, <2>1, OneHolderStep
    <2> QED BY <1>1, <1>3, <2>2, VerdictsStep DEF VerdictInv
  <1> QED BY <1>2, <1>3

(* A verdict about to be written is that of the content the scan read,     *)
(* whatever other scans, the janitor and the owner do to the rows it was   *)
(* taken from, except for conversions that changed nothing.                *)
THEOREM HonestVerdicts == Spec => []VerdictsMatchContent
  <1>1. VerdictInv => VerdictsMatchContent
    <2> SUFFICES ASSUME VerdictInv, NEW w \in Workers,
                        worker[w].pc \in {"verdict", "decide", "mark"},
                        worker[w].content \notin relabelled
                 PROVE  \/ worker[w].verdict = FindingsIn(worker[w].content, worker[w].type)
                        \/ /\ worker[w].target # Nil
                           /\ \/ rows[worker[w].target].status \in {"failed", "gone"}
                              \/ rows[worker[w].target].checksum # worker[w].content
      BY DEF VerdictsMatchContent
    <2> QED BY DEF VerdictInv, VerdictOK, FailedUnsettled
  <1> QED BY <1>1, VerdictInvInit, VerdictInvStep, PTL DEF Spec

-----------------------------------------------------------------------------
(* Scans that nothing disturbs: the janitor fails no row under them, and   *)
(* no upload replaces a content.                                           *)
Undisturbed == ~ReapStuckScans /\ \A a \in Artifacts : ~UploadArtifact(a)

Intact(r) == rows[r].status = "failed" => Settled(r)

(* What was read and prepared is still what the artifact holds.            *)
Current(at) ==
    (at.pc \in {"prepare", "insert"} /\ artifact[at.artifact].state # "purged") =>
        /\ (at.pc = "insert" \/ at.todo # {} \/ at.prepared # {}) =>
              at.content = artifact[at.artifact].content
        /\ \A p \in at.prepared : Stored(p[2]) /\ rows[p[2]].artifact = at.artifact

(* The row of the scanner at work is no longer among the prepared ones.    *)
TakenOnce(at) ==
    at.pc \notin {"prepare", "insert", "pick"} => \A p \in at.prepared : p[1] # at.type

(* No scan but its own fails the row of a worker.                          *)
PlaceholdersIntact(at) ==
    /\ \A p \in at.prepared : Intact(p[2])
    /\ at.pc = "convert" => Intact(at.target)

Sound(at) ==
    at.pc \in {"verdict", "decide", "mark"} => at.verdict = FindingsIn(at.content, at.type)

Careful(at) == Current(at) /\ TakenOnce(at) /\ PlaceholdersIntact(at) /\ Sound(at)

EarnedInv == VerdictInv /\ relabelled = {} /\ \A w \in Workers : Careful(worker[w])

(* What a step of a scan does to rows: it deletes none, and fails only the *)
(* one it works in or passes over.                                         *)
FailedBy(w, r) ==
    \/ (worker[w].pc = "fail" /\ r = worker[w].target)
    \/ \E t \in Types : /\ <<t, r>> \in worker[w].prepared
                        /\ \A p \in worker'[w].prepared : p[1] # t

RowStep(w, r) ==
    Stored(r) => /\ Stored(r)' /\ rows'[r].artifact = rows[r].artifact
                 /\ rows'[r].status = "failed" => rows[r].status = "failed" \/ FailedBy(w, r)

LEMMA RowsOfScan ==
    ASSUME ScanInv, NEW w \in Workers, Scan(w)
    PROVE  \A r \in Rows : RowStep(w, r)
  <1>0. TypeOK /\ Nil \notin Rows
    BY RowsAreNotNil DEF ScanInv
  <1>1. ASSUME NEW q \in Rows, NEW row,
               rows' = [rows EXCEPT ![q] = row] \/ rows' = Update(q, row),
               row.artifact = rows[q].artifact,
               Stored(q) => row.status \in {"running", "completed", "failed"},
               row.status = "failed" => rows[q].status = "failed" \/ FailedBy(w, q)
        PROVE  \A r \in Rows : RowStep(w, r)
    <2> SUFFICES ASSUME NEW r \in Rows PROVE RowStep(w, r)
      OBVIOUS
    <2>1. rows'[r] = rows[r] \/ (r = q /\ rows'[r] = row)
      <3>1. rows' = [rows EXCEPT ![q] = row] \/ rows' = rows
        BY <1>1 DEF Update
      <3> QED BY <1>0, <3>1 DEF TypeOK
    <2> QED BY <1>1, <2>1 DEF RowStep, Stored
  <1>2. ASSUME NEW a, NEW row, InsertRow(a, row) PROVE \A r \in Rows : RowStep(w, r)
    <2>1. PICK q : q = NextRow /\ rows[q].status = "unused" /\ q \in Rows
      BY <1>2, NextRowUnused
    <2>2. \A r \in Rows \ {q} : rows'[r] = rows[r]
      BY <1>0, <1>2, <2>1 DEF InsertRow, TypeOK
    <2> QED BY <2>1, <2>2 DEF RowStep, Stored
  <1>3. CASE UNCHANGED rows
    BY <1>3 DEF RowStep, Stored
  <1>4. CASE InsertPlaceholder(w) \/ CopyScanResults(w) \/ GetOrCreateRow(w)
    BY <1>2, <1>3, <1>4 DEF InsertPlaceholder, CopyScanResults, GetOrCreateRow
  <1>5. ASSUME NEW r \in Rows
        PROVE  Failed(r).artifact = rows[r].artifact /\ Failed(r).status = "failed"
    BY <1>0 DEF Failed, TypeOK, Row
  <1>6. CASE SkipScanner(w)
    <2>1. PICK t \in worker[w].todo : \E target \in PreparedFor(w, t) :
             LET skipped == [WithScanner(w, t, Nil) EXCEPT !.type = Nil]
             IN  /\ rows' = IF target = Nil THEN rows ELSE Update(target, Failed(target))
                 /\ Becomes(w, IF skipped.todo = {} THEN IdleWorker ELSE skipped)
      BY <1>6 DEF SkipScanner
    <2>2. PICK target \in PreparedFor(w, t) :
             LET skipped == [WithScanner(w, t, Nil) EXCEPT !.type = Nil]
             IN  /\ rows' = IF target = Nil THEN rows ELSE Update(target, Failed(target))
                 /\ Becomes(w, IF skipped.todo = {} THEN IdleWorker ELSE skipped)
      BY <2>1
    <2>3. PICK at \in Worker : at = worker[w]
      BY <1>0, <1>6, BusyType DEF SkipScanner
    <2>4. t \in Types
      BY <2>1, <2>3 DEF Worker, WorkerFields
    <2>5. PICK skipped : skipped = [WithScanner(w, t, Nil) EXCEPT !.type = Nil]
      OBVIOUS
    <2>6. skipped.prepared = {p \in at.prepared : p[1] # t}
      BY <2>3, <2>5 DEF WithScanner, Worker, WorkerFields
    <2>7. worker'[w] \in {IdleWorker, skipped}
      BY <1>0, <2>2, <2>5 DEF Becomes, TypeOK
    <2>8. \A p \in worker'[w].prepared : p[1] # t
      BY <2>6, <2>7 DEF IdleWorker
    <2>9. CASE target # Nil
      <3>1. target \in Rows /\ <<t, target>> \in worker[w].prepared
        BY <2>9 DEF PreparedFor
      <3>2. FailedBy(w, target)
        BY <2>4, <2>8, <3>1 DEF FailedBy
      <3> QED BY <1>1, <1>5, <2>2, <2>9, <3>1, <3>2
    <2> QED BY <1>3, <2>2, <2>9
  <1>7. CASE ConvertOrphan(w) \/ ConvertToReused(w)
    <2>1. PICK at \in Worker : at = worker[w] /\ at.pc \in {"orphan", "convert"}
      BY <1>0, <1>7, BusyType DEF ConvertOrphan, ConvertToReused
    <2>2. at.target \in Rows /\ at.source \in Rows
      BY <2>1, <1>0 DEF Worker, WorkerFields, HasItsRows
    <2>3. PICK row : row = ConvertedFrom(at.target, at.source)
      OBVIOUS
    <2>4. row.artifact = rows[at.target].artifact /\ row.status = "completed"
      BY <1>0, <2>2, <2>3 DEF ConvertedFrom, TypeOK, Row
    <2>5. UNCHANGED rows \/ rows' = [rows EXCEPT ![at.target] = row]
      BY <1>7, <2>1, <2>3 DEF ConvertOrphan, ConvertToReused
    <2> QED BY <1>1, <1>3, <2>2, <2>4, <2>5
  <1>8. CASE CreateFindings(w) \/ CompleteScan(w) \/ FailScan(w)
    <2>1. PICK at \in Worker : at = worker[w] /\ at.pc \in {"findings", "complete", "fail"}
      BY <1>0, <1>8, BusyType DEF CreateFindings, CompleteScan, FailScan
    <2>2. at.target \in Rows
      BY <2>1, <1>0 DEF Worker, WorkerFields, HasItsRows
    <2>3. PICK found : found = FindingsIn(at.content, at.type)
      OBVIOUS
    <2>4. PICK r \in Rows : r = at.target
      BY <2>2
    <2>5. CASE CreateFindings(w)
      <3>1. PICK row : row = [rows[r] EXCEPT !.findings = @ \cup found]
        OBVIOUS
      <3>2. row.artifact = rows[r].artifact /\ row.status = rows[r].status
        BY <1>0, <3>1 DEF TypeOK, Row
      <3>3. rows' = Update(r, row)
        BY <2>1, <2>3, <2>4, <2>5, <3>1 DEF CreateFindings
      <3> QED BY <1>1, <3>2, <3>3 DEF Stored
    <2>6. CASE CompleteScan(w)
      <3>1. PICK row : row = [rows[r] EXCEPT !.status = "completed", !.recent = TRUE,
                                             !.count = found]
        OBVIOUS
      <3>2. row.artifact = rows[r].artifact /\ row.status = "completed"
        BY <1>0, <3>1 DEF TypeOK, Row
      <3>3. rows' = Update(r, row)
        BY <2>1, <2>3, <2>4, <2>6, <3>1 DEF CompleteScan
      <3> QED BY <1>1, <3>2, <3>3
    <2>7. CASE FailScan(w)
      <3>1. rows' = Update(r, Failed(r)) /\ FailedBy(w, r)
        BY <2>1, <2>4, <2>7 DEF FailScan, FailedBy
      <3> QED BY <1>1, <1>5, <3>1
    <2> QED BY <1>8, <2>5, <2>6, <2>7
  <1>9. CASE \/ Trigger(w) \/ LookUpExisting(w) \/ ScanUnprepared(w) \/ BeginScan(w)
             \/ FindReusable(w) \/ FlagArtifact(w) \/ VerdictStep(w) \/ WorkerStops(w)
    BY <1>3, <1>9 DEF Trigger, LookUpExisting, ScanUnprepared, BeginScan, FindReusable,
          FlagArtifact, VerdictStep, ReadQuarantine, DecideQuarantine, MarkArtifact, WorkerStops
  <1> QED BY <1>4, <1>6, <1>7, <1>8, <1>9 DEF Scan, PrepareStep, ReuseStep, FreshStep

(* A scan changes neither content nor existence of an artifact.            *)
LEMMA ArtifactsOfScan ==
    ASSUME TypeOK, NEW w \in Workers, Scan(w)
    PROVE  \A a \in Artifacts : /\ artifact'[a].state = artifact[a].state
                               /\ artifact'[a].content = artifact[a].content
  <1>1. ASSUME NEW b, NEW status, SetQuarantine(b, status)
        PROVE  \A a \in Artifacts : /\ artifact'[a].state = artifact[a].state
                                   /\ artifact'[a].content = artifact[a].content
    <2> SUFFICES ASSUME NEW a \in Artifacts
                 PROVE  /\ artifact'[a].state = artifact[a].state
                        /\ artifact'[a].content = artifact[a].content
      OBVIOUS
    <2>1. artifact[a] \in Artifact \/ artifact[a] = PurgedArtifact
      BY DEF TypeOK
    <2> QED BY <1>1, <2>1 DEF SetQuarantine, TypeOK, Artifact, PurgedArtifact
  <1>2. UNCHANGED artifact \/ \E b, status : SetQuarantine(b, status)
    BY DEF Scan, PrepareStep, ReuseStep, FreshStep, VerdictStep, Trigger, LookUpExisting,
           InsertPlaceholder, ScanUnprepared, BeginScan, SkipScanner, FindReusable,
           ConvertOrphan, ConvertToReused, CopyScanResults, GetOrCreateRow, CreateFindings,
           CompleteScan, FailScan, FlagArtifact, ReadQuarantine, DecideQuarantine, MarkArtifact,
           Transition, WorkerStops
  <1> QED BY <1>1, <1>2

(* What a worker has stays intact while others, and its own scan, step.    *)
LEMMA IntactForOthers ==
    ASSUME EarnedInv, Evolves, relabelled' = {}, NEW w \in Workers, Scan(w),
           NEW v \in Workers \ {w}, NEW r \in Rows, Has(worker[v], r), Intact(r)
    PROVE  Intact(r)'
  <1> SUFFICES ASSUME rows'[r].status = "failed" PROVE Settled(r)'
    BY DEF Intact
  <1>0. ScanInv /\ OneHolder /\ relabelled = {} /\ WorkerOK(worker[v]) /\ RowEvolves(r)
    BY DEF EarnedInv, VerdictInv, ScanInv, Evolves
  <1>1. Stored(r)
    <2>1. rows[r].status # "unused"
      BY <1>0, HeldIsUsed
    <2> QED BY <1>0, <2>1 DEF RowEvolves, Stored
  <1>2. rows[r].status = "failed" \/ FailedBy(w, r)
    BY <1>0, <1>1, RowsOfScan DEF RowStep
  <1>3. FailedBy(w, r) => Has(worker[w], r)
    BY DEF FailedBy, Has
  <1>4. Settled(r)
    BY <1>0, <1>1, <1>2, <1>3 DEF Intact, OneHolder, SettledLabel
  <1> QED BY <1>0, <1>1, <1>4 DEF RowEvolves, Stored

LEMMA IntactForItself ==
    ASSUME EarnedInv, Evolves, relabelled' = {}, NEW w \in Workers, Scan(w),
           NEW p \in worker[w].prepared, p \in worker'[w].prepared
    PROVE  Intact(p[2])'
  <1>0. ScanInv /\ WorkerOK(worker[w]) /\ Careful(worker[w]) /\ TypeOK /\ relabelled = {}
    BY DEF EarnedInv, VerdictInv, ScanInv
  <1>1. PICK r \in Rows : r = p[2]
    BY <1>0 DEF TypeOK, Worker, WorkerFields, IdleWorker
  <1>2. RowEvolves(r) /\ Belongs(r, p[1], worker[w].content) /\ Intact(r)
    BY <1>0, <1>1 DEF Evolves, WorkerOK, PreparedOK, Careful, PlaceholdersIntact
  <1> SUFFICES ASSUME rows'[r].status = "failed" PROVE Settled(r)'
    BY <1>1 DEF Intact
  <1>3. Stored(r)
    BY <1>2 DEF Belongs, RowEvolves, Stored
  <1>4. ~FailedBy(w, r)
    <2>1. CASE worker[w].pc = "fail" /\ r = worker[w].target
      <3>1. Belongs(r, worker[w].type, worker[w].content)
        BY <1>0, <2>1, RowsAreNotNil DEF WorkerOK, TargetOK
      <3> QED BY <1>0, <1>2, <1>3, <2>1, <3>1 DEF Belongs, Careful, TakenOnce
    <2>2. ASSUME NEW t, <<t, r>> \in worker[w].prepared, \A q \in worker'[w].prepared : q[1] # t
          PROVE  FALSE
      <3>1. Belongs(r, t, worker[w].content)
        BY <1>0, <2>2 DEF WorkerOK, PreparedOK
      <3> QED BY <1>2, <1>3, <2>2, <3>1 DEF Belongs
    <2> QED BY <2>1, <2>2 DEF FailedBy
  <1>5. Settled(r)
    BY <1>0, <1>2, <1>3, <1>4, RowsOfScan DEF RowStep, Intact
  <1> QED BY <1>0, <1>2, <1>3, <1>5 DEF RowEvolves, Stored

(* A worker that goes on with the rows it has.                             *)
LEMMA CarefulOn ==
    ASSUME EarnedInv, Evolves, TypeOK', relabelled' = {}, NEW w \in Workers, Scan(w),
           NEW new, Becomes(w, new), new.prepared \subseteq worker[w].prepared,
           new.pc \notin {"prepare", "insert", "convert"},
           \/ new.pc = "pick"
           \/ new.prepared = {}
           \/ new.type = worker[w].type /\ worker[w].pc \notin {"prepare", "insert", "pick"},
           Sound(new)
    PROVE  Careful(worker[w])'
  <1>0. worker'[w] = new /\ Careful(worker[w])
    BY DEF Becomes, TypeOK, EarnedInv, VerdictInv, ScanInv
  <1>1. \A p \in new.prepared : Intact(p[2])'
    BY <1>0, IntactForItself
  <1>2. Current(worker[w])' /\ PlaceholdersIntact(worker[w])'
    BY <1>0, <1>1 DEF Current, PlaceholdersIntact
  <1>3. TakenOnce(worker[w])'
    BY <1>0 DEF Careful, TakenOnce
  <1>4. Sound(worker[w])'
    BY <1>0 DEF Sound, FindingsIn
  <1> QED BY <1>2, <1>3, <1>4 DEF Careful

LEMMA CarefulPreparing ==
    ASSUME EarnedInv, Evolves, ScanInv', relabelled' = {}, NEW w \in Workers,
           Trigger(w) \/ ScanUnprepared(w) \/ LookUpExisting(w) \/ InsertPlaceholder(w)
    PROVE  Careful(worker[w])'
  <1>0. TypeOK /\ TypeOK' /\ ScanInv /\ Scan(w) /\ Careful(worker[w])
    BY DEF EarnedInv, VerdictInv, ScanInv, Scan, PrepareStep
  <1>1. \A new : Becomes(w, new) => worker'[w] = new
    BY <1>0 DEF Becomes, TypeOK
  <1>2. CASE Trigger(w) \/ ScanUnprepared(w)
    <2>1. PICK a \in Artifacts :
             \/ Becomes(w, [IdleWorker EXCEPT !.pc = "prepare", !.artifact = a])
             \/ Becomes(w, [IdleWorker EXCEPT !.pc = "prepare", !.artifact = a,
                               !.content = artifact[a].content, !.todo = Types])
      BY <1>2 DEF Trigger, ScanUnprepared
    <2>2. PICK one, two : /\ one = [IdleWorker EXCEPT !.pc = "prepare", !.artifact = a]
                          /\ two = [IdleWorker EXCEPT !.pc = "prepare", !.artifact = a,
                                       !.content = artifact[a].content, !.todo = Types]
      OBVIOUS
    <2>3. /\ one.pc = "prepare" /\ one.prepared = {} /\ one.todo = {}
          /\ two.pc = "prepare" /\ two.prepared = {} /\ two.artifact = a
          /\ two.content = artifact[a].content
      BY <2>2 DEF IdleWorker
    <2>4. worker'[w] \in {one, two} /\ UNCHANGED artifact
      BY <1>1, <1>2, <2>1, <2>2 DEF Trigger, ScanUnprepared
    <2> QED BY <2>3, <2>4 DEF Careful, Current, TakenOnce, PlaceholdersIntact, Sound
  <1>3. ASSUME NEW at \in Worker, at = worker[w], at.pc \in {"prepare", "insert"},
               NEW new, Becomes(w, new), new.pc \in {"prepare", "insert"},
               new.artifact = at.artifact, new.content = at.content, UNCHANGED artifact,
               artifact[at.artifact].state # "purged" =>
                  at.content = artifact[at.artifact].content,
               \A p \in new.prepared : \/ p \in at.prepared
                                       \/ /\ p[2] \in Rows
                                          /\ Stored(p[2])' /\ rows'[p[2]].status # "failed"
                                          /\ rows'[p[2]].artifact = at.artifact
        PROVE  Careful(worker[w])'
    <2>1. worker'[w] = new
      BY <1>1, <1>3
    <2>2. \A p \in new.prepared : Intact(p[2])'
      <3> SUFFICES ASSUME NEW p \in new.prepared PROVE Intact(p[2])'
        OBVIOUS
      <3>1. CASE p \in at.prepared
        BY <1>0, <1>3, <2>1, <3>1, IntactForItself
      <3>2. CASE p \notin at.prepared
        BY <1>3, <3>2 DEF Intact
      <3> QED BY <3>1, <3>2
    <2>3. ASSUME NEW p \in new.prepared, artifact[at.artifact].state # "purged"
          PROVE  Stored(p[2])' /\ rows'[p[2]].artifact = at.artifact
      <3>1. CASE p \in at.prepared
        <4>1. p[2] \in Rows
          BY <3>1 DEF Worker, WorkerFields
        <4>2. Stored(p[2]) /\ rows[p[2]].artifact = at.artifact
          BY <1>0, <1>3, <2>3, <3>1 DEF Careful, Current
        <4> QED BY <1>0, <4>1, <4>2, RowsOfScan DEF RowStep
      <3> QED BY <1>3, <2>3, <3>1
    <2>4. Current(new)'
      BY <1>3, <2>3 DEF Current
    <2> QED BY <1>3, <2>1, <2>2, <2>4 DEF Careful, TakenOnce, PlaceholdersIntact, Sound
  <1>4. CASE LookUpExisting(w)
    <2>1. PICK at \in Worker : at = worker[w] /\ at.pc = "prepare"
      BY <1>0, <1>4, BusyType DEF LookUpExisting
    <2>2. PICK t \in at.todo :
             \/ \E r \in Existing(at.artifact, at.content, t) :
                   Becomes(w, [at EXCEPT !.prepared = @ \cup {<<t, r>>}, !.todo = @ \ {t}])
             \/ Becomes(w, [at EXCEPT !.pc = "insert", !.type = t])
      BY <1>4, <2>1 DEF LookUpExisting
    <2>3. /\ UNCHANGED <<artifact, rows>>
          /\ artifact[at.artifact].state # "purged" => at.content = artifact[at.artifact].content
      BY <1>0, <1>4, <2>1, <2>2 DEF LookUpExisting, Careful, Current
    <2>4. CASE Becomes(w, [at EXCEPT !.pc = "insert", !.type = t])
      <3>1. PICK new : new = [at EXCEPT !.pc = "insert", !.type = t]
        OBVIOUS
      <3>2. /\ new.pc = "insert" /\ new.artifact = at.artifact /\ new.content = at.content
            /\ new.prepared = at.prepared
        BY <3>1 DEF Worker, WorkerFields
      <3> QED BY <1>3, <2>1, <2>3, <2>4, <3>1, <3>2
    <2>5. ASSUME NEW r \in Existing(at.artifact, at.content, t),
                 Becomes(w, [at EXCEPT !.prepared = @ \cup {<<t, r>>}, !.todo = @ \ {t}])
          PROVE  Careful(worker[w])'
      <3>1. PICK new : new = [at EXCEPT !.prepared = @ \cup {<<t, r>>}, !.todo = @ \ {t}]
        OBVIOUS
      <3>2. /\ new.pc = "prepare" /\ new.artifact = at.artifact /\ new.content = at.content
            /\ new.prepared = at.prepared \cup {<<t, r>>}
        BY <2>1, <3>1 DEF Worker, WorkerFields
      <3>3. /\ r \in Rows /\ rows'[r].status = "completed" /\ rows'[r].artifact = at.artifact
            /\ Stored(r)'
        BY <2>3, <2>5 DEF Existing, Reusable, Stored
      <3>4. Becomes(w, new)
        BY <2>5, <3>1
      <3> HIDE DEF Existing
      <3> QED BY <1>3, <2>1, <2>3, <3>2, <3>3, <3>4
    <2> QED BY <2>2, <2>4, <2>5
  <1>5. CASE InsertPlaceholder(w)
    <2>1. PICK at \in Worker : at = worker[w] /\ at.pc = "insert"
      BY <1>0, <1>5, BusyType DEF InsertPlaceholder
    <2>2. PICK r : r = NextRow
      OBVIOUS
    <2>3. PICK new : new = [at EXCEPT !.pc = "prepare", !.type = Nil,
                               !.prepared = @ \cup {<<at.type, r>>}, !.todo = @ \ {at.type}]
      OBVIOUS
    <2>4. /\ new.pc = "prepare" /\ new.artifact = at.artifact /\ new.content = at.content
          /\ new.prepared = at.prepared \cup {<<at.type, r>>}
      BY <2>3 DEF Worker, WorkerFields
    <2>5. PICK row : row = RunningRow(at.artifact, at.type, at.content)
      OBVIOUS
    <2>6. row.status = "running" /\ row.artifact = at.artifact
      BY <2>5 DEF RunningRow, UnusedRow
    <2>7. InsertRow(at.artifact, row) /\ Becomes(w, new) /\ UNCHANGED artifact
      BY <1>5, <2>1, <2>2, <2>3, <2>5 DEF InsertPlaceholder
    <2>8. r \in Rows /\ rows'[r] = row
      <3>1. r \in Rows
        BY <2>2, <2>7, NextRowUnused
      <3> QED BY <1>0, <2>2, <2>7, <3>1 DEF InsertRow, TypeOK
    <2>9. artifact[at.artifact].state # "purged" => at.content = artifact[at.artifact].content
      BY <1>0, <2>1 DEF Careful, Current
    <2>10. Stored(r)' /\ rows'[r].status # "failed" /\ rows'[r].artifact = at.artifact
      BY <2>6, <2>8 DEF Stored
    <2> QED BY <1>3, <2>1, <2>4, <2>7, <2>8, <2>9, <2>10
  <1> QED BY <1>2, <1>4, <1>5

(* A scan that begins finds what its trigger prepared labelled with what   *)
(* it reads.                                                               *)
LEMMA BegunAsPrepared ==
    ASSUME EarnedInv, NEW w \in Workers, Scan(w)
    PROVE  relabelled' = {}
  <1>0. TypeOK /\ ScanInv /\ WorkerOK(worker[w]) /\ Careful(worker[w]) /\ relabelled = {}
    BY DEF EarnedInv, VerdictInv, ScanInv
  <1>1. CASE BeginScan(w)
    <2>1. PICK at \in Worker : at = worker[w] /\ at.pc = "prepare"
      BY <1>0, <1>1, BusyType DEF BeginScan
    <2>2. CASE artifact[at.artifact].state # "live"
      BY <1>0, <1>1, <2>1, <2>2 DEF BeginScan
    <2>3. CASE artifact[at.artifact].state = "live"
      <3>1. ASSUME NEW p \in at.prepared
            PROVE  rows[p[2]].checksum = artifact[at.artifact].content
        <4>1. Stored(p[2]) /\ at.content = artifact[at.artifact].content
          BY <1>0, <2>1, <2>3, <3>1 DEF Careful, Current
        <4>2. Belongs(p[2], p[1], at.content)
          BY <1>0, <2>1 DEF WorkerOK, PreparedOK
        <4> QED BY <1>0, <4>1, <4>2 DEF Belongs
      <3>2. relabelled' = relabelled \cup ({rows[p[2]].checksum : p \in at.prepared}
                                             \ {artifact[at.artifact].content})
        BY <1>1, <2>1, <2>3 DEF BeginScan
      <3> QED BY <1>0, <3>1, <3>2
    <2> QED BY <2>2, <2>3
  <1>2. CASE ~BeginScan(w)
    BY <1>0, <1>2
    DEF Scan, PrepareStep, ReuseStep, FreshStep, VerdictStep, Trigger, LookUpExisting,
        InsertPlaceholder, ScanUnprepared, SkipScanner, FindReusable,
        ConvertOrphan, ConvertToReused, CopyScanResults, GetOrCreateRow, CreateFindings,
        CompleteScan, FailScan, FlagArtifact, ReadQuarantine, DecideQuarantine, MarkArtifact,
        WorkerStops
  <1> QED BY <1>1, <1>2

LEMMA CarefulPick ==
    ASSUME EarnedInv, Evolves, TypeOK', relabelled' = {}, NEW w \in Workers,
           BeginScan(w) \/ SkipScanner(w) \/ FindReusable(w)
    PROVE  Careful(worker[w])'
  <1>0. TypeOK /\ Scan(w) /\ Careful(worker[w])
    BY DEF EarnedInv, VerdictInv, ScanInv, Scan, PrepareStep, ReuseStep
  <1>1. PICK at \in Worker : at = worker[w]
    BY <1>0, BusyType DEF BeginScan, SkipScanner, FindReusable
  <1>2. ASSUME Becomes(w, IdleWorker) PROVE Careful(worker[w])'
    <2>1. IdleWorker.pc = "idle" /\ IdleWorker.prepared = {}
      BY DEF IdleWorker
    <2>2. Sound(IdleWorker)
      BY <2>1 DEF Sound
    <2> QED BY <1>0, <1>2, <2>1, <2>2, CarefulOn
  <1>3. ASSUME NEW new, Becomes(w, new), new.prepared \subseteq at.prepared, new.pc = "pick"
        PROVE  Careful(worker[w])'
    <2>1. Sound(new)
      BY <1>3 DEF Sound
    <2> QED BY <1>0, <1>1, <1>3, <2>1, CarefulOn
  <1>4. CASE BeginScan(w)
    <2>1. PICK content : content = artifact[at.artifact].content
      OBVIOUS
    <2>2. PICK new : new = [at EXCEPT !.pc = "pick", !.todo = Types, !.content = content]
      OBVIOUS
    <2>3. new.pc = "pick" /\ new.prepared = at.prepared
      BY <2>2 DEF Worker, WorkerFields
    <2>4. Becomes(w, new) \/ Becomes(w, IdleWorker)
      BY <1>1, <1>4, <2>1, <2>2 DEF BeginScan, Stop
    <2> QED BY <1>2, <1>3, <2>3, <2>4
  <1>5. CASE SkipScanner(w)
    <2>1. PICK t : \/ Becomes(w, IdleWorker)
                   \/ Becomes(w, [WithScanner(w, t, Nil) EXCEPT !.type = Nil])
      BY <1>5 DEF SkipScanner
    <2>2. PICK new : new = [WithScanner(w, t, Nil) EXCEPT !.type = Nil]
      OBVIOUS
    <2>3. new.pc = "pick" /\ new.prepared \subseteq at.prepared
      BY <1>1, <1>5, <2>2 DEF SkipScanner, WithScanner, Worker, WorkerFields
    <2> QED BY <1>2, <1>3, <2>1, <2>2, <2>3
  <1>6. CASE FindReusable(w)
    <2>1. PICK t \in at.todo : \E target \in PreparedFor(w, t) :
             LET next == WithScanner(w, t, target)
             IN  \/ \E source : Becomes(w, ReuseOf(next, source))
                 \/ Becomes(w, [next EXCEPT !.pc = "fresh"])
      BY <1>1, <1>6 DEF FindReusable
    <2>2. PICK target \in PreparedFor(w, t) :
             LET next == WithScanner(w, t, target)
             IN  \/ \E source : Becomes(w, ReuseOf(next, source))
                 \/ Becomes(w, [next EXCEPT !.pc = "fresh"])
      BY <2>1
    <2>3. PICK next : next = WithScanner(w, t, target)
      OBVIOUS
    <2>4. /\ next.pc = "pick" /\ next.type = t /\ next.target = target
          /\ next.prepared = {p \in at.prepared : p[1] # t}
          /\ next = [next EXCEPT !.target = target]
      BY <1>1, <1>6, <2>3 DEF FindReusable, WithScanner, Worker, WorkerFields
    <2>5. target = Nil \/ <<t, target>> \in at.prepared
      BY <1>1 DEF PreparedFor
    <2>6. ASSUME NEW new, Becomes(w, new), new.pc \in {"orphan", "convert", "copy", "fresh"},
                 new.prepared = next.prepared, new.type = t, new.target = target,
                 new.pc = "convert" => target # Nil
          PROVE  Careful(worker[w])'
      <3>1. worker'[w] = new
        BY <1>0, <2>6 DEF Becomes, TypeOK
      <3>2. \A p \in new.prepared : Intact(p[2])'
        BY <1>0, <1>1, <2>4, <2>6, <3>1, IntactForItself
      <3>3. new.pc = "convert" => Intact(target)'
        <4>1. UNCHANGED rows
          BY <1>6 DEF FindReusable
        <4>2. target # Nil => Intact(target)
          BY <1>0, <1>1, <2>5 DEF Careful, PlaceholdersIntact
        <4> QED BY <2>6, <4>1, <4>2 DEF Intact, Settled, Labelled
      <3> QED BY <2>4, <2>6, <3>1, <3>2, <3>3
              DEF Careful, Current, TakenOnce, PlaceholdersIntact, Sound
    <2>7. CASE Becomes(w, [next EXCEPT !.pc = "fresh"])
      <3>1. PICK new : new = [next EXCEPT !.pc = "fresh"]
        OBVIOUS
      <3>2. /\ new.pc = "fresh" /\ new.prepared = next.prepared /\ new.type = t
            /\ new.target = target
        BY <1>1, <2>3, <2>4, <3>1 DEF WithScanner, Worker, WorkerFields
      <3> QED BY <2>6, <2>7, <3>1, <3>2
    <2>8. ASSUME NEW source, Becomes(w, ReuseOf(next, source)) PROVE Careful(worker[w])'
      <3>1. PICK passed, copy, convert, orphan :
               /\ passed = [next EXCEPT !.type = Nil, !.target = Nil]
               /\ copy = [next EXCEPT !.pc = "copy", !.source = source]
               /\ convert = [next EXCEPT !.pc = "convert", !.source = source]
               /\ orphan = [next EXCEPT !.pc = "orphan", !.source = source]
        OBVIOUS
      <3>2. /\ passed.pc = "pick" /\ passed.prepared = next.prepared
            /\ copy.pc = "copy" /\ copy.prepared = next.prepared /\ copy.type = t
            /\ copy.target = target
            /\ convert.pc = "convert" /\ convert.prepared = next.prepared /\ convert.type = t
            /\ convert.target = target
            /\ orphan.pc = "orphan" /\ orphan.prepared = next.prepared /\ orphan.type = t
            /\ orphan.target = target
        BY <1>1, <2>3, <2>4, <3>1 DEF WithScanner, Worker, WorkerFields
      <3>3. \/ ReuseOf(next, source) \in {IdleWorker, passed, orphan, copy}
            \/ ReuseOf(next, source) = convert /\ target # Nil
        BY <2>4, <3>1 DEF ReuseOf
      <3> QED BY <1>2, <1>3, <2>4, <2>6, <2>8, <3>2, <3>3
    <2> QED BY <2>2, <2>3, <2>7, <2>8
  <1> QED BY <1>4, <1>5, <1>6

LEMMA CarefulScan ==
    ASSUME EarnedInv, ScanInv', Evolves, relabelled' = {}, NEW w \in Workers,
           \/ ConvertOrphan(w) \/ ConvertToReused(w) \/ CopyScanResults(w)
           \/ FreshStep(w) \/ VerdictStep(w) \/ WorkerStops(w)
    PROVE  Careful(worker[w])'
  <1>0. /\ TypeOK /\ TypeOK' /\ ScanInv /\ ScanInv' /\ Scan(w) /\ relabelled = {}
        /\ Careful(worker[w]) /\ WorkerOK(worker[w])
    BY DEF EarnedInv, VerdictInv, ScanInv, Scan, ReuseStep
  <1>1. PICK at \in Worker : at = worker[w]
    BY <1>0, BusyType
       DEF ConvertOrphan, ConvertToReused, CopyScanResults, FreshStep, GetOrCreateRow,
           CreateFindings, CompleteScan, FailScan, FlagArtifact, VerdictStep, ReadQuarantine,
           DecideQuarantine, MarkArtifact, WorkerStops
  <1>2. ASSUME NEW new, Becomes(w, new), new.pc \in {"pick", "idle"},
               new.prepared \subseteq at.prepared, new.pc = "idle" => new.prepared = {}
        PROVE  Careful(worker[w])'
    <2>1. Sound(new)
      BY <1>2 DEF Sound
    <2> QED BY <1>0, <1>1, <1>2, <2>1, CarefulOn
  <1>3. ASSUME NEW new, Becomes(w, new), at.pc \notin {"prepare", "insert", "pick"},
               new.pc \notin {"prepare", "insert", "convert"},
               new.prepared = at.prepared, new.type = at.type, new.content = at.content,
               new.pc \in {"verdict", "decide", "mark"} =>
                  new.verdict = FindingsIn(at.content, at.type)
        PROVE  Careful(worker[w])'
    <2>1. Sound(new)
      BY <1>3 DEF Sound
    <2> QED BY <1>0, <1>1, <1>3, <2>1, CarefulOn
  <1>4. ASSUME NEW pc \in {"fresh", "complete", "flag"}, Becomes(w, [at EXCEPT !.pc = pc]),
               at.pc \notin {"prepare", "insert", "pick"}
        PROVE  Careful(worker[w])'
    <2>1. PICK new : new = [at EXCEPT !.pc = pc]
      OBVIOUS
    <2>2. /\ new.pc = pc /\ new.prepared = at.prepared /\ new.type = at.type
          /\ new.content = at.content
      BY <2>1 DEF Worker, WorkerFields
    <2> QED BY <1>3, <1>4, <2>1, <2>2
  <1>5. ASSUME NEW found, Becomes(w, [at EXCEPT !.pc = "verdict", !.verdict = found]),
               at.pc \notin {"prepare", "insert", "pick"},
               found = FindingsIn(at.content, at.type)
        PROVE  Careful(worker[w])'
    <2>1. PICK new : new = [at EXCEPT !.pc = "verdict", !.verdict = found]
      OBVIOUS
    <2>2. /\ new.pc = "verdict" /\ new.prepared = at.prepared /\ new.type = at.type
          /\ new.content = at.content /\ new.verdict = found
      BY <2>1 DEF Worker, WorkerFields
    <2> QED BY <1>3, <1>5, <2>1, <2>2
  <1>6. CASE NextScanner(w) \/ WorkerStops(w)
    <2>1. PICK new : new = [at EXCEPT !.pc = "pick", !.type = Nil, !.target = Nil,
                                      !.source = Nil, !.verdict = {}]
      OBVIOUS
    <2>2. Becomes(w, new) \/ Becomes(w, IdleWorker)
      BY <1>1, <1>6, <2>1 DEF NextScanner, WorkerStops, Stop
    <2>3. /\ new.pc = "pick" /\ new.prepared = at.prepared
          /\ IdleWorker.pc = "idle" /\ IdleWorker.prepared = {}
      BY <2>1 DEF Worker, WorkerFields, IdleWorker
    <2> QED BY <1>2, <2>2, <2>3
  <1>7. CASE ConvertToReused(w)
    <2>1. at.pc = "convert" /\ at.target \in Rows /\ at.source \in Rows
      BY <1>0, <1>1, <1>7, RowsAreNotNil DEF ConvertToReused, Worker, WorkerFields, HasItsRows
    <2>2. CASE ~Stored(at.source) \/ ~Stored(at.target)
      BY <1>1, <1>4, <1>7, <2>1, <2>2 DEF ConvertToReused, Goto
    <2>3. CASE Stored(at.source) /\ Stored(at.target)
      <3>1. PICK found : found = rows'[at.target].count
        OBVIOUS
      <3>2. Becomes(w, [at EXCEPT !.pc = "verdict", !.verdict = found])
        BY <1>1, <1>7, <2>3, <3>1 DEF ConvertToReused
      <3>3. /\ rows[at.target].type = at.type /\ rows[at.target].checksum = at.content
        BY <1>0, <1>1, <2>1, <2>3, RowsAreNotNil DEF WorkerOK, TargetOK, Belongs
      <3>4. CASE IsRunning(at.target)
        <4>1. rows'[at.target] = ConvertedFrom(at.target, at.source)
          BY <1>0, <1>1, <1>7, <2>1, <2>3, <3>4 DEF ConvertToReused, TypeOK
        <4>2. rows'[at.target].count = rows[at.source].count
          BY <1>0, <2>1, <4>1 DEF ConvertedFrom, TypeOK, Row
        <4>3. rows[at.source].count = FindingsIn(at.content, at.type)
          BY <1>0, <1>1, <2>1, <2>3 DEF WorkerOK, SourceOK, Settled, Labelled
        <4> QED BY <1>5, <2>1, <3>1, <3>2, <4>2, <4>3
      <3>5. CASE ~IsRunning(at.target)
        <4>1. UNCHANGED rows
          BY <1>1, <1>7, <2>3, <3>5 DEF ConvertToReused
        <4>2. rows[at.target].count = Labelled(at.target)
          <5>1. rows[at.target].status \in {"completed", "failed"}
            BY <2>3, <3>5 DEF Stored, IsRunning
          <5>2. rows[at.target].status = "completed" => rows[at.target].count = Labelled(at.target)
            BY <1>0, <2>1, <2>3 DEF ScanInv, RowHonest
          <5>3. rows[at.target].status = "failed" => rows[at.target].count = Labelled(at.target)
            BY <1>0, <1>1, <2>1 DEF Careful, PlaceholdersIntact, Intact, Settled
          <5> QED BY <5>1, <5>2, <5>3
        <4> QED BY <1>5, <2>1, <3>1, <3>2, <3>3, <4>1, <4>2 DEF Labelled
      <3> QED BY <3>4, <3>5
    <2> QED BY <2>2, <2>3
  <1>8. CASE CopyScanResults(w)
    <2>1. at.pc = "copy" /\ at.source \in Rows
      BY <1>0, <1>1, <1>8, RowsAreNotNil DEF CopyScanResults, Worker, WorkerFields, HasItsRows
    <2>2. PICK found : found = rows[at.source].count
      OBVIOUS
    <2>3. CASE Stored(at.source) /\ Becomes(w, [at EXCEPT !.pc = "verdict", !.verdict = found])
      <3>1. found = FindingsIn(at.content, at.type)
        BY <1>0, <1>1, <2>1, <2>2, <2>3 DEF WorkerOK, SourceOK, Settled, Labelled
      <3> QED BY <1>5, <2>1, <2>3, <3>1
    <2>4. CASE Becomes(w, [at EXCEPT !.pc = "fresh"])
      BY <1>4, <2>1, <2>4
    <2> QED BY <1>1, <1>8, <2>2, <2>3, <2>4 DEF CopyScanResults, Goto
  <1>9. CASE GetOrCreateRow(w)
    <2> DEFINE r == NextRow
    <2>1. PICK outcome \in {"findings", "fail"} :
             \/ Becomes(w, [at EXCEPT !.pc = outcome])
             \/ Becomes(w, [at EXCEPT !.pc = outcome, !.target = r])
      BY <1>1, <1>9 DEF GetOrCreateRow, Goto
    <2> HIDE DEF r
    <2>2. PICK same, new : /\ same = [at EXCEPT !.pc = outcome]
                           /\ new = [at EXCEPT !.pc = outcome, !.target = r]
      OBVIOUS
    <2>3. /\ same.pc = outcome /\ same.prepared = at.prepared /\ same.type = at.type
          /\ same.content = at.content
          /\ new.pc = outcome /\ new.prepared = at.prepared /\ new.type = at.type
          /\ new.content = at.content
      BY <2>2 DEF Worker, WorkerFields
    <2>4. at.pc = "fresh"
      BY <1>1, <1>9 DEF GetOrCreateRow
    <2> QED BY <1>3, <2>1, <2>2, <2>3, <2>4
  <1>10. CASE CreateFindings(w) \/ FailScan(w)
    BY <1>1, <1>4, <1>10 DEF CreateFindings, FailScan, Goto
  <1>11. CASE CompleteScan(w)
    <2>1. PICK found : found = FindingsIn(at.content, at.type)
      OBVIOUS
    <2> QED BY <1>1, <1>5, <1>11, <2>1 DEF CompleteScan
  <1>12. CASE ReadQuarantine(w)
    <2>1. at.pc = "verdict" /\ at.verdict = FindingsIn(at.content, at.type)
      BY <1>0, <1>1, <1>12 DEF ReadQuarantine, Careful, Sound
    <2>2. PICK pc \in {"decide", "mark"} : Becomes(w, [at EXCEPT !.pc = pc])
      BY <1>1, <1>12 DEF ReadQuarantine, Goto
    <2>3. PICK new : new = [at EXCEPT !.pc = pc]
      OBVIOUS
    <2>4. /\ new.pc = pc /\ new.prepared = at.prepared /\ new.type = at.type
          /\ new.content = at.content /\ new.verdict = at.verdict
      BY <2>3 DEF Worker, WorkerFields
    <2> QED BY <1>3, <2>1, <2>2, <2>3, <2>4
  <1> QED
    BY <1>6, <1>7, <1>8, <1>9, <1>10, <1>11, <1>12
    DEF ConvertOrphan, FreshStep, FlagArtifact, VerdictStep, DecideQuarantine, MarkArtifact

(* A worker that does not step, when artifacts are at most purged and rows *)
(* go only with them.                                                      *)
LEMMA CarefulBystander ==
    ASSUME TypeOK, NEW w \in Workers, Careful(worker[w]), worker'[w] = worker[w],
           \A a \in Artifacts : artifact'[a].state # "purged" =>
              artifact[a].state # "purged" /\ artifact'[a].content = artifact[a].content,
           \A r \in Rows :
              (Stored(r) /\ (rows[r].artifact \in Artifacts =>
                                artifact'[rows[r].artifact].state # "purged")) =>
              Stored(r)' /\ rows'[r].artifact = rows[r].artifact,
           \A r \in Rows : Has(worker[w], r) /\ Intact(r) => Intact(r)'
    PROVE  Careful(worker[w])'
  <1>0. worker[w] \in Worker \/ worker[w] = IdleWorker
    BY DEF TypeOK
  <1>1. PICK at : at = worker[w]
    OBVIOUS
  <1>2. \A p \in at.prepared : p[2] \in Rows
    BY <1>0, <1>1 DEF Worker, WorkerFields, IdleWorker
  <1>3. at.pc = "convert" => at.target \in Rows
    BY <1>0, <1>1 DEF Worker, WorkerFields, HasItsRows, IdleWorker
  <1>4. at.pc \in {"prepare", "insert"} => at.artifact \in Artifacts
    BY <1>0, <1>1 DEF Worker, WorkerFields, IdleWorker
  <1>5. Current(at)'
    BY <1>1, <1>2, <1>4 DEF Careful, Current
  <1>6. PlaceholdersIntact(at)'
    BY <1>1, <1>2, <1>3 DEF Careful, PlaceholdersIntact, Has
  <1>7. TakenOnce(at)' /\ Sound(at)'
    BY <1>1 DEF Careful, TakenOnce, Sound, FindingsIn
  <1> QED BY <1>1, <1>5, <1>6, <1>7 DEF Careful

LEMMA EarnedStep == ASSUME EarnedInv, [Next /\ Undisturbed]_vars PROVE EarnedInv'
  <1>0. TypeOK /\ TypeOK' /\ VerdictInv /\ VerdictInv' /\ Evolves /\ ScanInv' /\ relabelled = {}
    BY VerdictInvStep DEF EarnedInv, VerdictInv, ScanInv
  <1>1. ASSUME NEW w \in Workers, Scan(w) PROVE EarnedInv'
    <2>1. relabelled' = {}
      BY <1>1, BegunAsPrepared
    <2>2. Careful(worker[w])'
      BY <1>0, <1>1, <2>1, CarefulPreparing, CarefulPick, CarefulScan
         DEF Scan, PrepareStep, ReuseStep
    <2>3. ASSUME NEW v \in Workers \ {w} PROVE Careful(worker[v])'
      <3>1. worker'[v] = worker[v]
        BY <1>0, <1>1, ScanMoves DEF Becomes, TypeOK
      <3>2. \A r \in Rows : Has(worker[v], r) /\ Intact(r) => Intact(r)'
        BY <1>0, <1>1, <2>1, IntactForOthers
      <3>3. \A r \in Rows : Stored(r) => Stored(r)' /\ rows'[r].artifact = rows[r].artifact
        BY <1>1, RowsOfScan DEF RowStep, EarnedInv, VerdictInv
      <3>4. Careful(worker[v])
        BY DEF EarnedInv
      <3> QED BY <1>0, <1>1, <3>1, <3>2, <3>3, <3>4, ArtifactsOfScan, CarefulBystander
    <2> QED BY <1>0, <2>1, <2>2, <2>3 DEF EarnedInv
  <1>2. ASSUME UNCHANGED <<worker, relabelled>>,
               \A a \in Artifacts : artifact'[a].state # "purged" =>
                  artifact[a].state # "purged" /\ artifact'[a].content = artifact[a].content,
               \A r \in Rows :
                  \/ UNCHANGED <<rows[r].status, rows[r].artifact, rows[r].type, rows[r].checksum,
                                 rows[r].findings, rows[r].count>>
                  \/ /\ rows'[r].status = "gone" /\ rows[r].artifact \in Artifacts
                     /\ artifact'[rows[r].artifact].state = "purged"
        PROVE  EarnedInv'
    <2>1. \A r \in Rows : Intact(r) => Intact(r)'
      BY <1>2 DEF Intact, Settled, Labelled, FindingsIn
    <2>2. \A r \in Rows :
             (Stored(r) /\ (rows[r].artifact \in Artifacts =>
                               artifact'[rows[r].artifact].state # "purged")) =>
             Stored(r)' /\ rows'[r].artifact = rows[r].artifact
      BY <1>2 DEF Stored
    <2>3. ASSUME NEW w \in Workers PROVE Careful(worker[w])'
      BY <1>0, <1>2, <2>1, <2>2, CarefulBystander DEF EarnedInv
    <2> QED BY <1>0, <1>2, <2>3 DEF EarnedInv
  <1>3. CASE UNCHANGED vars
    BY <1>2, <1>3 DEF vars
  <1>4. ASSUME NEW a \in Artifacts, HoldArtifact(a) \/ HoldFails(a) \/ AdminDecides(a)
        PROVE  EarnedInv'
    <2>1. UNCHANGED <<rows, worker, relabelled>>
      BY <1>4 DEF HoldArtifact, HoldFails, AdminDecides
    <2>2. UNCHANGED artifact \/ \E status : SetQuarantine(a, status)
      BY <1>4 DEF HoldArtifact, HoldFails, AdminDecides
    <2>3. \A b \in Artifacts : /\ artifact'[b].state = artifact[b].state
                              /\ artifact'[b].content = artifact[b].content
      <3> SUFFICES ASSUME NEW b \in Artifacts
                   PROVE  /\ artifact'[b].state = artifact[b].state
                          /\ artifact'[b].content = artifact[b].content
        OBVIOUS
      <3>1. artifact[b] \in Artifact \/ artifact[b] = PurgedArtifact
        BY <1>0 DEF TypeOK
      <3> QED BY <1>0, <2>2, <3>1 DEF SetQuarantine, TypeOK, Artifact, PurgedArtifact
    <2> QED BY <1>2, <2>1, <2>3
  <1>5. ASSUME NEW a \in Artifacts, DeleteArtifact(a) PROVE EarnedInv'
    <2>1. artifact[a].state # "purged" /\ UNCHANGED <<rows, worker, relabelled>>
      BY <1>5 DEF DeleteArtifact
    <2>2. ASSUME NEW b \in Artifacts, artifact'[b].state # "purged"
          PROVE  artifact[b].state # "purged" /\ artifact'[b].content = artifact[b].content
      <3>1. artifact[b] \in Artifact \/ artifact[b] = PurgedArtifact
        BY <1>0 DEF TypeOK
      <3> QED BY <1>0, <1>5, <2>2, <3>1 DEF DeleteArtifact, TypeOK, Artifact, PurgedArtifact
    <2> QED BY <1>2, <2>1, <2>2
  <1>6. ASSUME NEW a \in Artifacts, PurgeArtifact(a) PROVE EarnedInv'
    <2>1. /\ UNCHANGED <<worker, relabelled>> /\ artifact'[a].state = "purged"
          /\ \A b \in Artifacts \ {a} : artifact'[b] = artifact[b]
      BY <1>0, <1>6 DEF PurgeArtifact, PurgedArtifact, TypeOK
    <2>2. ASSUME NEW r \in Rows
          PROVE  rows'[r] = rows[r] \/ (rows'[r].status = "gone" /\ rows[r].artifact = a)
      BY <1>6 DEF PurgeArtifact, UnusedRow
    <2> QED BY <1>2, <2>1, <2>2
  <1>7. ASSUME NEW r \in Rows, ResultsAge(r) PROVE EarnedInv'
    <2>1. UNCHANGED <<artifact, worker, relabelled>>
          /\ \A q \in Rows \ {r} : rows'[q] = rows[q]
      BY <1>0, <1>7 DEF ResultsAge, TypeOK
    <2>2. rows'[r] = [rows[r] EXCEPT !.recent = FALSE] /\ rows[r] \in Row
      BY <1>0, <1>7 DEF ResultsAge, TypeOK
    <2>3. UNCHANGED <<rows[r].status, rows[r].artifact, rows[r].type, rows[r].checksum,
                      rows[r].findings, rows[r].count>>
      BY <2>2 DEF Row
    <2> QED BY <1>2, <2>1, <2>3
  <1> QED BY <1>1, <1>3, <1>4, <1>5, <1>6, <1>7 DEF Next, Owner, Undisturbed

(* A verdict that is about to be written as clean is of a content without  *)
(* findings as long as the janitor fails no row and no content is replaced *)
(* under the scans: their own failures and stops, reuse, conversions,      *)
(* copies, purges and administrators make no unearned one.                 *)
THEOREM UndisturbedVerdictsAreEarned ==
    Spec /\ [][Undisturbed]_vars => []CleanVerdictsAreEarned
  <1>1. Init => EarnedInv
    BY VerdictInvInit
       DEF Init, EarnedInv, Careful, Current, TakenOnce, PlaceholdersIntact, Sound, IdleWorker
  <1>2. [Next]_vars /\ [Undisturbed]_vars => [Next /\ Undisturbed]_vars
    OBVIOUS
  <1>3. EarnedInv /\ [Next /\ Undisturbed]_vars => EarnedInv'
    BY EarnedStep
  <1>4. EarnedInv => CleanVerdictsAreEarned
    BY DEF EarnedInv, Careful, Sound, CleanVerdictsAreEarned, FindingsIn
  <1> QED BY <1>1, <1>2, <1>3, <1>4, PTL DEF Spec
=============================================================================
