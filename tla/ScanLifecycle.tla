--------------------------- MODULE ScanLifecycle ---------------------------
(***************************************************************************)
(* Scans of artifacts: the rows of scan_results with their findings, the   *)
(* placeholders that a trigger inserts before its scan runs, the reuse of  *)
(* results by checksum, the janitor that fails scans left running, and     *)
(* the quarantine status that scans and administrators decide.             *)
(*                                                                         *)
(* A content stands for its checksum.  The findings of a row are told      *)
(* apart only by the content and scanner they come from; `count' are those *)
(* whose number the row states.  Time is a flag of a row: completed        *)
(* recently enough to be reused.  Severities, versions, packages, scores   *)
(* and audit rows are left out, as is the reading of the content, which is *)
(* stored under its checksum.                                              *)
(***************************************************************************)
EXTENDS Integers, FiniteSets

CONSTANTS Artifacts,
          Contents,
          Types,            \* scan types of the configured scanners
          Vulnerable,       \* contents in which a scanner finds something,
                            \* with its type
          Inapplicable,     \* pairs of an artifact and a scan type
          Workers,          \* concurrent triggers and scans
          Holds,            \* the repository quarantines what is uploaded
          MaxRows,          \* model bound on scan_results rows
          MaxUploads,       \* model bound on content replaced
          Nil

ASSUME ScansAssumption == /\ Vulnerable \subseteq Contents \X Types /\ Holds \in BOOLEAN
                          /\ Inapplicable \subseteq Artifacts \X Types
ASSUME NilAssumption == Nil \notin Artifacts \cup Contents \cup Types \cup Nat
ASSUME RowsAssumption == MaxRows \in Nat /\ MaxUploads \in Nat

VARIABLES artifact,     \* artifact[a]: its row, as far as scans use it
          held,         \* uploads that have yet to set the quarantine status
          rows,         \* rows[r]: the scan_results row and its findings
          worker,       \* worker[w]: where a trigger or a scan is
          uploads,      \* contents replaced so far
          relabelled    \* history: checksums under which a placeholder was
                        \* inserted for a content replaced before the scan

vars == <<artifact, held, rows, worker, uploads, relabelled>>

Rows == 1..MaxRows
FindingsIn(c, t) == {<<c, t>>} \cap Vulnerable

QuarantineStatus == {"unscanned", "quarantined", "released", "rejected", "clean", "flagged"}

(* "unused" ids have not been given out, "gone" rows were deleted with     *)
(* their artifact.                                                         *)
UnusedRow == [artifact |-> Nil, type |-> Nil, checksum |-> Nil, status |-> "unused",
              findings |-> {}, count |-> {}, recent |-> FALSE]
Row == [artifact : Artifacts \cup {Nil}, type : Types \cup {Nil},
        checksum : Contents \cup {Nil},
        status : {"unused", "running", "completed", "failed", "gone"},
        findings : SUBSET Vulnerable, count : SUBSET Vulnerable,
        recent : BOOLEAN]

Artifact == [state : {"live", "deleted"}, content : Contents, quarantine : QuarantineStatus]
PurgedArtifact == [state |-> "purged", content |-> Nil, quarantine |-> "unscanned"]

IdleWorker == [pc |-> "idle", artifact |-> Nil, content |-> Nil,
               todo |-> {}, prepared |-> {}, type |-> Nil, target |-> Nil,
               source |-> Nil, verdict |-> {}]
Steps == {"prepare", "insert", "pick", "orphan", "convert", "copy", "fresh", "findings",
          "complete", "fail", "flag", "verdict", "decide", "mark"}
WorkerFields == [pc : Steps, artifact : Artifacts,
           content : Contents \cup {Nil}, todo : SUBSET Types,
           prepared : SUBSET ((Types \cup {Nil}) \X Rows), type : Types \cup {Nil},
           target : Rows \cup {Nil}, source : Rows \cup {Nil},
           verdict : SUBSET Vulnerable]
HasItsRows(at) ==
    /\ at.pc \in {"orphan", "convert", "findings", "complete", "fail"} => at.target # Nil
    /\ at.pc \in {"orphan", "convert", "copy"} => at.source # Nil
Worker == {at \in WorkerFields : HasItsRows(at)}

TypeOK ==
    /\ artifact \in [Artifacts -> Artifact \cup {PurgedArtifact}]
    /\ held \subseteq Artifacts
    /\ rows \in [Rows -> Row]
    /\ worker \in [Workers -> Worker \cup {IdleWorker}]
    /\ uploads \in 0..MaxUploads
    /\ relabelled \subseteq Contents \cup {Nil}

Init ==
    /\ artifact \in [Artifacts ->
          [state : {"live"}, content : Contents,
           quarantine : {IF Holds THEN "quarantined" ELSE "unscanned"}]]
    /\ held = {}
    /\ rows = [r \in Rows |-> UnusedRow]
    /\ worker = [w \in Workers |-> IdleWorker]
    /\ uploads = 0
    /\ relabelled = {}

-----------------------------------------------------------------------------
Stored(r) == rows[r].status \in {"running", "completed", "failed"}

(* An UPDATE by id changes nothing when the row is gone.                   *)
Update(r, row) == IF Stored(r) THEN [rows EXCEPT ![r] = row] ELSE rows

(* An INSERT for artifact a takes a new id.  MaxRows is a model bound.     *)
NextRow == CHOOSE r \in Rows : rows[r].status = "unused"

InsertRow(a, row) ==
    /\ artifact[a].state # "purged"
    /\ \E r \in Rows : rows[r].status = "unused"
    /\ rows' = [rows EXCEPT ![NextRow] = row]

RunningRow(a, t, c) == [UnusedRow EXCEPT !.artifact = a, !.type = t, !.checksum = c,
                                         !.status = "running"]

Becomes(w, state) == worker' = [worker EXCEPT ![w] = state]
Goto(w, pc) == Becomes(w, [worker[w] EXCEPT !.pc = pc])
Stop(w) == Becomes(w, IdleWorker)

(* Mutant of Reusable: results of scans that have not completed.           *)
ReusableInAnyState(c, t) ==
    {r \in Rows : rows[r].checksum = c /\ rows[r].type = t /\ Stored(r)}

(* find_reusable_scan, and find_existing_scan_for_artifact, which is the   *)
(* same for one artifact.                                                  *)
Reusable(c, t) == {r \in Rows : /\ rows[r].checksum = c /\ rows[r].type = t
                                /\ rows[r].status = "completed" /\ rows[r].recent}
Existing(a, c, t) == {r \in Reusable(c, t) : rows[r].artifact = a}

-----------------------------------------------------------------------------
(* trigger_scan of one artifact: prepare_artifact_scan reads the artifact, *)
(* then finds or inserts a row for every scan type, and the scan itself is *)
(* spawned.                                                                *)
Trigger(w) ==
    /\ worker[w].pc = "idle"
    /\ \E a \in Artifacts :
          /\ artifact[a].state = "live"
          /\ Becomes(w, [IdleWorker EXCEPT !.pc = "prepare", !.artifact = a,
                                           !.content = artifact[a].content, !.todo = Types])
    /\ UNCHANGED <<artifact, held, rows, uploads, relabelled>>

(* A query that fails finds nothing, and bypass_dedup does not ask.        *)
LookUpExisting(w) ==
    LET at == worker[w]
    IN  /\ at.pc = "prepare"
        /\ \E t \in at.todo :
              \/ \E r \in Existing(at.artifact, at.content, t) :
                    Becomes(w, [at EXCEPT !.prepared = @ \cup {<<t, r>>}, !.todo = @ \ {t}])
              \/ Becomes(w, [at EXCEPT !.pc = "insert", !.type = t])
        /\ UNCHANGED <<artifact, held, rows, uploads, relabelled>>

InsertPlaceholder(w) ==
    LET at == worker[w]
    IN  /\ at.pc = "insert"
        /\ InsertRow(at.artifact, RunningRow(at.artifact, at.type, at.content))
        /\ Becomes(w, [at EXCEPT !.pc = "prepare", !.type = Nil,
                                 !.prepared = @ \cup {<<at.type, NextRow>>},
                                 !.todo = @ \ {at.type}])
        /\ UNCHANGED <<artifact, held, uploads, relabelled>>

(* A scan without a trigger: after an upload, or of a whole repository.    *)
ScanUnprepared(w) ==
    /\ worker[w].pc = "idle"
    /\ \E a \in Artifacts :
          Becomes(w, [IdleWorker EXCEPT !.pc = "prepare", !.artifact = a])
    /\ UNCHANGED <<artifact, held, rows, uploads, relabelled>>

-----------------------------------------------------------------------------
(* scan_artifact_inner reads the artifact again.  Its content may have     *)
(* been replaced since the placeholders were inserted.                     *)
BeginScan(w) ==
    LET at == worker[w]
        content == artifact[at.artifact].content
    IN  /\ at.pc = "prepare"
        /\ at.todo = {}
        /\ IF artifact[at.artifact].state = "live"
           THEN /\ Becomes(w, [at EXCEPT !.pc = "pick", !.todo = Types, !.content = content])
                /\ relabelled' = relabelled \cup
                      ({rows[p[2]].checksum : p \in at.prepared} \ {content})
           ELSE Stop(w) /\ UNCHANGED relabelled
        /\ UNCHANGED <<artifact, held, rows, uploads>>

(* The scan goes on with its next scanner, and ends after the last one.    *)
NextScanner(w) ==
    Becomes(w, IF worker[w].todo = {} THEN IdleWorker
               ELSE [worker[w] EXCEPT !.pc = "pick", !.type = Nil, !.target = Nil,
                                      !.source = Nil, !.verdict = {}])

(* prepared.remove(scan_type): the row a trigger prepared, or none.        *)
PreparedFor(w, t) ==
    LET prepared == {r \in Rows : <<t, r>> \in worker[w].prepared}
    IN  IF prepared = {} THEN {Nil} ELSE prepared

(* Worker w takes up the scanner of type t, in row `target' if not Nil.    *)
WithScanner(w, t, target) ==
    [worker[w] EXCEPT !.todo = @ \ {t}, !.type = t, !.target = target,
                      !.prepared = {p \in @ : p[1] # t}]

(* Mutant of Failed: back to pending, a status no scan writes.             *)
FailedAsPending(r) == [rows[r] EXCEPT !.status = "pending", !.recent = TRUE]

Failed(r) == [rows[r] EXCEPT !.status = "failed", !.recent = TRUE]

(* A scanner that does not apply fails the prepared row and is passed over.*)
SkipScanner(w) ==
    /\ worker[w].pc = "pick"
    /\ \E t \in worker[w].todo : \E target \in PreparedFor(w, t) :
          LET skipped == [WithScanner(w, t, Nil) EXCEPT !.type = Nil]
          IN  /\ <<worker[w].artifact, t>> \in Inapplicable
              /\ rows' = IF target = Nil THEN rows ELSE Update(target, Failed(target))
              /\ Becomes(w, IF skipped.todo = {} THEN IdleWorker ELSE skipped)
    /\ UNCHANGED <<artifact, held, uploads, relabelled>>

(* What becomes of a scan that found the results `source'.  Those of the   *)
(* same artifact are not copied; a placeholder beside them is converted.   *)
ReuseOf(at, source) ==
    IF rows[source].artifact # at.artifact
    THEN [at EXCEPT !.pc = IF at.target = Nil THEN "copy" ELSE "convert", !.source = source]
    ELSE IF at.target \notin {Nil, source} THEN [at EXCEPT !.pc = "orphan", !.source = source]
    ELSE IF at.todo = {} THEN IdleWorker ELSE [at EXCEPT !.type = Nil, !.target = Nil]

FindReusable(w) ==
    /\ worker[w].pc = "pick"
    /\ \E t \in worker[w].todo : \E target \in PreparedFor(w, t) :
          LET at == WithScanner(w, t, target)
          IN  /\ <<at.artifact, t>> \notin Inapplicable
              /\ \/ \E source \in Reusable(at.content, t) : Becomes(w, ReuseOf(at, source))
                 \/ Becomes(w, [at EXCEPT !.pc = "fresh"])
    /\ UNCHANGED <<artifact, held, rows, uploads, relabelled>>

(* Mutant of ConvertedFrom: the findings are not copied.                   *)
ConvertedWithoutFindings(target, source) ==
    [rows[target] EXCEPT !.status = "completed", !.recent = TRUE, !.count = rows[source].count]

(* The transaction of convert_to_reused, which holds the source by FOR     *)
(* SHARE: a target that is still running takes the results of the source.  *)
ConvertedFrom(target, source) ==
    [rows[target] EXCEPT !.status = "completed", !.recent = TRUE,
                         !.findings = @ \cup rows[source].findings,
                         !.count = rows[source].count]
IsRunning(r) == rows[r].status = "running"

(* Best effort: an error, or a row that is not running, changes nothing.   *)
ConvertOrphan(w) ==
    LET at == worker[w]
    IN  /\ at.pc = "orphan"
        /\ rows' = IF Stored(at.source) /\ IsRunning(at.target)
                   THEN [rows EXCEPT ![at.target] = ConvertedFrom(at.target, at.source)]
                   ELSE rows
        /\ NextScanner(w)
        /\ UNCHANGED <<artifact, held, uploads, relabelled>>

(* A target that is no longer running is returned as it is, and its count  *)
(* decides.  When either row is gone the scan falls back to a fresh one.   *)
ConvertToReused(w) ==
    LET at == worker[w]
    IN  /\ at.pc = "convert"
        /\ IF ~Stored(at.source) \/ ~Stored(at.target)
           THEN Goto(w, "fresh") /\ UNCHANGED rows
           ELSE /\ rows' = IF IsRunning(at.target)
                           THEN [rows EXCEPT ![at.target] = ConvertedFrom(at.target, at.source)]
                           ELSE rows
                /\ Becomes(w, [at EXCEPT !.pc = "verdict", !.verdict = rows'[at.target].count])
        /\ UNCHANGED <<artifact, held, uploads, relabelled>>

(* A copy completed when its source did.                                   *)
CopyScanResults(w) ==
    LET at == worker[w]
        source == rows[at.source]
    IN  /\ at.pc = "copy"
        /\ \/ /\ Stored(at.source)
              /\ InsertRow(at.artifact,
                    [UnusedRow EXCEPT !.artifact = at.artifact, !.type = at.type,
                        !.checksum = at.content, !.status = "completed",
                        !.findings = source.findings, !.count = source.count,
                        !.recent = source.recent])
              /\ Becomes(w, [at EXCEPT !.pc = "verdict", !.verdict = source.count])
           \/ /\ ~Stored(at.source) \/ artifact[at.artifact].state = "purged"
              /\ Goto(w, "fresh")
              /\ UNCHANGED rows
        /\ UNCHANGED <<artifact, held, uploads, relabelled>>

-----------------------------------------------------------------------------
(* A fresh scan runs in the prepared row, or in a new one.  The scanner    *)
(* returns its findings or an error.                                       *)
GetOrCreateRow(w) ==
    LET at == worker[w]
    IN  /\ at.pc = "fresh"
        /\ \E outcome \in {"findings", "fail"} :
              \/ /\ at.target # Nil /\ Stored(at.target)
                 /\ Goto(w, outcome)
                 /\ UNCHANGED rows
              \/ /\ at.target = Nil
                 /\ InsertRow(at.artifact, RunningRow(at.artifact, at.type, at.content))
                 /\ Becomes(w, [at EXCEPT !.pc = outcome, !.target = NextRow])
        /\ UNCHANGED <<artifact, held, uploads, relabelled>>

(* Findings of a row that is gone violate its foreign key: the scan ends.  *)
CreateFindings(w) ==
    LET at == worker[w]
        found == FindingsIn(at.content, at.type)
    IN  /\ at.pc = "findings"
        /\ Stored(at.target) \/ found = {}
        /\ rows' = Update(at.target, [rows[at.target] EXCEPT !.findings = @ \cup found])
        /\ Goto(w, "complete")
        /\ UNCHANGED <<artifact, held, uploads, relabelled>>

(* Mutant of CompleteScan: the verdict is for what the artifact holds now. *)
CompleteScanOfNow(w) ==
    LET at == worker[w]
        a == at.artifact
    IN  /\ at.pc = "complete"
        /\ rows' = Update(at.target,
              [rows[at.target] EXCEPT !.status = "completed", !.recent = TRUE,
                  !.count = FindingsIn(artifact[a].content, at.type)])
        /\ Becomes(w, [at EXCEPT !.pc = "verdict",
                                 !.verdict = FindingsIn(artifact[a].content, at.type)])
        /\ UNCHANGED <<artifact, held, uploads, relabelled>>

(* complete_scan and fail_scan update the row by id, whatever its status.  *)
CompleteScan(w) ==
    LET at == worker[w]
    IN  /\ at.pc = "complete"
        /\ rows' = Update(at.target,
              [rows[at.target] EXCEPT !.status = "completed", !.recent = TRUE,
                  !.count = FindingsIn(at.content, at.type)])
        /\ Becomes(w, [at EXCEPT !.pc = "verdict",
                                 !.verdict = FindingsIn(at.content, at.type)])
        /\ UNCHANGED <<artifact, held, uploads, relabelled>>

FailScan(w) ==
    /\ worker[w].pc = "fail"
    /\ rows' = Update(worker[w].target, Failed(worker[w].target))
    /\ Goto(w, "flag")
    /\ UNCHANGED <<artifact, held, uploads, relabelled>>

-----------------------------------------------------------------------------
SetQuarantine(a, status) ==
    artifact' = IF artifact[a].state = "purged" THEN artifact
                ELSE [artifact EXCEPT ![a].quarantine = status]

FlagArtifact(w) ==
    /\ worker[w].pc = "flag"
    /\ SetQuarantine(worker[w].artifact, "flagged")
    /\ NextScanner(w)
    /\ UNCHANGED <<held, rows, uploads, relabelled>>

(* update_quarantine_status reads the status before it writes it.          *)
ReadQuarantine(w) ==
    /\ worker[w].pc = "verdict"
    /\ Goto(w, IF artifact[worker[w].artifact].quarantine = "quarantined"
               THEN "decide" ELSE "mark")
    /\ UNCHANGED <<artifact, held, rows, uploads, relabelled>>

(* UPDATE ... WHERE quarantine_status = 'quarantined'.                     *)
Transition(a, status) ==
    IF artifact[a].quarantine = "quarantined" THEN SetQuarantine(a, status)
                                              ELSE UNCHANGED artifact

DecideQuarantine(w) ==
    /\ worker[w].pc = "decide"
    /\ Transition(worker[w].artifact,
                  IF worker[w].verdict = {} THEN "released" ELSE "rejected")
    /\ NextScanner(w)
    /\ UNCHANGED <<held, rows, uploads, relabelled>>

MarkArtifact(w) ==
    /\ worker[w].pc = "mark"
    /\ SetQuarantine(worker[w].artifact,
                     IF worker[w].verdict = {} THEN "clean" ELSE "flagged")
    /\ NextScanner(w)
    /\ UNCHANGED <<held, rows, uploads, relabelled>>

(* A database error, or the end of the process, at any step.               *)
WorkerStops(w) ==
    /\ worker[w].pc # "idle"
    /\ Stop(w)
    /\ UNCHANGED <<artifact, held, rows, uploads, relabelled>>

-----------------------------------------------------------------------------
(* An upload replaces the row of its path, then sets the quarantine.  That *)
(* is refused for a live row of the same version; versions are left out.   *)
UploadArtifact(a) ==
    /\ uploads < MaxUploads
    /\ artifact[a].state # "purged"
    /\ \E c \in Contents :
          artifact' = [artifact EXCEPT ![a].content = c, ![a].state = "live"]
    /\ held' = IF Holds THEN held \cup {a} ELSE held
    /\ uploads' = uploads + 1
    /\ UNCHANGED <<rows, worker, relabelled>>

HoldArtifact(a) ==
    /\ a \in held
    /\ held' = held \ {a}
    /\ SetQuarantine(a, "quarantined")
    /\ UNCHANGED <<rows, worker, uploads, relabelled>>

(* An error of set_quarantine is logged and the upload goes on.            *)
HoldFails(a) ==
    /\ a \in held
    /\ held' = held \ {a}
    /\ UNCHANGED <<artifact, rows, worker, uploads, relabelled>>

AdminDecides(a) ==
    /\ artifact[a].state # "purged"
    /\ artifact[a].quarantine = "quarantined"
    /\ \E status \in {"released", "rejected"} : SetQuarantine(a, status)
    /\ UNCHANGED <<held, rows, worker, uploads, relabelled>>

DeleteArtifact(a) ==
    /\ artifact[a].state = "live"
    /\ artifact' = [artifact EXCEPT ![a].state = "deleted"]
    /\ UNCHANGED <<held, rows, worker, uploads, relabelled>>

(* Storage garbage collection deletes the row and, ON DELETE CASCADE, its  *)
(* scans and their findings.                                               *)
PurgeArtifact(a) ==
    /\ artifact[a].state = "deleted"
    /\ artifact' = [artifact EXCEPT ![a] = PurgedArtifact]
    /\ rows' = [r \in Rows |-> IF Stored(r) /\ rows[r].artifact = a
                               THEN [UnusedRow EXCEPT !.status = "gone"] ELSE rows[r]]
    /\ UNCHANGED <<held, worker, uploads, relabelled>>

(* Time passes: results become too old to be reused.                       *)
ResultsAge(r) ==
    /\ rows[r].status = "completed" /\ rows[r].recent
    /\ rows' = [rows EXCEPT ![r].recent = FALSE]
    /\ UNCHANGED <<artifact, held, worker, uploads, relabelled>>

(* Mutant of Stuck: a row with findings is left to its scan.               *)
StuckWithoutFindings == {r \in Rows : rows[r].status = "running" /\ rows[r].findings = {}}

(* cleanup_stuck_scans, one transaction under an advisory lock.  Which of  *)
(* the running rows are over the threshold and within the limit is free.   *)
Stuck == {r \in Rows : IsRunning(r)}

ReapStuckScans ==
    /\ \E reaped \in SUBSET Stuck \ {{}} :
          rows' = [r \in Rows |-> IF r \in reaped THEN Failed(r) ELSE rows[r]]
    /\ UNCHANGED <<artifact, held, worker, uploads, relabelled>>

-----------------------------------------------------------------------------
ReuseStep(w) == FindReusable(w) \/ ConvertOrphan(w) \/ ConvertToReused(w) \/ CopyScanResults(w)
FreshStep(w) == \/ GetOrCreateRow(w) \/ CreateFindings(w)
                \/ CompleteScan(w) \/ FailScan(w) \/ FlagArtifact(w)
VerdictStep(w) == ReadQuarantine(w) \/ DecideQuarantine(w) \/ MarkArtifact(w)
PrepareStep(w) == \/ Trigger(w) \/ LookUpExisting(w) \/ InsertPlaceholder(w)
                  \/ ScanUnprepared(w) \/ BeginScan(w)

Scan(w) == \/ PrepareStep(w) \/ SkipScanner(w) \/ ReuseStep(w)
           \/ FreshStep(w) \/ VerdictStep(w) \/ WorkerStops(w)
Owner(a) == \/ UploadArtifact(a) \/ HoldArtifact(a) \/ HoldFails(a) \/ AdminDecides(a)
            \/ DeleteArtifact(a) \/ PurgeArtifact(a)
Next == \/ \E w \in Workers : Scan(w)
        \/ \E a \in Artifacts : Owner(a)
        \/ \E r \in Rows : ResultsAge(r)
        \/ ReapStuckScans

Spec == Init /\ [][Next]_vars

(* The janitor ticks, and a scan that stays running passes its threshold.  *)
FairSpec == Spec /\ WF_vars(ReapStuckScans)

-----------------------------------------------------------------------------
(* A row that states findings has them: the count of complete_scan, and    *)
(* the counts that a copy or a conversion takes from its source, are of    *)
(* findings that were stored before, whatever was reaped, deleted or       *)
(* failed in between ("findings_count ... stay in lockstep").              *)
CountedFindingsExist ==
    \A r \in Rows : rows[r].status = "completed" => rows[r].count \subseteq rows[r].findings

(* Results are reused by checksum, so a completed row has the findings of  *)
(* the content it is labelled with, all of them and no others.  Excepted   *)
(* are the checksums of placeholders overtaken by an upload: the scan then *)
(* completes them with the findings of the new content.                    *)
ResultsMatchChecksum ==
    \A r \in Rows :
        (rows[r].status = "completed" /\ rows[r].checksum \notin relabelled) =>
            /\ rows[r].findings = FindingsIn(rows[r].checksum, rows[r].type)
            /\ rows[r].count = FindingsIn(rows[r].checksum, rows[r].type)

(* The verdict a scan is about to write is that of the content it read.    *)
(* Excepted are conversions that change nothing and return the count their *)
(* target has: zero when the janitor has failed the placeholder meanwhile, *)
(* and that of the old content when an upload has overtaken the trigger.   *)
VerdictsMatchContent ==
    \A w \in Workers :
        LET at == worker[w]
        IN  (at.pc \in {"verdict", "decide", "mark"} /\ at.content \notin relabelled) =>
                \/ at.verdict = FindingsIn(at.content, at.type)
                \/ /\ at.target # Nil
                   /\ \/ rows[at.target].status \in {"failed", "gone"}
                      \/ rows[at.target].checksum # at.content

(* A scan that lost its worker does not stay running: no row does.         *)
ScansSettle == \A r \in Rows : []<>(rows[r].status # "running")

(* A conditional UPDATE is there "to prevent a clean scan from overwriting *)
(* a rejection set by an admin or another scanner".                        *)
RejectionsStand ==
    [][\A a \in Artifacts : artifact[a].quarantine = "rejected" =>
          artifact'[a].quarantine \notin {"clean", "released"}]_vars

(* "released (scan passed, admin override)": a scan that read a vulnerable *)
(* content does not write a clean verdict, not even after the janitor.     *)
CleanVerdictsAreEarned ==
    \A w \in Workers :
        (worker[w].pc \in {"decide", "mark"} /\ worker[w].verdict = {}) =>
            \/ worker[w].content \in relabelled
            \/ <<worker[w].content, worker[w].type>> \notin Vulnerable
=============================================================================
