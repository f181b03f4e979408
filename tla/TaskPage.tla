------------------------------- MODULE TaskPage -------------------------------
(***************************************************************************)
(* The page of a task, and the pipeline that works on the task while the   *)
(* page is open.                                                           *)
(*                                                                         *)
(* The pipeline writes rows and files one by one and may die anywhere.     *)
(* The page (TaskQueryService) derives the state of ten stages and of the  *)
(* whole from whatever is there.  An open page polls a fingerprint of      *)
(* some of the rows and files and fetches the page again when it changed.  *)
(*                                                                         *)
(* Only the latest attempt is on the page, so only its row and files are   *)
(* kept.  Which commands may follow one another is TaskRunner's matter;    *)
(* here an attempt may follow any that did not end the task.               *)
(***************************************************************************)
EXTENDS Naturals, FiniteSets

CONSTANTS
    AutoSwitch,    \* auto_switch_source_tree
    AutoReverse,   \* auto_reverse_source_tree
    MaxCommands    \* bound: the commands given

VARIABLES
    store,    \* the rows and files of the task
    worker,   \* what the process at work writes next, and the commands given
    client    \* the open page: what it has not asked for, or not seen, yet

pageVars == <<store, worker, client>>

Patched == "target_already_patched"
Unavailable == "source_unavailable"
UnresolvedType == "kpatch_constraint_unresolved"

\* What a report or a row says of a build; "none" where it leaves that open.
Says(type, exec, state) == [type |-> type, exec |-> exec, state |-> state]
NoFile == Says("missing", "none", "none")

Row(status, said) ==
    [status |-> status, type |-> said.type, exec |-> said.exec, state |-> said.state]
NoRow == Row("none", Says("none", "none", "none"))

----------------------------------------------------------------------------
(* What the attempts find                                                  *)

\* The selected source tree, before the patch is applied to it.
SourceTree ==
    [there : BOOLEAN, git : BOOLEAN, disabled : BOOLEAN, contained : BOOLEAN,
     apply : {"applies", "conflicts", "breaks off"}, reverses : BOOLEAN]

\* DiffEditor.apply_precheck: a tree that cannot be asked is no objection.
ApplyPrecheck(t) ==
    IF ~t.there \/ ~t.git THEN Says("none", "none", "none")
    ELSE IF t.disabled THEN Says("feature_not_enabled", "not_run", "none")
    ELSE IF t.contained THEN Says(Patched, "not_run", Patched)
    ELSE IF t.apply = "applies" THEN Says("none", "none", "none")
    ELSE IF t.apply = "breaks off" THEN Says("build_env_missing", "none", "none")
    ELSE IF t.reverses THEN Says(Patched, "not_run", Patched)
    ELSE Says("patch_apply_failed", "not_run", "none")

ApplyPrechecks == {ApplyPrecheck(t) : t \in SourceTree}

Objects(precheck) == precheck.exec = "not_run"

\* _should_retry_apply_failure_in_builder
BuilderMayMend(precheck) ==
    \/ precheck.type = Patched /\ AutoSwitch
    \/ precheck.type = "patch_apply_failed" /\ (AutoSwitch \/ AutoReverse)

\* An objection ends the attempt before the builder is called.
RowOfObjection(precheck) ==
    Row(IF precheck.state = "none" THEN "failed" ELSE "target_state", precheck)

\* The ways a build ends, see BuildFlow.
RowsOfBuilder ==
    {Row("built", Says("none", "executed", "none")),
     Row("target_state", Says(Patched, "not_run", Patched))}
    \cup {Row("failed", Says(t, "not_run", "none")) :
            t \in {"build_env_missing", "patch_apply_failed", "build_cache_incomplete"}}
    \cup {Row("failed", Says(t, "executed", "none")) :
            t \in {"compile_failed", "kpatch_constraint"}}

Outcomes(precheck) ==
    IF Objects(precheck) /\ ~BuilderMayMend(precheck) THEN {RowOfObjection(precheck)}
    ELSE RowsOfBuilder

\* The type an attempt is filed under: a failed build is classified again, by
\* rules or by a model, and the result need not be the builder's.
FiledTypes(precheck, row) ==
    IF row.status # "failed" \/ (Objects(precheck) /\ ~BuilderMayMend(precheck))
    THEN {row.type}
    ELSE {row.type, "kpatch_constraint", Patched}

\* _overall_status of the validator, see Validation.
Verdicts(row) ==
    {"failed", "partial", "pending"} \cup IF row.status = "built" THEN {"passed"} ELSE {}

----------------------------------------------------------------------------
(* The page (get_task_detail)                                              *)

Given(v) == v \notin {"none", "missing"}

\* The sources of an answer are asked in turn, until one of them has it.
OrElse(v, next) == IF Given(v) THEN v ELSE next

FirstGiven(a, b, c) == OrElse(a, OrElse(b, OrElse(c, "none")))

Tried(s) == s.row # NoRow

\* latest_failure: the analysis' own record counts until there is an attempt.
FailureRecord(s) ==
    IF Tried(s) THEN s.record ELSE IF s.sourceFailure THEN Unavailable ELSE "missing"

\* _latest_build_exec_status, _latest_target_state, _latest_failure_type: what was
\* executed outweighs what was found before.
ExecStatus(s) == FirstGiven(s.summary.exec, s.row.exec, s.precheck.exec)

\* Mutant: the precheck's verdict stands although another tree was built.
TargetStateOfAny(s) == FirstGiven(s.summary.state, s.precheck.state, s.row.state)

TargetState(s) ==
    IF ExecStatus(s) = "executed" THEN "none"
    ELSE FirstGiven(s.summary.state, s.precheck.state, s.row.state)

LatestFailureType(s) ==
    IF ExecStatus(s) = "executed"
    THEN FirstGiven(FailureRecord(s), s.summary.type, s.row.type)
    ELSE IF Patched \in {s.summary.state, s.precheck.state, s.row.state} THEN Patched
    ELSE OrElse(FailureRecord(s), FirstGiven(s.summary.type, s.precheck.type, s.row.type))

AlreadyPatched(s) == Patched \in {TargetState(s), LatestFailureType(s)}

\* _state_conflicts
Conflicts(s) ==
    Cardinality({t \in {s.row.type, FailureRecord(s), s.precheck.type, s.summary.type} :
                   Given(t)}) > 1

\* _build_process_summary
ProcessStatus(s) ==
    IF AlreadyPatched(s) THEN "skipped"
    ELSE IF ~Tried(s) THEN IF LatestFailureType(s) # "none" THEN "failed" ELSE "pending"
    ELSE IF s.row.status = "built"
         THEN IF s.validation = "passed" THEN "success" ELSE "pending"
    ELSE IF s.row.status = "failed" THEN "failed"
    ELSE IF s.task = "running" THEN "running" ELSE "pending"

\* _build_failure_diagnosis: shown for a failure that has a type.
Diagnosis(s) == IF ProcessStatus(s) = "failed" THEN LatestFailureType(s) ELSE "none"

\* A failed fetch outweighs whatever earlier analyses left.
SourceFailed(s) == LatestFailureType(s) = Unavailable \/ s.fetch = "failed"

Done(there) == IF there THEN "success" ELSE "pending"
Unless(skip, status) == IF skip THEN "skipped" ELSE status

\* _build_stage_node
BuildStage(s) ==
    IF ~Tried(s) THEN Unless(LatestFailureType(s) = Unavailable, "pending")
    ELSE IF AlreadyPatched(s) THEN "skipped"
    ELSE IF s.row.status = "built" THEN "success"
    ELSE IF s.row.status = "failed" THEN "failed" ELSE "pending"

\* _validation_stage_status
ValidateStage(s) ==
    IF SourceFailed(s) \/ AlreadyPatched(s) THEN "skipped"
    ELSE IF s.validation = "passed" THEN "success"
    ELSE IF s.validation = "failed" THEN "failed" ELSE "pending"

FailureStage(s) ==
    IF FailureRecord(s) # "missing" THEN "success"
    ELSE Unless(s.row.status = "built", "pending")

ReportStage(s) ==
    Done(s.report /\ (Tried(s) \/ FailureRecord(s) # "missing" \/ s.card))

\* _build_stage_view: prepare, source, analysis, diagnose, plan, rewrite, build,
\* failure_analysis, validate, report.
StageNodes(s) ==
    << "success",
       IF SourceFailed(s) THEN "failed" ELSE Done(s.bundle),
       Unless(SourceFailed(s), Done(s.card)),
       Unless(SourceFailed(s), Done(s.constraints)),
       Done(s.plan), Done(s.patch),
       BuildStage(s), FailureStage(s), ValidateStage(s), ReportStage(s) >>

Build == 7
Validate == 9

\* _linearize_stage_view: what follows a failed stage is shown as blocked.
StageView(s) ==
    LET nodes == StageNodes(s)
        failed == {i \in DOMAIN nodes : nodes[i] = "failed"}
    IN [i \in DOMAIN nodes |-> IF \E j \in failed : j < i THEN "blocked" ELSE nodes[i]]

\* report_closure.closure_ok; a row that is no longer running names its log.
ClosureOk(s) ==
    /\ s.report /\ s.reportText
    /\ s.validation # "none" /\ s.trace
    /\ s.row.status \notin {"none", "running"}

Page(s) ==
    [process |-> ProcessStatus(s), failure |-> LatestFailureType(s),
     diagnosis |-> Diagnosis(s), stages |-> StageView(s),
     conflicts |-> Conflicts(s), closed |-> ClosureOk(s)]

----------------------------------------------------------------------------
(* The client (get_task_event_snapshot, watch_task_events, useTaskEvents)  *)

\* Mutant: the rows are all that is compared.
WatchedRows == {"task row", "attempt row"}

\* What the fingerprint is made of; the traces of the analysis, its failure
\* record, report.md and harness_trace.json are no part of it.
Watched ==
    {"task row", "attempt row", "artifacts", "bundle", "card", "constraints", "plan",
     "patch", "precheck", "record", "summary", "validation", "report"}

\* The worker has written something.
Noticed(what, s) ==
    [client EXCEPT !.unseen = @ \/ what \in Watched, !.behind = @ \/ Page(s) # Page(store)]

\* Every two seconds, while connected.  A message that is lost with its socket
\* is sent again on the next one.
Poll ==
    /\ client.unseen
    /\ client' = [client EXCEPT !.unseen = FALSE, !.asked = TRUE]
    /\ UNCHANGED <<store, worker>>

\* The page is read row by row and file by file: what changes meanwhile may be
\* on it or not, and counts as a change after it.
Fetch ==
    /\ client.asked
    /\ client' = [client EXCEPT !.asked = FALSE, !.behind = FALSE]
    /\ UNCHANGED <<store, worker>>

----------------------------------------------------------------------------
(* The pipeline                                                            *)

Free == worker.pc \in {"idle", "dead"} /\ worker.given < MaxCommands

GoTo(pc) == worker' = [worker EXCEPT !.pc = pc]

\* The step at pc writes something.
Writes(pc, what, s, next) ==
    /\ worker.pc = pc
    /\ store' = s
    /\ client' = Noticed(what, s)
    /\ GoTo(next)

Command(pc, then) ==
    /\ Free
    /\ worker' = [pc |-> pc, then |-> then, given |-> worker.given + 1]
    /\ UNCHANGED <<store, client>>

\* A run analyzes first where there is no semantic card.
StartAnalyze == Command("fetch", "idle")
StartRun ==
    /\ store.row.status \notin {"built", "target_state"}
    /\ IF store.card THEN Command("load", "idle") ELSE Command("fetch", "load")
StartReport == Command("report", "idle")

\* AnalysisService.run
SourceFound ==
    Writes("fetch", "fetch trace", [store EXCEPT !.fetch = "ok"], "bundle")
WriteBundle ==
    Writes("bundle", "bundle", [store EXCEPT !.bundle = TRUE], "card")
WriteCard ==
    Writes("card", "card", [store EXCEPT !.card = TRUE], "constraints")
WriteConstraints ==
    Writes("constraints", "constraints", [store EXCEPT !.constraints = TRUE], "analyzed")
MarkAnalyzed ==
    Writes("analyzed", "task row", [store EXCEPT !.task = "analyzed"], "analyzed index")
IndexAnalysis ==
    Writes("analyzed index", "artifacts", store, worker.then)

\* _record_source_unavailable_failure; the command ends with an error.
SourceMissing ==
    Writes("fetch", "fetch trace", [store EXCEPT !.fetch = "failed"], "unavailable")
RecordUnavailable ==
    Writes("unavailable", "source failure", [store EXCEPT !.sourceFailure = TRUE],
           "unavailable row")
MarkUnavailable ==
    Writes("unavailable row", "task row", [store EXCEPT !.task = "failed"], "last index")

\* AttemptExecutionService.run: a new attempt has a directory of its own.  A card
\* without a constraint report is an error.
SeedAttempt ==
    \/ /\ store.constraints
       /\ Writes("load", "attempt row",
                 [store EXCEPT !.row = Row("running", Says("none", "none", "none")),
                    !.plan = FALSE, !.patch = FALSE, !.precheck = NoFile,
                    !.record = "missing", !.summary = NoFile, !.validation = "none",
                    !.trace = FALSE], "announce")
    \/ /\ worker.pc = "load" /\ ~store.constraints
       /\ GoTo("dead") /\ UNCHANGED <<store, client>>
MarkRunning ==
    Writes("announce", "task row", [store EXCEPT !.task = "running"], "plan")
WritePlan ==
    Writes("plan", "plan", [store EXCEPT !.plan = TRUE], "patch")
WriteRewritten ==
    Writes("patch", "patch", [store EXCEPT !.patch = TRUE], "precheck")
WritePrecheck ==
    \E p \in ApplyPrechecks :
       Writes("precheck", "precheck", [store EXCEPT !.precheck = p], "build")
SaveOutcome ==
    \E r \in Outcomes(store.precheck) :
       Writes("build", "attempt row", [store EXCEPT !.row = r], "unresolved")

\* The last attempt's constraint may be given up as unresolved, in the row, the
\* summary and the record (_maybe_mark_unresolved_kpatch_constraint).
MarkUnresolved ==
    /\ "kpatch_constraint" \in FiledTypes(store.precheck, store.row)
    /\ Writes("unresolved", "attempt row", [store EXCEPT !.row.type = UnresolvedType], "record")
LeaveOutcome ==
    Writes("unresolved", "attempt row", store, "record")

WriteRecord ==
    \E type \in FiledTypes(store.precheck, store.row) :
       Writes("record", "record",
              [store EXCEPT !.record = IF store.row.type = UnresolvedType THEN UnresolvedType ELSE type],
              "summary")
WriteSummary ==
    Writes("summary", "summary",
           [store EXCEPT !.summary =
              Says(store.row.type, store.row.exec, store.row.state)], "validation")
WriteValidation ==
    \E v \in Verdicts(store.row) :
       Writes("validation", "validation", [store EXCEPT !.validation = v], "trace")
WriteTrace ==
    Writes("trace", "trace", [store EXCEPT !.trace = TRUE], "index")
IndexAttempt ==
    Writes("index", "artifacts", store, "close")
CloseAttempt ==
    Writes("close", "task row", [store EXCEPT !.task = store.row.status], "idle")

\* ReportService.run
WriteReport ==
    Writes("report", "report", [store EXCEPT !.report = TRUE], "report text")
WriteReportText ==
    Writes("report text", "report text", [store EXCEPT !.reportText = TRUE], "last index")
IndexLast ==
    Writes("last index", "artifacts", store, "idle")

\* The process dies, or a step raises what nothing catches.
DieAtWork ==
    /\ worker.pc \notin {"idle", "dead"}
    /\ GoTo("dead")
    /\ UNCHANGED <<store, client>>

PageInit ==
    /\ store = [task |-> "created", fetch |-> "none", sourceFailure |-> FALSE,
                bundle |-> FALSE, card |-> FALSE, constraints |-> FALSE, row |-> NoRow,
                plan |-> FALSE, patch |-> FALSE, precheck |-> NoFile,
                record |-> "missing", summary |-> NoFile, validation |-> "none",
                trace |-> FALSE, report |-> FALSE, reportText |-> FALSE]
    /\ worker = [pc |-> "idle", then |-> "idle", given |-> 0]
    /\ client = [unseen |-> TRUE, asked |-> TRUE, behind |-> TRUE]

PageNext ==
    \/ StartAnalyze \/ StartRun \/ StartReport
    \/ SourceFound \/ WriteBundle \/ WriteCard \/ WriteConstraints
    \/ MarkAnalyzed \/ IndexAnalysis
    \/ SourceMissing \/ RecordUnavailable \/ MarkUnavailable
    \/ SeedAttempt \/ MarkRunning \/ WritePlan \/ WriteRewritten \/ WritePrecheck
    \/ SaveOutcome \/ MarkUnresolved \/ LeaveOutcome
    \/ WriteRecord \/ WriteSummary \/ WriteValidation \/ WriteTrace
    \/ IndexAttempt \/ CloseAttempt
    \/ WriteReport \/ WriteReportText \/ IndexLast
    \/ DieAtWork \/ Poll \/ Fetch

PageSpec == PageInit /\ [][PageNext]_pageVars

----------------------------------------------------------------------------
(* Properties *)

PageTypeOK ==
    /\ store.task \in {"created", "analyzed", "running", "built", "failed", "target_state"}
    /\ store.row.status \in {"none", "running", "built", "failed", "target_state"}
    /\ store.precheck \in ApplyPrechecks \cup {NoFile}
    /\ worker.given \in 0..MaxCommands
    /\ client \in [unseen : BOOLEAN, asked : BOOLEAN, behind : BOOLEAN]

Agrees(p, s) ==
    CASE s.row.status = "target_state" ->
           p.process = "skipped" /\ p.stages[Build] = "skipped" /\ p.stages[Validate] = "skipped"
      [] s.row.status = "failed" ->
           p.process = "failed" /\ p.stages[Build] = "failed" /\ p.diagnosis # "none"
      [] s.row.status = "built" ->
           /\ p.stages[Build] = "success" /\ p.failure = "none"
           /\ (p.process = "success") = (s.validation = "passed")
           /\ (p.stages[Validate] = "failed") = (s.validation = "failed")
      [] OTHER -> TRUE

\* At every moment, whatever is at work or has died, the page tells what became of
\* the latest attempt, even if the record and the summary were never written; or
\* it lists the types that contradict each other (_state_conflicts).
PageTellsTheOutcome ==
    store.fetch # "failed" =>
        Agrees(Page(store), store) \/ Page(store).conflicts

\* A page that has fetched what it was told of is the page of the task, once a
\* command has ended by itself: nothing that is not in the fingerprint is written
\* last (get_task_event_snapshot).
OpenPageCatchesUp ==
    (worker.pc = "idle" /\ ~client.unseen /\ ~client.asked) => ~client.behind

=============================================================================
