---------------------------- MODULE PoolScreening ----------------------------
(***************************************************************************)
(* scripts/screen_challenge_pool.py: a list of CVEs is analyzed, thinned   *)
(* out by several gates, run one after another through the command line,   *)
(* and those whose module was built and validated join the positive pool,  *)
(* a file that outlives the screening.                                     *)
(*                                                                         *)
(* The state is what a screening keeps in memory, a record per CVE, and    *)
(* what it finds on disk: the pool and the tasks with their latest attempt.*)
(* The pipeline behind the command line is external here; a run is a       *)
(* choice among Attempts, or breaks off.                                   *)
(***************************************************************************)
EXTENDS Integers, Sequences, SequencesExt, FiniteSets, FiniteSetsExt

CONSTANTS
    Batches,       \* lists of CVEs; one with nothing on it screens nothing
    TaskOf,        \* build_task_id: prefix and serial number, without the year
    Findings,      \* what an analysis may find, see FindingType
    CommandLines,  \* see OptionType
    Leftovers,     \* attempts that earlier work may have left, or NoTask
    KnownPools     \* pools of confirmed CVEs and of those known to be constrained

CVEs == DOMAIN TaskOf
Tasks == {TaskOf[c] : c \in CVEs}

Markers ==
    {"kbuild_or_makefile_change", "init_probe_remove_exit_path",
     "global_or_static_data_change", "struct_or_type_definition_change",
     "header_change", "module_export_or_section_marker"}

\* What analyze_patch_shape reads off a patch.
Shapes ==
    [lines : Nat, files : Nat, functions : Nat, markers : SUBSET Markers, guard : BOOLEAN]

NoFinding ==
    [route |-> FALSE, risks |-> 0, constrained |-> FALSE, modules |-> 0, vmlinux |-> FALSE,
     disabled |-> FALSE, baseline |-> FALSE, expectedOff |-> FALSE,
     shape |-> [lines |-> 0, files |-> 0, functions |-> 0, markers |-> {}, guard |-> FALSE]]

\* route: one of the two low-risk routes; risks: the high ones; constrained: a
\* risk kpatch is known to object to; modules, vmlinux, disabled: what the files
\* are built into (BuildTargets); baseline: a stable reference is known;
\* expectedOff: the fixture expects no build.
FindingType(f) ==
    /\ f.route \in BOOLEAN /\ f.risks \in Nat /\ f.constrained \in BOOLEAN
    /\ f.modules \in Nat /\ {f.vmlinux, f.disabled} \subseteq BOOLEAN
    /\ f.baseline \in BOOLEAN /\ f.expectedOff \in BOOLEAN /\ f.shape \in Shapes

OptionType(o) ==
    /\ o.full \in BOOLEAN /\ o.update \in BOOLEAN /\ o.includeKnown \in BOOLEAN
    /\ {o.onlyCandidates, o.onlyModules, o.onlyHigh, o.prepare} \subseteq BOOLEAN
    /\ o.maxRuns \in Nat \ {0}

ASSUME FindingsTyped == \A f \in Findings : FindingType(f)
ASSUME CommandLinesTyped == \A o \in CommandLines : OptionType(o)
ASSUME BatchesTyped == \A b \in Batches : b \in Seq(CVEs) \ {<<>>} /\ IsInjective(b)
ASSUME KnownPoolsTyped == \A k \in KnownPools : k.positive \cup k.constrained \subseteq CVEs

VARIABLES
    options,     \* the command line
    pool,        \* the fixture of confirmed CVEs
    constrained, \* the fixture of known constraints; never written
    latest,      \* the latest attempt of each task, as its files show it
    proven,      \* history: tasks some attempt of which was built and passed
    screen       \* the screening: its step, its place in the list, its records

poolVars == <<options, pool, constrained, latest, proven, screen>>

----------------------------------------------------------------------------
(* Attempts and records *)

\* row: the status in the database, with its failure type; then what the files
\* show: the build summary, the validation report, where the module is and what it
\* was built for, and the failure record, which says "none" of a build that worked.
NoAttempt ==
    [row |-> "none", type |-> "absent", build |-> "absent", validation |-> "absent",
     module |-> "absent", failure |-> "absent"]

NoTask == [NoAttempt EXCEPT !.row = "missing"]

Built(validation, module) ==
    [row |-> "built", type |-> "absent", build |-> "built", validation |-> validation,
     module |-> module, failure |-> "none"]

Failed(row, failure) ==
    [NoAttempt EXCEPT !.row = row, !.type = failure, !.build = row, !.failure = failure]

\* What a run may leave.
Attempts ==
    {Built("passed", m) : m \in {"fits", "misfit", "gone"}} \cup {Built("failed", "fits")}
    \cup {Failed("failed", f) : f \in {"kpatch_constraint", "compile_failed"}}
    \cup {Failed("target_state", "target_already_patched")}

Unvalidated(a) == [a EXCEPT !.validation = "absent"]

RecordOnly(a) == [Unvalidated(a) EXCEPT !.build = "absent", !.module = "absent"]

RowOnly(a) == [RecordOnly(a) EXCEPT !.failure = "absent"]

\* Cut off on the way: before the build, after it, between its record and its
\* summary, before its validation.
Halves ==
    {[NoAttempt EXCEPT !.row = "running"]}
    \cup UNION {{RowOnly(a), RecordOnly(a), Unvalidated(a)} : a \in Attempts}

Known == Attempts \cup Halves \cup {NoAttempt, NoTask}

ASSUME LeftoversTyped == Leftovers \subseteq Known

Good(a) == a.build = "built" /\ a.validation = "passed" /\ a.module = "fits"

\* What is known of a case before it is classified.
Record(cve, finding) ==
    [cve |-> cve, finding |-> finding, tier |-> "none", bucket |-> "none",
     candidate |-> FALSE, known |-> "none", targeted |-> FALSE, status |-> "none",
     failure |-> "absent", runFailure |-> "absent", exhausted |-> FALSE,
     attempt |-> NoAttempt, runs |-> 0]

Class(tier, bucket) == [tier |-> tier, bucket |-> bucket]

Confirmed == "positive_acceptance_confirmed"

\* What the sample or the machine has no build for.
Gated == {"target_already_patched", "feature_not_enabled", "target_arch_mismatch",
          "build_cache_incomplete"}

Blocked == {"kpatch_constraint", "kpatch_constraint_unresolved", "unfixable_by_livepatch"}

\* "none" is a type like any other.
FailureType(r) == IF r.failure # "absent" THEN r.failure ELSE r.runFailure

LowRisk(f) == f.route /\ f.risks = 0

\* What a failure says of a sample, whatever the analysis promised.
ClassOfType ==
    [target_already_patched |-> Class("development_only_target_state", "already_patched"),
     feature_not_enabled    |-> Class("development_only_feature_gate", "feature_not_enabled"),
     target_arch_mismatch   |-> Class("development_only_arch_gate", "feature_not_enabled"),
     build_cache_incomplete |-> Class("environment_build_cache_incomplete", "none"),
     run_timeout            |-> Class("blocked_by_run_timeout", "none"),
     kpatch_constraint      |-> Class("blocked_by_kpatch_constraint", "kpatch_constraint"),
     patch_apply_failed     |-> Class("development_only_apply_precheck", "none"),
     compile_failed         |-> Class("blocked_by_compile_failure", "none")]

\* A timeout comes before a constraint and a build that failed.
Verdict(r) ==
    LET type == FailureType(r) IN
    CASE type \notin Gated /\ r.status = "timeout" -> "run_timeout"
      [] type \in Blocked /\ r.status # "timeout" -> "kpatch_constraint"
      [] OTHER -> type

EvidenceClass(module) ==
    CASE module = "fits"         -> Class(Confirmed, "buildable_and_should_pass")
      [] module = "misfit" -> Class("environment_vermagic_mismatch", "none")
      [] OTHER                   -> Class("positive_acceptance_evidence_incomplete", "none")

PromiseClass(r, type) ==
    IF LowRisk(r.finding)
    THEN Class("positive_candidate_low_risk", "buildable_and_should_pass")
    ELSE IF type # "absent" \/ r.status \in {"failed", "target_state"}
         THEN Class("development_only_unstable_bucket", "none")
         ELSE Class("development_only_high_risk", "none")

\* classify_sample_pool_result: the evidence first, then the failure, then what
\* the analysis promised.
ClassOf(r) ==
    LET type == Verdict(r) IN
    IF r.attempt.build = "built" /\ r.attempt.validation = "passed"
    THEN EvidenceClass(r.attempt.module)
    ELSE IF type = "target_already_patched" /\ LowRisk(r.finding)
    THEN Class("positive_candidate_blocked_by_target_state", "already_patched")
    ELSE IF type \in DOMAIN ClassOfType THEN ClassOfType[type] ELSE PromiseClass(r, type)

Filed(r, class) ==
    [r EXCEPT !.tier = class.tier, !.bucket = class.bucket,
              !.candidate = class.tier \in {Confirmed, "positive_candidate_low_risk"}]

Classified(r) == Filed(r, ClassOf(r))

Set(r, tier, bucket) == [r EXCEPT !.tier = tier, !.bucket = bucket, !.candidate = FALSE]

----------------------------------------------------------------------------
(* The gates *)

\* Mutant: only the positive pool is looked at.
PositivePoolGate(r) ==
    IF r.cve \in pool
    THEN [Set(r, "positive_candidate_already_confirmed", "buildable_and_should_pass")
            EXCEPT !.known = "positive_pool"]
    ELSE r

\* apply_known_pool_gate.
KnownPoolGate(r) ==
    CASE r.cve \in pool ->
           [Set(r, "positive_candidate_already_confirmed", "buildable_and_should_pass")
              EXCEPT !.known = "positive_pool"]
      [] r.cve \in constrained \ pool ->
           [Set(r, "blocked_by_known_kpatch_constraint", "kpatch_constraint")
              EXCEPT !.known = "kpatch_constraint_pool"]
      [] OTHER -> r

\* apply_module_target_gate; only this gate looks for build targets.
ModuleGate(r) ==
    LET seen == [r EXCEPT !.targeted = TRUE] IN
    IF ~r.candidate \/ r.finding.modules > 0 THEN seen
    ELSE IF r.finding.disabled
    THEN Set(seen, "development_only_feature_gate", "feature_not_enabled")
    ELSE Set(seen, "deferred_vmlinux_target", "none")

Points(condition, n) == IF condition THEN n ELSE 0

MarkerPoints ==
    [kbuild_or_makefile_change |-> 35, init_probe_remove_exit_path |-> 25,
     global_or_static_data_change |-> 25, struct_or_type_definition_change |-> 30,
     header_change |-> 15, module_export_or_section_marker |-> 30]

\* score_livepatchability.
Livepatchability(r) ==
    LET f == r.finding
        s == f.shape
        modules == IF r.targeted THEN f.modules ELSE 0
        targets == (IF modules > 0 THEN 25 + Points(modules = 1, 8) ELSE -30)
                     - Points(r.targeted /\ f.vmlinux, 25) - Points(r.targeted /\ f.disabled, 35)
        size == (CASE s.lines \in 1..20 -> 15 [] s.lines = 0 \/ s.lines \in 21..50 -> 5
                   [] OTHER -> -20)
                + (CASE s.files = 1 -> 10 [] s.files > 1 -> - Min({25, 8 * (s.files - 1)})
                     [] OTHER -> 0)
                + (CASE s.functions \in 1..2 -> 10 [] s.functions = 0 -> -8
                     [] OTHER -> - Min({25, 8 * (s.functions - 2)}))
        risk == IF LowRisk(f) THEN 12
                ELSE - Min({25, 8 * f.risks + Points(~f.route, 10)})
        form == Points(s.guard /\ s.markers \cap {"kbuild_or_makefile_change",
                                                   "struct_or_type_definition_change"} = {}, 10)
                - MapThenSumSet(LAMBDA k : MarkerPoints[k], s.markers)
    IN Max({0, Min({100, 50 + targets + size + risk - Points(f.constrained, 20) + form})})

\* full_run_recommended with the least score of 75.
Recommended(r) ==
    /\ Livepatchability(r) >= 75
    /\ r.known # "kpatch_constraint_pool"
    /\ r.targeted /\ r.finding.modules > 0 /\ ~r.finding.disabled /\ ~r.finding.vmlinux
    /\ r.finding.shape.markers \cap {"kbuild_or_makefile_change",
                                     "struct_or_type_definition_change"} = {}

\* apply_livepatchability_gate: a candidate the module gate has not looked at is
\* never recommended.
ScoreGate(r) ==
    CASE ~r.candidate -> r
      [] r.candidate /\ Recommended(r) ->
           [r EXCEPT !.tier = "positive_candidate_livepatchability_high"]
      [] OTHER -> Set(r, "deferred_livepatchability_low_score", "none")

----------------------------------------------------------------------------
(* The steps *)

Case == screen.list[screen.at]
Task == TaskOf[Case]

Current == screen.records[screen.at]

GoOn(step, records) ==
    screen' = [screen EXCEPT !.step = step, !.at = 1, !.records = records]

\* The next case, or the next step with its first one.
NextCase(records, step) ==
    IF screen.at = Len(screen.list) THEN GoOn(step, records)
    ELSE screen' = [screen EXCEPT !.at = @ + 1, !.records = records]

\* create and analyze got through; a task of this number is refused.
Analyze ==
    /\ screen.step = "analyze"
    /\ latest[Task] = NoTask
    /\ latest' = [latest EXCEPT ![Task] = NoAttempt]
    /\ \E f \in Findings :
         NextCase(Append(screen.records, Classified(Record(Case, f))), "pools")
    /\ UNCHANGED <<options, pool, constrained, proven>>

\* Either failed, perhaps after the task was created.
AnalyzeFails ==
    /\ screen.step = "analyze"
    /\ \/ UNCHANGED latest
       \/ latest[Task] = NoTask /\ latest' = [latest EXCEPT ![Task] = NoAttempt]
    /\ NextCase(Append(screen.records,
                       Set(Record(Case, NoFinding),
                           "development_only_source_or_analysis_error", "none")),
                "pools")
    /\ UNCHANGED <<options, pool, constrained, proven>>

GateKnownPools ==
    /\ screen.step = "pools"
    /\ LET gated == [i \in DOMAIN screen.records |-> KnownPoolGate(screen.records[i])]
       IN GoOn("modules",
               IF ~options.includeKnown
                  /\ (options.onlyCandidates \/ options.onlyModules \/ options.update)
               THEN gated ELSE screen.records)
    /\ UNCHANGED <<options, pool, constrained, latest, proven>>

GateModules ==
    /\ screen.step = "modules"
    /\ LET gated == [i \in DOMAIN screen.records |-> ModuleGate(screen.records[i])]
       IN GoOn("scores", IF options.onlyModules THEN gated ELSE screen.records)
    /\ UNCHANGED <<options, pool, constrained, latest, proven>>

GateScores ==
    /\ screen.step = "scores"
    /\ LET gated == [i \in DOMAIN screen.records |-> ScoreGate(screen.records[i])]
       IN GoOn(IF options.full THEN "baselines" ELSE "done",
               IF options.onlyHigh \/ options.onlyCandidates THEN gated ELSE screen.records)
    /\ UNCHANGED <<options, pool, constrained, latest, proven>>

\* should_prepare_stable_baseline_for_record, and the tests before it.
WantsBaseline(r) ==
    /\ options.prepare /\ r.finding.baseline
    /\ options.onlyCandidates => r.candidate
    /\ ~r.finding.expectedOff
    /\ \/ r.candidate \/ r.known # "none"
       \/ r.bucket \in {"buildable_and_should_pass", "kpatch_constraint"}

PrepareBaseline ==
    /\ screen.step = "baselines"
    /\ LET r == Current
           broken == Set(r, "blocked_by_stable_baseline_prepare_failed", "none")
       IN \E after \in {r} \cup (IF WantsBaseline(r) THEN {broken} ELSE {}) :
             NextCase([screen.records EXCEPT ![screen.at] = after], "run")
    /\ UNCHANGED <<options, pool, constrained, latest, proven>>

\* should_continue_run.
Continues(r) ==
    /\ r.runs < options.maxRuns
    /\ r.tier # Confirmed
    /\ ~r.exhausted
    /\ FailureType(r) \notin Gated \cup {"run_timeout"}
    /\ \/ FailureType(r) \in {"compile_failed", "kpatch_constraint", "patch_apply_failed"}
       \/ r.status \in {"failed", "timeout", "error"}

\* Mutant: a failure once met stays in the record.
ReloadedBesides(r, a) ==
    Classified([r EXCEPT !.attempt = a, !.runs = @ + 1,
                         !.failure = IF @ \in {"absent", "none"} THEN a.failure ELSE @])

\* The run is over: load_full_artifacts takes what the latest attempt shows, its
\* failure type where its record was written, whose "none" lifts an earlier one;
\* then the case is classified.
Reloaded(r, a) ==
    Classified([r EXCEPT !.attempt = a, !.runs = @ + 1,
                         !.failure = IF a.failure # "absent" THEN a.failure ELSE @])

EndRun(r) ==
    LET records == [screen.records EXCEPT ![screen.at] = r]
    IN IF Continues(r) THEN screen' = [screen EXCEPT !.records = records]
       ELSE NextCase(records, "update")

Running ==
    /\ screen.step = "run"
    /\ options.onlyCandidates => Current.candidate

SkipRun ==
    /\ screen.step = "run" /\ ~Running
    /\ NextCase(screen.records, "update")
    /\ UNCHANGED <<options, pool, constrained, latest, proven>>

\* A task whose latest row is one of these is done: run makes no attempt.
Finished == {"built", "target_state"}

\* The record of a run that answered with the row of attempt a.
RunAnswered(a, exhausted) ==
    Reloaded([Current EXCEPT !.status = a.row, !.runFailure = a.type,
                             !.exhausted = exhausted], a)

\* run made attempts; the last of them is what counts.
Run ==
    /\ Running /\ latest[Task].row \notin Finished \cup {"missing"}
    /\ \E a \in Attempts :
         /\ latest' = [latest EXCEPT ![Task] = a]
         /\ proven' = proven \cup {t \in {Task} : Good(a)}
         /\ EndRun(RunAnswered(a, FALSE))
    /\ UNCHANGED <<options, pool, constrained>>

\* run made none: the task is finished or its budget is.
RunStops ==
    /\ Running
    /\ \E exhausted \in BOOLEAN :
         /\ latest[Task].row \in Finished \cup {"failed"} \cup {s \in {"running"} : exhausted}
         /\ EndRun(RunAnswered(latest[Task], exhausted))
    /\ UNCHANGED <<options, pool, constrained, latest, proven>>

\* The command failed, or its process groups were killed after the timeout: before
\* it made an attempt, or anywhere in its last one, whose records may all be there.
RunBreaks ==
    /\ Running
    /\ \E a \in {latest[Task]} \cup (IF latest[Task].row \in Finished \cup {"missing"} THEN {}
                                     ELSE Attempts \cup Halves),
          how \in {<<"timeout", "run_timeout">>, <<"error", "run_error">>} :
         /\ latest' = [latest EXCEPT ![Task] = a]
         /\ proven' = proven \cup {t \in {Task} : Good(a)}
         /\ EndRun(Reloaded([Current EXCEPT !.status = how[1], !.failure = how[2],
                                            !.runFailure = how[2]], a))
    /\ UNCHANGED <<options, pool, constrained>>

\* An answer without JSON, or a file written by half, is no RuntimeError: the
\* screening ends, and what it found is lost.
RunGarbled ==
    /\ Running /\ latest[Task] # NoTask
    /\ screen' = [screen EXCEPT !.step = "broken"]
    /\ UNCHANGED <<options, pool, constrained, latest, proven>>

\* positive_acceptance_evidence_ok.
EvidenceOk(r) ==
    /\ r.tier = Confirmed
    /\ r.bucket # "kpatch_constraint" /\ r.known # "kpatch_constraint_pool"
    /\ FailureType(r) \notin Blocked
    /\ Good(r.attempt)

UpdatePool ==
    /\ screen.step = "update"
    /\ pool' = IF options.update
               THEN pool \cup {r.cve : r \in {r \in ToSet(screen.records) : EvidenceOk(r)}}
               ELSE pool
    /\ GoOn("done", screen.records)
    /\ UNCHANGED <<options, constrained, latest, proven>>

ScreenInit ==
    /\ options \in CommandLines
    /\ \E k \in KnownPools : pool = k.positive /\ constrained = k.constrained
    /\ latest \in [Tasks -> Leftovers]
    /\ proven = {t \in Tasks : Good(latest[t])}
    /\ screen \in [step : {"analyze"}, list : Batches, at : {1}, records : {<<>>}]

ScreenNext ==
    \/ Analyze \/ AnalyzeFails
    \/ GateKnownPools \/ GateModules \/ GateScores
    \/ PrepareBaseline
    \/ SkipRun \/ Run \/ RunStops \/ RunBreaks \/ RunGarbled
    \/ UpdatePool

ScreenSpec == ScreenInit /\ [][ScreenNext]_poolVars

----------------------------------------------------------------------------
(* Properties *)

ScreenTypeOK ==
    /\ options \in CommandLines
    /\ pool \subseteq CVEs
    /\ latest \in [Tasks -> Known]
    /\ screen.at \in 1..Len(screen.list)
    /\ \A r \in ToSet(screen.records) : r.cve \in CVEs /\ r.runs \in 0..options.maxRuns

\* A CVE joins the pool after this screening ran its task, on the evidence of an
\* attempt of that task that was built for this kernel and passed, and which is
\* still the task's latest unless another CVE on the list has the same task.  The
\* run need not have made it: an earlier screening's counts (RunStops), and, of a
\* shared task, the other CVE's.  None that is known to be constrained joins, unless
\* the command line says so (update_positive_pool_fixture).
PoolIsEarned ==
    [][\A c \in pool' \ pool :
          /\ TaskOf[c] \in proven
          /\ c \in constrained => options.includeKnown
          /\ \E r \in ToSet(screen.records) : r.cve = c /\ r.runs > 0 /\ Good(r.attempt)
          /\ \/ Good(latest[TaskOf[c]])
             \/ \E d \in ToSet(screen.list) \ {c} : TaskOf[d] = TaskOf[c]
      ]_pool

\* Whoever was run and ends with such an attempt does join, if its task is its own
\* and it is not known to be constrained: whatever its earlier runs met, a timeout
\* or a constraint, and even if the run that made the attempt was killed after it.
ProvenFixesJoin ==
    (screen.step = "done" /\ options.full /\ options.update) =>
        \A r \in ToSet(screen.records) :
            (/\ r.runs > 0 /\ Good(latest[TaskOf[r.cve]])
             /\ \A d \in ToSet(screen.list) \ {r.cve} : TaskOf[d] # TaskOf[r.cve]
             /\ r.known # "kpatch_constraint_pool")
                => r.cve \in pool

=============================================================================
