---------------------------- MODULE DecisionPolicy ----------------------------
(***************************************************************************)
(* What the agent concludes from one look at a task: the observation that  *)
(* AgentObservation.from_runtime builds out of the task row, the latest    *)
(* attempt, its failure record and its validation report, and the decision *)
(* DecisionPolicy.decide takes on it.  Everything here is a pure operator: *)
(* the modules that keep state (TaskRunner, AgentRuntime) EXTEND it.       *)
(*                                                                         *)
(* "none" stands for None, and for the failure type "none" that a built    *)
(* attempt's record carries (from_runtime folds the two together).         *)
(***************************************************************************)
EXTENDS Naturals

----------------------------------------------------------------------------
(* Vocabulary of the tables *)

TaskStatus == {"created", "analyzed", "running", "failed", "built", "target_state"}

AttemptStatus == {"running", "failed", "built", "target_state"}

\* The two outcomes after which no further attempt is worth making.
Success == {"built", "target_state"}

\* Types decide() stops on before it looks at the route.
StopFailures ==
    {"source_unavailable", "target_already_patched", "build_cache_incomplete"}

RetryableFailures ==
    {"dependency_gap", "patch_apply_failed", "ineffective_retry",
     "kpatch_constraint", "kpatch_symbol_bundle_constraint",
     "kpatch_section_symbol_offset_constraint"}

\* Types with no rule of their own: decide() stops on them unless the route
\* of the attempt was ineffective.
OtherFailures ==
    {"compile_failed", "feature_not_enabled", "target_arch_mismatch",
     "kernel_src_missing", "kernel_config_missing", "vmlinux_missing",
     "unsupported_livepatch", "unfixable_by_livepatch", "unknown",
     "kpatch_constraint_unresolved", "validation_failed", "action_failed"}

FailureTypes ==
    StopFailures \cup RetryableFailures \cup OtherFailures \cup {"build_env_missing"}

ValidationStatus == {"passed", "failed", "partial", "pending"}

\* Mutant: an attempt without a module is reported as skipped.
ValidationOutcomesSkipped(status) ==
    IF status = "built" THEN {"passed", "failed", "partial"} ELSE {"skipped"}

\* Only a built module is loaded and exercised; the report of any other
\* attempt stays pending, or fails on its patch's precheck or on repeating a
\* failure.  Validation shows that the validator keeps to this.
ValidationOutcomes(status) ==
    IF status = "built" THEN {"passed", "failed", "partial"} ELSE {"pending", "failed"}

\* The fields of failure_record.json that a decision reads.
FailureRecords == [failure : FailureTypes \cup {"none"}, ineffective : BOOLEAN]

NoFailure == [failure |-> "none", ineffective |-> FALSE]

----------------------------------------------------------------------------
(* The observation *)

\* from_runtime: a failed validation report becomes a failure type of its
\* own when the attempt itself carries none.
ObservedFailure(record, validation) ==
    IF record.failure = "none" /\ validation = "failed"
    THEN "validation_failed"
    ELSE record.failure

----------------------------------------------------------------------------
(* DecisionPolicy.decide, on the latest attempt's status, the observed     *)
(* failure type and whether the attempt's route was ineffective            *)

\* Mutant: a built attempt is not taken for done.
PolicyReportsTargetOnly(status) == status = "target_state"

PolicyReports(status) == status \in Success

PolicyRetries(status, failure, ineffective) ==
    /\ ~PolicyReports(status)
    /\ \/ failure \in RetryableFailures
       \/ ineffective /\ failure \notin StopFailures \cup {"build_env_missing"}

\* The repair of the build tree is chosen while its counter is below one;
\* nothing in the program ever writes that counter, so it always is.  The
\* decision neither retries nor ends the task.
PolicyRepairs(status, failure) ==
    ~PolicyReports(status) /\ failure = "build_env_missing"

\* AgentDecision.terminal.
PolicyStops(status, failure, ineffective) ==
    /\ ~PolicyRetries(status, failure, ineffective)
    /\ ~PolicyRepairs(status, failure)

\* AgentDecision.selected_action.
Decide(status, failure, ineffective) ==
    CASE PolicyReports(status) -> "report"
      [] PolicyRepairs(status, failure) -> "repair_build_source_tree"
      [] PolicyRetries(status, failure, ineffective) -> "retry_with_strategy"
      [] OTHER -> "stop_manual_review"

=============================================================================
