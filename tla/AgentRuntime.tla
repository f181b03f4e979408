----------------------------- MODULE AgentRuntime -----------------------------
(***************************************************************************)
(* The agent that patchweaver.agent.langgraph_runtime drives over a task   *)
(* created with auto_run: up to MaxSteps rounds of observe, plan, guard,   *)
(* execute and route.  Its actions run the same analysis and attempt code  *)
(* as the commands of TaskRunner, through AgentActionRegistry.execute; the *)
(* other callers may issue commands on the same task meanwhile.            *)
(*                                                                         *)
(* The planner is DecisionPolicy's fallback rules, or a language model     *)
(* that may choose any action offered to it (UseModel).  Traces,           *)
(* checkpoints and reflections are left out: run() reads the checkpoint    *)
(* only to report that it resumed, and reflections reach the guard as the  *)
(* free choice of refusing a retry.                                        *)
(***************************************************************************)
EXTENDS TaskRunner

CONSTANTS
    Agent,      \* the caller that runs the graph
    MaxSteps,   \* max_steps, 8 in the program
    UseModel    \* whether a chat model is configured

ASSUME AgentIsCaller == Agent \in Callers
ASSUME MaxStepsPositive == MaxSteps \in Nat \ {0}
ASSUME UseModelBoolean == UseModel \in BOOLEAN

VARIABLES
    stage,      \* the node of the graph the agent is at
    step,       \* step_index
    seen,       \* the observation of this step
    action,     \* the registry action being executed
    grabbed,    \* the task row registry.execute read before the action
    reported,   \* reports/report.json exists
    replayed    \* a replay is recorded in the agent's trace

agent == <<stage, step, seen, action, grabbed, reported, replayed>>
agentVars == <<vars, agent>>

RegistryActions ==
    {"analyze_task", "run_task", "report_task", "replay_task", "stop_manual_review"}

ConsumesAttempt == {"run_attempt", "run_task", "retry_with_strategy"}

\* AUTO_RUN_AVAILABLE_ACTIONS, what the model may choose from.
Offered ==
    RegistryActions \cup ConsumesAttempt \cup {"analyze_source", "report", "replay"}

\* PLAN_TO_EXECUTABLE_ACTION.
Executable(a) ==
    CASE a = "analyze_source" -> "analyze_task"
      [] a \in ConsumesAttempt -> "run_task"
      [] a = "report" -> "report_task"
      [] a = "replay" -> "replay_task"
      [] OTHER -> a

\* PolicyGuard.TERMINAL_FAILURE_TYPES.
TerminalFailures ==
    {"source_unavailable", "build_env_missing", "kernel_src_missing",
     "kernel_config_missing", "vmlinux_missing", "build_cache_incomplete"}

Concluded == {"passed", "failed", "partial"}

Observations ==
    [status : TaskStatus, current : Nat, latestNo : Nat,
     latest : AttemptStatus \cup {"none"}, failure : FailureTypes \cup {"none"},
     ineffective : BOOLEAN, validation : ValidationStatus,
     reported : BOOLEAN, replayed : BOOLEAN]

AgentTypeOK ==
    /\ TypeOK
    /\ stage \in {"off", "observe", "plan", "execute", "route", "stopped", "dead"}
    /\ step \in 0..MaxSteps
    /\ seen \in Observations
    /\ action \in RegistryActions
    /\ grabbed \in [status : TaskStatus, current : Nat]
    /\ reported \in BOOLEAN
    /\ replayed \in BOOLEAN

----------------------------------------------------------------------------
(* _observe *)

SourceUnavailable == [failure |-> "source_unavailable", ineffective |-> FALSE]

\* The record behind an observation: the latest attempt's file, else the one
\* the analysis left (a later analysis that succeeds does not remove it).
AgentRecord(n, failure) ==
    IF n \in DOMAIN records THEN records[n]
    ELSE IF analysis.failure THEN SourceUnavailable
    ELSE [failure |-> failure, ineffective |-> FALSE]

Observed(n, status, failure) ==
    LET record == AgentRecord(n, failure) IN
    [status |-> task.status, current |-> task.current, latestNo |-> n,
     latest |-> status,
     failure |-> ObservedFailure(record, ValidationOf(n)),
     ineffective |-> record.ineffective, validation |-> ValidationOf(n),
     reported |-> reported, replayed |-> replayed]

\* What a look at the store can yield now.
Views ==
    IF attempts = <<>>
    THEN {Observed(0, "none", "none")}
    ELSE {Observed(attempts[i].no, attempts[i].status, attempts[i].failure) : i \in LatestRows}

----------------------------------------------------------------------------
(* LLMPlanner.plan *)

ShouldReplayAfterReport(o) ==
    /\ o.reported /\ ~o.replayed
    /\ \/ o.validation \in Concluded
       \/ o.latest \in Success
       \/ o.status \in Success \cup {"failed"} /\ o.failure # "none"

ShouldReport(o) == o.validation \in Concluded \/ o.latest = "built"

NeedsSourceAnalysis(o) ==
    /\ o.failure = "none" /\ o.latestNo = 0 /\ o.current = 0
    /\ o.status = "created"

LooksConfirmedPositive(o) == o.failure = "none" /\ o.status \in {"running", "analyzed"}

\* _fallback_plan: the first rule that applies.
FallbackPlan(o) ==
    IF ShouldReplayAfterReport(o) THEN "replay_task"
    ELSE IF ShouldReport(o) THEN "report_task"
    ELSE IF NeedsSourceAnalysis(o) THEN "analyze_task"
    ELSE IF LooksConfirmedPositive(o) THEN "run_task"
    ELSE Decide(o.latest, o.failure, o.ineffective)

RepeatsCompletedAnalysis(a, o) ==
    /\ a \in {"analyze_source", "analyze_task"}
    /\ o.status = "analyzed" /\ o.failure = "none" /\ o.latestNo = 0 /\ o.current = 0

RepeatsAfterValidationResult(a, o) == a \in ConsumesAttempt /\ o.validation \in Concluded

\* The model's choice, or the fallback when there is no model, when it fails
\* to answer, and when it repeats what is done.
Plans(o) ==
    {FallbackPlan(o)} \cup
    {a \in Offered :
        /\ UseModel
        /\ ~RepeatsCompletedAnalysis(a, o)
        /\ ~RepeatsAfterValidationResult(a, o)}

----------------------------------------------------------------------------
(* PolicyGuard.validate_plan *)

\* The repair of the build tree is on no whitelist.
Whitelisted(a) == a \in Offered

\* Mutant: the guard lets one attempt too many pass.
BudgetLeftOrSpent(o) == o.current <= MaxAttempts

BudgetLeft(o) == o.current < MaxAttempts

\* Mutant: the guard does not look at the failure type.
GuardAllowsAnyFailure(a, o) == Whitelisted(a) /\ (a \in ConsumesAttempt => BudgetLeft(o))

GuardAllows(a, o) ==
    /\ Whitelisted(a)
    /\ a \in ConsumesAttempt => BudgetLeft(o) /\ o.failure \notin TerminalFailures

\* An ineffective-retry hint among the reflections refuses a retry, and a
\* model may declare its plan high-risk without evidence.
GuardMayRefuse(a) == a = "retry_with_strategy" \/ UseModel

----------------------------------------------------------------------------
(* The nodes of the graph *)

Stopped == stage' = "stopped"

\* The background task that create_task schedules; it runs once.
StartAgent ==
    /\ stage = "off" /\ At(Agent, "idle")
    /\ stage' = "observe"
    /\ step' = 1
    /\ UNCHANGED <<vars, seen, action, grabbed, reported, replayed>>

Observe ==
    /\ stage = "observe"
    /\ seen' \in Views
    /\ stage' = "plan"
    /\ UNCHANGED <<vars, step, action, grabbed, reported, replayed>>

\* The guard refused the plan: run() ends, whatever the refusal says.
Refuse ==
    /\ stage = "plan"
    /\ \E a \in Plans(seen) : ~GuardAllows(a, seen) \/ GuardMayRefuse(a)
    /\ Stopped
    /\ UNCHANGED <<vars, step, seen, action, grabbed, reported, replayed>>

\* registry.execute reads the task row and enters the handler.
Execute ==
    /\ stage = "plan"
    /\ \E a \in Plans(seen) :
          /\ GuardAllows(a, seen)
          /\ action' = Executable(a)
          /\ grabbed' = task
          /\ \/ /\ Executable(a) = "analyze_task"
                /\ Started(Agent, "analyze", "fetch")
                /\ UNCHANGED issued
             \/ /\ Executable(a) = "run_task"
                /\ Started(Agent, "attempt", "load")
                /\ UNCHANGED issued
             \/ /\ Executable(a) \in {"report_task", "replay_task"}
                /\ \E failure \in BOOLEAN : raised' = [raised EXCEPT ![Agent] = failure]
                /\ UNCHANGED <<store, pc, cmd, no, known, result, issued>>
             \/ /\ Executable(a) = "stop_manual_review"
                /\ raised' = [raised EXCEPT ![Agent] = FALSE]
                /\ UNCHANGED <<store, pc, cmd, no, known, result, issued>>
    /\ stage' = "execute"
    /\ UNCHANGED <<step, seen, reported, replayed>>

\* The except branch of execute: a failed action of a task that was created
\* when execute began marks it failed, with the attempt number of that moment.
AfterException(t) ==
    IF raised[Agent] /\ grabbed.status = "created"
    THEN [status |-> "failed", current |-> grabbed.current]
    ELSE t

Return ==
    /\ stage = "execute" /\ At(Agent, "idle")
    /\ task' = AfterException(task)
    /\ reported' = (reported \/ (action = "report_task" /\ ~raised[Agent]))
    /\ stage' = "route"
    /\ UNCHANGED <<attempts, analysis, records, reports, local, issued,
                   step, seen, action, grabbed, replayed>>

\* Mutant: a report ends the run.
RouteEndsOnReport(after) ==
    \/ action \in {"report_task", "replay_task", "stop_manual_review"}
    \/ raised[Agent] /\ ~(action = "analyze_task" /\ after.failure \in TerminalFailures)
    \/ ~raised[Agent] /\ action = "run_task" /\ after = seen
    \/ ~raised[Agent] /\ step >= MaxSteps

\* _route, on the observation after the action.
RouteEnds(after) ==
    \/ action \in {"replay_task", "stop_manual_review"}
    \/ raised[Agent] /\ ~(action = "analyze_task" /\ after.failure \in TerminalFailures)
    \/ ~raised[Agent] /\ action = "run_task" /\ after = seen
    \/ ~raised[Agent] /\ step >= MaxSteps

Route ==
    /\ stage = "route"
    /\ replayed' = (replayed \/ action = "replay_task")
    /\ \E after \in Views :
          \/ RouteEnds(after) /\ Stopped /\ UNCHANGED step
          \/ /\ ~RouteEnds(after) /\ step < MaxSteps
             /\ stage' = "observe" /\ step' = step + 1
          \/ ~RouteEnds(after) /\ step = MaxSteps /\ Stopped /\ UNCHANGED step
    /\ UNCHANGED <<vars, seen, action, grabbed, reported>>

\* The process dies, or the planner raises on an answer out of its schema.
Die ==
    /\ stage \notin {"off", "stopped", "dead"}
    /\ stage' = "dead"
    /\ IF At(Agent, "idle") THEN UNCHANGED local ELSE Ended(Agent, TRUE)
    /\ UNCHANGED <<store, issued, step, seen, action, grabbed, reported, replayed>>

AgentInit ==
    /\ Init
    /\ stage = "off" /\ step = 0
    /\ reported = FALSE /\ replayed = FALSE
    /\ seen = Observed(0, "none", "none")
    /\ action = "analyze_task"
    /\ grabbed = task

\* The agent's own handlers may raise like anybody's; registry.execute
\* catches that, so the graph goes on.
AgentStep ==
    \/ StartAgent \/ Observe \/ Refuse \/ Execute \/ Return \/ Route
    \/ Proceed(Agent) /\ UNCHANGED agent

OthersStep ==
    \E c \in Callers \ {Agent} :
        StartAnalyze(c) \/ StartRun(c) \/ Abort(c) \/ Proceed(c)

AgentNext ==
    \/ AgentStep
    \/ Die
    \/ Abort(Agent) /\ UNCHANGED agent
    \/ OthersStep /\ UNCHANGED agent

AgentSpec == AgentInit /\ [][AgentNext]_agentVars

----------------------------------------------------------------------------
(* Properties *)

\* policy_guard.py, "the retry budget is spent, no further attempt may be
\* consumed": an agent alone on its task stays within max_attempts.
AgentBudget == AttemptBudget

\* A failure the guard calls terminal consumes no further attempt, and
\* neither does one that has a validation result, whoever makes the plan.
NoAttemptAfterVerdict ==
    \A i \in 1..Len(attempts) - 1 :
        /\ RecordOf(attempts[i].no, attempts[i].failure).failure \notin TerminalFailures
        /\ ValidationOf(attempts[i].no) \notin Concluded

\* An agent that ran to its end without an exception has reported and
\* replayed a task that succeeded: the steps suffice for the budget and for
\* both closing actions.
SuccessIsReplayed ==
    (/\ stage = "stopped" /\ ~raised[Agent]
     /\ \E i \in 1..Len(attempts) : attempts[i].status \in Success)
        => reported /\ replayed

=============================================================================
