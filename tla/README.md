# PatchWeaver in TLA+

PatchWeaver turns a kernel CVE into a livepatch. For each CVE it keeps a *task*; it
fetches the upstream fix, analyses it, and then makes *attempts*: plan a recipe, rewrite
the patch, build it with kpatch, load and validate the module, record what happened, and
decide whether another attempt is worth making. A background agent, planned by fixed
rules or by a language model, can drive a task from creation to replay, and a script
screens whole lists of CVEs through the same commands.

This directory specifies that program where it is hard to be right: the task state that
several commands, processes and the agent read and write without a lock, the decisions
they take on it, what one attempt does on the machine it runs on, and how a version gets
there. The source is
`src/patchweaver` (with `src/scripts` and `src/web`); every definition names its lines in
`PROJECT.json` under `map`.

## 1. The system: components, state, operations

| Component (source) | State it keeps | Operations | How it meets the others | Modelled in |
|---|---|---|---|---|
| Task repository (`storage/task_repo.py`) | `tasks`: status, current_attempt, max_attempts | create_task, get_task, update_task_status, next_task_id, find_latest_equivalent_task | one SQLite connection and commit per call | TaskRunner, TaskCreation |
| Attempt repository (`storage/attempt_repo.py`) | `attempts`, build and validation tables | next_attempt_no, save_attempt, list_attempts, save_failure_record, save_validation_report | looks up on one connection, writes on another; attempt_id is not UNIQUE | TaskRunner |
| Analysis service (`coordinator/services.py`) | `analysis/*.json` | fetch, draft card, enrich, constraint report, publish | called by analyze, by run when the card is missing, by the agent | TaskRunner, TaskPage |
| Attempt execution service (`coordinator/services.py`) | `attempts/NNN/**` | number, seed, plan, rewrite, build, diagnose, record, validate, finish | calls everything below; writes both repositories | TaskRunner, RepairLoop, TaskPage |
| Task runner (`coordinator/task_runner.py`) | none | terminal check, budget check, attempt loop, retry decision | CLI, API and registry call it | TaskRunner |
| Decision policy (`agent/policy.py`, `agent/state.py`) | none | from_runtime, decide | task runner and fallback planner ask it | DecisionPolicy |
| Agent runtime (`agent/langgraph_runtime.py`, `planner.py`, `policy_guard.py`, `registry.py`) | trace, checkpoint | observe, plan, guard, execute, route | runs the services in a background thread | AgentRuntime |
| Planner (`planner/`, `analyzer/constraint_service.py`) | none | diagnose, plan, rank | reads the analysis and the hints of the memory | Planning |
| Reflection and memory (`agent/reflection.py`, `agent/planning.py`, `memory/`) | JSON documents shared by all tasks | record, hints | every attempt of every task reads, changes and rewrites them | Memory, RepairLoop, SharedMemory |
| Rewriter (`rewriter/`) | `rewritten.patch` | drop risky hunks, keep guards, apply precheck | its report and its text steer effectiveness and retries | PatchRewrite, TaskPage |
| Builder (`builder/orchestrator.py`) | trees an attempt makes | probe, tree selection, precheck, reversal, copy, cache, kpatch-build, cleanup; targets and options | works in trees all tasks share | BuildFlow, BuildTargets |
| Source preparation (`builder/source_preparer.py`) | kernel trees, `build.yaml` | prepare tree, prepare baseline, preflight | commands and attempts rewrite one settings file | SourceTrees |
| Failure classifier (`builder/failure_classifier.py`) | none | rules over the log, model | its type decides on retries | FailureClassifier |
| Validator (`validator/`) | the running kernel | precheck, load, unload, smoke, guard, regression | validations share one kernel | Validation |
| Retriever (`retriever/`) | `data/cache` | references, series, candidates, fetch with retries | network, a local mirror and a cache that outlives it | FixSources |
| Sample screening (`scripts/screen_challenge_pool.py`, `harness/`) | positive pool fixture | analyze, gates, runs, classification, pool update | starts the command line; reads what it left | PoolScreening |
| Task creation (`task_query_service.py`, CLI) | workspace, row | dedupe, id, workspace, insert, schedule agent | HTTP and CLI | TaskCreation |
| Task page (`task_query_service.py`, `api/routers/tasks.py`, `src/web`) | the page on the screen | derive stages and outcome, fingerprint, refetch | reads rows and files while a command writes them | TaskPage |
| Deployment and service (`scripts/upload_to_validation.py`, `install_patchweaver.py`, `deploy_patchweaver.py`, `api/service_manager.py`) | the code, environment, settings and service of the validation machine | pack, clean, extract, reconcile, prepare, install, register, smoke check | remote commands without undo, beside systemd and whoever works on the machine | Deployment |
| Reporter, replay, doctor, catalog, chat, RAG | reports | render what is stored | read the stores | not modelled |

What is hard:

* **Concurrency.** FastAPI runs the handlers in a thread pool, the agent runs in a
  background thread, the CLI in processes of its own; nothing locks a task, the memory,
  `build.yaml`, a kernel tree or the running kernel. Check and act are far apart.
* **Failure between writes.** An attempt makes a dozen separate commits and file writes.
  A crash between any two leaves a task the next command must be able to take up, a page
  that must not mislead, a tree that is half prepared, a module in the kernel.
* **Stale data.** The guard reads `tasks.current_attempt`, which a re-analysis resets;
  the builder measures a tree once and then moves to another; a precheck's verdict
  outlives the tree it was about; a cache answers with an error page of last week.
* **Order of rules.** Failure types, prechecks, candidate routes, Makefile gates and
  patch sources are each decided by the first rule that matches, in lists that overlap.
* **Bounds.** Retries end by a budget, requests by a count, the agent by a step limit
  that must suffice for the whole budget plus report and replay.

What makes each component correct is in the comment of each property; the hazards they
answer are listed in `PROJECT.json`, each at its line.

## 2. Modules

    DecisionPolicy  <-  TaskRunner  <-  AgentRuntime  <-  MCAgentRuntime
          ^               |   \
          |        AttemptLedger  MCTaskRunner
          |        (INSTANCE)
          |
          +-----  RepairLoop  <-  MCRepairLoop
          |           |
          |         Memory  ->  Planning
          |           ^
          |      SharedMemory --+
          +----  Validation ----+
      FailureClassifier         |
          ^                     v
      BuildFlow  ------------> HostRuns  <-  MCHost
      PatchRewrite, SourceTrees, FixSources,
      BuildTargets, PoolScreening, TaskPage,
      Deployment -------------> HostRuns

    TaskCreation  <-  MCTaskCreation
    TaskRunner <- TaskRunner_proof <- AgentRuntime_proof
    RepairLoop, SharedMemory <- Memory_proof
    TaskCreation, PatchRewrite, Validation <- TaskParts_proof
    BuildFlow <- BuildFlow_proof, BuildTargets <- BuildTargets_proof
    Deployment, TaskPage, SourceTrees, FixSources,
    PoolScreening <- HostParts_proof
    ListFacts (lemmas on numbers and lists)
        <- Memory_proof, HostParts_proof, BuildTargets_proof

**The task and its attempts**

* **DecisionPolicy** (`agent/policy.py`, `agent/state.py`): pure operators. The 22
  failure types are grouped by the rule of `decide` that treats them; an observation
  is a failure type, an attempt status and whether the route was ineffective.
* **TaskRunner** (`coordinator/`, `storage/`): one task and a set of `Callers`. State in
  the store: `task` (the row), `attempts` (the rows in insertion order, because two may
  carry one number), `analysis` (which files exist), `records` and `reports` (the JSON
  files of each attempt number). State of a caller: `pc`, the number it holds, what its
  lookup answered,
  the attempt record in its memory. Each action is one write, or one read whose answer is
  carried across a later write:

  | Action | Code |
  |---|---|
  | CheckTerminal, CheckBudget, DecideRetry | `run_task` and its three helpers |
  | LoadInputs | the files `AttemptExecutionService.run` starts from |
  | TakeNumber, LookupRow, SeedAttempt, MarkRunning | `next_attempt_no`, the two halves of `save_attempt`, `update_task_status` |
  | Build, Diagnose, WriteFailureRecord, Validate, FinishAttempt | the rest of the attempt, in its order |
  | FetchSource, FailSource, RecordSourceFailure, WriteConstraintReport, PublishAnalysis | `AnalysisService.run` |
  | Abort | an exception, or the death of the process, at any of these points |

  The later calls of `save_attempt` (Build, Diagnose) are one step each: their row
  exists already (`WritesFindTheirRow`) and rows are never deleted, so lookup and
  update cannot disagree. A decision reads its row and its two files in one step; a
  caller's own files do not change under it unless another caller holds its number.
* **AttemptLedger**: what the attempts of a task promise, as an abstract specification:
  opened one at a time within the budget, never after a success; only the newest one is
  closed, once. TaskRunner with one caller implements it (`LedgerKept`).
* **AgentRuntime** (`agent/`): EXTENDS TaskRunner; the agent is one of the callers and
  reaches the same analysis and attempt actions through Execute, as
  `AgentActionRegistry.execute` does, with single attempts instead of `run_task`. Its own
  state is the node of the graph, the step, the observation, the action, the task row the
  registry read beforehand, and whether report and replay exist. The planner is the
  fallback rules or, with `UseModel`, any offered action that passes the planner's own
  filters. The runtime modelled is the graph one (`PATCHWEAVER_AGENT_RUNTIME=langgraph`,
  which `scripts/restart_dev_api_from_source.sh` deploys), not the legacy sequence.
* **TaskCreation** (`storage/task_repo.py`, `task_query_service.py`, `cli/app.py`): the
  tasks table as a sequence of rows, the workspaces, the scheduled agents, and creators
  that each take an id, search for an equivalent task, write the workspace, insert and
  answer, one step each, or die. An id is a date with a serial, ordered as text.

**What attempts learn**

* **Planning** (`planner/`, `analyzer/constraint_service.py`): pure operators, from the
  risk rules a patch matches to the ordered candidates, with the planner's own numbers as
  integers. Run beside the Python classes on 12 288 inputs, the translation gave the same
  plan on all but one, where a score ends in exactly one half and Python rounds a float.
* **Memory** (`memory/`, `agent/planning.py`): the two documents as lists, what recording
  adds, and the hints the next plan gets (retry routes, avoided recipes, the agent's
  requirements).
* **RepairLoop** (`services.py`, `agent/reflection.py`, `rewriter/effectiveness.py`): one
  task. SeedAttempt (the row), PlanAttempt (the plan), RewriteAttempt (the patch and its
  comparison with the one before), BuildAttempt (diagnosis, unresolved verdict), Reflect,
  Remember, DecideNext, and Crash between any two: an attempt may have a row and no plan,
  or a plan and no patch, and the next one is then compared with nothing.

**What happens on the machine** (parts of HostRuns)

* **BuildFlow** (`builder/orchestrator.py`, with **FailureClassifier**): StartBuild to
  FileFailure, one action per early return or change of tree of `_execute_local_build`.
  `trees` are the configured ones, `made` those the attempt made, `damaged` those a killed
  kpatch-build left patched. A log is the set of phrases the rules search for.
* **BuildTargets** (`orchestrator.py`, `config_repair.py`): Makefiles as sequences of
  gated lines, the configuration, modinfo's dependencies; CheckArch, CheckEnabled, Infer
  and MergeFragment (the repair of the configuration). The depth-first search for
  dependencies is a function of the levels that are left: `OneFurther` is one level of
  `visit`, `Visited` the body of its loop, `NotFurther` its first return. `survey` has the
  two switches of the build configuration (`auto_build_targets`,
  `auto_expand_module_dependencies`) and the queries modinfo leaves unanswered, by failing
  or by its timeout; all of them if it is not installed. What goes unanswered is chosen
  anew for the build after a merge.
* **PatchRewrite** (`rewriter/executor.py`, `section_change.py`, `semantic_guard.py`): a
  hunk is what the heuristics found in it; KeepRequired is one pass over a file, NextFile
  goes on, WritePatch ends with the report.
* **Validation** (`validator/`): attempts validated at the same time in one kernel, one
  action per test.
* **SharedMemory** (`memory/repository.py`): the recording of an attempt as eight steps of
  writers that overlap and die. `write_text` truncates, then writes.
* **SourceTrees** (`source_preparer.py`, the preflight in `services.py`): jobs that work on
  directories step by step and read, truncate and write `build.yaml`.
* **FixSources** (`repair_chain.py`): one resolution, request by request: fresh cache,
  tries, stale cache, next address, next commit, mirror. A commit has two servers, a
  reference that is a `.patch` file itself only its own address.
* **PoolScreening** (`screen_challenge_pool.py`, `sample_pool.py`, `livepatchability.py`): a
  batch from Analyze over the gates to Run and UpdatePool. An attempt is its row and what
  its files show; a built one has a failure record too, which says "none", and what the
  latest attempt says replaces what a record had from earlier runs. A run makes attempts
  (Run), makes none because the task is finished or its budget is (RunStops), or fails or is
  killed after its timeout anywhere in its last attempt or after it (RunBreaks).
* **TaskPage** (`task_query_service.py`, `services.py`, `diff_editor.py`, `useTaskEvents.ts`):
  the commands again, one action per write, this time for those who look on. `store` has
  the rows and files the page reads, `Page(store)` is `get_task_detail`, `client` says
  whether the fingerprint changed (unseen), the refetch is due (asked) and what is on the
  screen is old (behind).
* **Deployment** (`upload_to_validation.py`, `install_patchweaver.py`, `deploy_patchweaver.py`,
  `service_manager.py`): one rollout after another, each a command line from `Plans`, step
  by step; `Fail` ends one anywhere, with what the command had done by then (`HalfDone`).
  `machine` is the directory on the validation machine (which versions have files in it,
  whether a replacement broke off), its interpreters and its kernel tree; `unit` is the
  service systemd knows, its process, and a server started by hand on the same port.
* **HostRuns** composes them: `part` chooses the one at work and the others rest, since
  they meet only through TaskRunner and RepairLoop, which take each of them as one step
  with a few outcomes. Where such a step promises something, a part shows it: the
  outcomes of a validation (`OutcomesAsPromised`), the recording as one step
  (`KeptWhileAlone`).

Some definitions come in a second, wrong version directly before the right one (their
comments say *Mutant*): each is a plausible slip in the code, and a property of a run
below fails when it is substituted. They are used nowhere else.

## 3. Runs

| Run | Instance | Properties | What it shows |
|---|---|---|---|
| `serial` | 1 caller, budget 3, 3 commands | TypeOK, NumberedInOrder, RetriesFollowPolicy, TaskShowsItsAttempt, HistoryIsEarlier, LedgerKept | one caller at a time, dying wherever it likes, keeps every promise of the ledger, the budget among them, and the validator compares an attempt with those before it |
| `concurrent` | 2 callers, budget 2, 2 commands, fair | OverrunBounded, CommandsEnd | what is left when two commands race |
| `agent_fallback` | agent alone, budget 5, 8 steps | AgentTypeOK, AgentBudget, SuccessIsReplayed | the rule-planned agent with the program's own numbers |
| `agent_model` | agent alone, budget 2, 5 steps, model | NoAttemptAfterVerdict | whatever a model plans, no attempt follows a verdict |
| `agent_shared` | agent and 1 outside command, budget 1, 4 steps | WritesFindTheirRow | the agent races a run or an analysis |
| `budget_raced` | as `concurrent` | AttemptBudget, violated | finding 1 |
| `duplicate_attempt` | as `concurrent` | OneRowPerAttempt, violated | finding 2 |
| `agent_budget` | as `agent_model` | AgentBudget, violated | finding 3 |
| `creation` | 2 creators, 3 requests, 2 scopes, 2 days | TypeOK, OneTaskPerRequest, AgentFindsItsTask | racing creations make one task, and one agent that finds it |
| `day_full` | 1 creator, 4 requests, 1 day | NextIdIsNew, violated | finding 4 |
| `repair` | 1 task, budget 3, 1 crash, 60 patches, 7 build answers, a memory with another task's failure | LoopTypeOK, UnresolvedIsEarned, FailuresRemembered, RetryTakesAnotherRoute | attempts learn from their failures, also across a crash; what is given up was tried in patches that differ, unless an attempt died before its patch was written |
| `host` | the ten parts, one at a time | below | what one attempt, and those who work beside it, do on the machine |

The properties of `host`, part by part:

| Part | Properties | What is shown |
|---|---|---|
| build | GeneratedTreesCleaned, VerdictBlamesTree, OverruledOnlyByApply | trees an attempt made are gone when it returns; "patched already" is said only where a configured tree is; the classifier, which reads a log that also quotes trees tried and left, overrules the builder only with what git said |
| rewrite | ShrunkToLeast | the shrunk patch holds the safe hunks and what they need, and nothing else |
| validation | OutcomesAsPromised, PassedMeansTested, LeftoversShow | the outcomes TaskRunner allows are all there are; "passed" stands for the tests that were on; a validation that leaves its module in the kernel says so |
| memory | KeptWhileAlone, NeverOverstated | nothing is lost while no two writers overlap; when they do, attempts are forgotten, never invented |
| trees | SuccessLeavesWholeTree, SettingsKept | a job that reports success leaves a whole tree, also over what a broken-off one left; `build.yaml` keeps everybody's settings while nobody overlaps |
| sources | TakenInOrder | a commit is only fallen back on when the better ones are exhausted, and one of another series is never taken |
| targets | TargetsCoverThePatch, GivenUpForAnOption | the build makes whatever kbuild puts a touched file into, in the order of dependencies as far as modinfo answered, unless some chain of them is longer than it is followed; a build is refused for an option only where kbuild leaves the file out, and once the fragment is merged only for a gate none of whose options can be "m" |
| screening | PoolIsEarned, ProvenFixesJoin | a CVE joins the pool only after this screening ran its task and read an attempt of it that was built for this kernel and passed, be it an earlier screening's; whoever ends with such an attempt joins, whatever its runs met before |
| page | PageTellsTheOutcome, OpenPageCatchesUp | the page tells what became of the latest attempt, also while a command is at work, or lists the contradiction; an open page that is told of nothing more is up to date |
| deployment | MachineReady | a rollout that reports success left its own version on the machine and, if it registered the service, no service process of another, whatever earlier ones left half done and whoever was revived meanwhile |

HostTypeOK types them all.

**Bounds.** `MaxCommands` bounds the commands ever started, and nothing else is bounded
artificially in the pipeline: attempts are bounded by the budget check itself. In
`serial`, three commands let a second command meet the leftovers of an aborted first one
and a third meet those of both; budget 3 allows a retry, a crash and one more attempt.
Two callers with two commands are the smallest race; budget 2 lets each of them also
retry. The agent runs have the default budget 5 and `max_steps = 8`, where 8 is exactly
budget + 3 (analysis, report, replay), so SuccessIsReplayed is tight. `BuildFailures`
holds one type per rule of the policy that a build can reach: types of one rule are
interchangeable. In the creation runs a serial has two bits (Radix 2, Last 3) instead of
three digits, so that a day fills up within few requests; two scopes tell equal requests
from different ones, and two days let creators stand on either side of midnight.

In `repair`, three attempts are a first one, a retry, and a retry that knows of two
failures, which is what the verdict "unresolved" asks for; the patches have one report per
kind of preferred route, with and without guards, and the answers one failure per rule of
the decision plus two constraints with different signs. In `host`, a build has the three
kinds of tree it tells apart; three hunks of the first file can need one another in turn,
which takes two passes, and a second file follows one that is done; two validations are
enough to share a kernel; three writers let two lose the entry of a third; two jobs want
one baseline or two; a resolution has three commits, two tries for each address and one
write to the cache that fails, over four worlds that differ in series, references, mirror
and age of the cache; modinfo is followed two levels deep, so that a dependency of a
dependency is found, and there are five surveys: all queries
answered, none answered, a place and some names missing, either switch off; a batch has two CVEs whose tasks share a number, one of them in the
pool already; the page sees two commands, so that an analysis, a run or a report meets
what another left (three were also checked, with 897 757 states and the same result); two
rollouts let one that broke off, or an installation, precede one that ends (three were
also checked: 681 858 states, the same result), with seven command lines that differ in
what is cleaned, prepared, installed and tried.

Callers are not declared symmetric, because one run checks liveness and the others are
small enough. Deadlock is not checked: when all commands have ended and the bound is used
up, the agent has stopped, or a part of `host` has come to its answer, the system really
has nothing left to do.

**Fairness.** `FairSpec` asks weak fairness of each caller's own steps and of nothing
else: Python runs a handler that was started to its end and the calls it makes
(subprocesses, HTTP) have timeouts. Starting a command and dying are never fair, so
CommandsEnd says that a command ends by itself, not by being aborted.

## 4. Findings

1. **Budget raced** (`task_runner.py:267`): the budget check promises to stop repeated
   external runs from exceeding the budget; two concurrent ones both pass it. The
   overrun is bounded by the number of callers less one (OverrunBounded, proved).
2. **Duplicate attempt** (`attempt_repo.py:73`, `:102`): an attempt_id is said to be a
   key that is never inserted twice; two runs insert it twice, since lookup and insert
   are apart and the column is not UNIQUE.
3. **Agent budget** (`policy_guard.py:77`): the guard counts attempts by
   `current_attempt`, which a re-analysis resets, and the agent's single attempts skip
   `run_task`'s own check: with a budget of two, run, run, analyze, run makes three.
4. **Day full** (`task_repo.py:36`): `next_task_id` takes the highest number by the order
   of text; after numbers 999 and 1000 of a day it hands out 1000 again, and every
   further creation of that day fails.

The hazards in `PROJECT.json` without a property are modelled behaviour that nothing in the
repository promises to be otherwise. So are the following, met while modelling and kept
as the code has them:

* *Task page.* `analysis/failure_record.json` outlives a re-analysis that succeeds, so a
  task without attempts still reads as failed (`task_query_service.py:460`). A failed
  re-analysis blocks every stage while the summary still says success. A build that
  failed `not_run` on a switched tree is shown as skipped, and only the list of
  conflicts says otherwise.
* *Trees.* The installation of the compiler wrapper is not atomic
  (`orchestrator.py:1194-1243`); a `.ko` or a log of an earlier build can be found
  (`:2708`, `:2714`); the return for a tree that is not writable leaves the reverse tree
  behind (`:633-674`); a stable baseline is reused across fixes (`services.py:1147`).
* *Targets.* Two touched modules that need each other stay in the order of the patch when
  modinfo is missing, fails or takes longer than five seconds, without a word of it.
* *Learning.* An attempt after one that died before its patch was written counts as a first
  one, so that a constraint can be given up although all patches are alike
  (`effectiveness.py:35`). `disabled_strategies` never disables a strategy, the pressure of a failure
  counts twice, and `repair_build_env` is decided but never run (`policy.py:45`).
* *Sources.* A page that is not JSON, answered with status 200, is cached under the key
  that the next address reads first; an incomplete read ends the whole resolution; a
  cache that cannot be written counts as a network failure.
* *Configuration.* The least set of options includes gates that are on and sets them to
  `m`, which kconfig drops for a boolean one; an object that two composites share, or
  that is listed for both `y` and `m`, is misjudged.
* *Screening.* Only a RuntimeError of the run phase is caught; a run that makes no attempt
  lets a CVE join on an attempt of an earlier screening; a process that ignores SIGTERM
  survives when its leader ends in time.
* *Deployment.* Both checks of an upload ask the port and not the service: with a server
  started by hand on it, as the installer proposes (`install_patchweaver.py:255`), they
  pass on an older version while the new process fails to bind and is revived again and
  again. An upload without installation removes the environment the running service was
  started from. Every upload replaces `build.yaml`, and only the prepared tree is written
  back into it.
* *Validation.* A TypeError raised inside `validator.run` runs the validation a second
  time (`services.py:1549-1566`).

## 5. Proofs

TLAPS proves the following for every value of the constants. The assumptions about the
pipeline are those in TaskRunner: `Callers` is finite, `MaxAttempts` is a positive
integer, `BuildFailures` are known failure types, `MaxCommands` is a natural number.

* `Typing`: `Spec => []TypeOK`. It is the ground of everything below.
* `NumberFree`: `Spec => []NextNumberFree`. Not inductive: the invariant `NumbersInv`
  adds that the number a caller holds when it looks up and seeds is at most one more
  than the number of rows; rows are never removed, so the table only catches up.
* `RowsFound`: `Spec => []WritesFindTheirRow`. `FoundInv` adds that a lookup that said
  "known" was right and still is, since rows stay, so an update after it hits.
* `Overrun`: `Callers # {} => (Spec => []OverrunBounded)`. Each caller between the budget
  check and its insert is counted with the rows; passing the check moves one caller
  into the count, inserting moves it from the callers to the rows. `Budget` is the case
  of one caller: `Spec => []AttemptBudget`.
* `Numbering`: with one caller, the attempts are numbered 1, 2, 3, ... The invariant
  `SerialInv` adds that a caller past TakeNumber and short of the insert holds exactly
  the next number (`Held`), that its lookup found nothing, and that the last row is its own
  afterwards.
* `EarlierHistory`: with one caller, `Spec => []HistoryIsEarlier`. By `SerialInv` the last
  row is the validating caller's own and carries its number, and by `NumberedInOrder` every
  other row carries a smaller one, whatever died before.
* `LedgerImplemented`: with one caller, `Spec => LedgerKept`: the initial state maps to
  the empty ledger, SeedAttempt maps to Open, Build to Close, and everything else to a
  stutter. `SerialInv` also says that from the terminal check to the insert no attempt
  has succeeded (`Undone`), and that the last row is the caller's own and still has the
  status the caller wrote last (`Owns`), so Build closes a running row and Diagnose
  saves it again with the same status; `Overrun` gives the room that Open asks for.

* `TaskShown`: with one caller, `Spec => []TaskShowsItsAttempt`. `ShownInv` adds that from
  the build to the last write the task says that it runs the caller's number; the row
  and the task part only between the writes of one attempt, and `SerialInv` says which
  row that is.
* `PolicyFollowed`: with one caller, `Spec => []RetriesFollowPolicy`. `SettledInv` adds that
  a run which passed its terminal check, and has not inserted its row yet, stands behind
  attempts that are all settled in favour of another one, and that the record the decision
  reads is the caller's own. What the run saw in the files it wrote is thereby tied to
  what the property reads in the rows.

About AgentRuntime, which has TaskRunner's actions and assumptions, with any planner and
any callers beside the agent: `AgentTyping`, `AgentNumberFree` (`NextNumberFree`) and
`AgentRowsFound` (`WritesFindTheirRow`). The first says that every plan that passes the
guard is an action the registry knows; the other two follow from the invariants of
TaskRunner, since a step of the graph leaves the attempts alone. For an agent alone on its
task:

* `AgentRespectsVerdicts`: `AgentSpec => []NoAttemptAfterVerdict`, whatever plans.
  `VerdictInv` says that every attempt but the last is clear of a verdict, and the last
  one too while an attempt action is under way that has not inserted its row: the
  observation the guard judged is still the state of the store (`CommandInv`, `OrderInv`).
* `AgentWithinBudget`: with the fallback rules, `AgentSpec => []AgentBudget`. `FallbackInv`
  adds that whenever the agent observes, the task shows its latest attempt (`Shown`), so
  that `current_attempt`, which the guard compares with the budget, is the number of rows;
  the rules never plan a second analysis, which would reset it (finding 3 is what a model
  can plan).
* `SuccessReplayed`: if moreover `MaxSteps >= MaxAttempts + 3`, `AgentSpec =>
  []SuccessIsReplayed`. `FallbackInv` bounds the step by the rounds used: one for the
  analysis, one per attempt, one for the report. The defaults, 8 and 5, meet the
  hypothesis exactly.

About TaskCreation, assuming only that names are numbers, that the bounds are natural, and
that the first serial beyond the padding starts with digits below `Last` (10 and 999):

* `Typing`: `Spec => []TypeOK`. The next serial comes from a CHOOSE, so typing itself needs
  that a day's serials are always 1..n with n at most `Last + 1` (`InOrder`), which in turn
  needs that the serial a creator holds is still the next one, or taken (`Fresh`).
* `OneTask`: `Spec => []OneTaskPerRequest`. `Alone` adds that after its search either no row
  of the creator's day asks for the same, or its id has been taken since: by `Fresh`, two
  creators of one day whose ids are free hold the same id, so an insertion by one takes
  the id of the other.
* `AgentFinds`: `Spec => []AgentFindsItsTask`. `Ready` adds that who is about to answer
  inserted its row, alone, and no agent was scheduled for it before.

About PatchRewrite, for every set of patches (`PatchesAreFiles`: a patch is a sequence of
sequences of hunks):

* `RewriteTyping`: `RewriteSpec => []RewriteTypeOK`; the kept hunks are hunks of their file.
* `ShrunkPatchIsLeast`: `RewriteSpec => []ShrunkToLeast`. Call a set of hunks of a file
  self-contained when it holds the first ones kept and whatever its hunks need. `RewriteInv`
  says that the hunks kept so far hold the first ones and lie inside *every* self-contained
  set (`Least`), and that files already left behind are themselves self-contained
  (`Settled`). One pass adds only what a kept hunk needs, which every self-contained set
  has by definition; a file is left when a pass adds nothing, which is being
  self-contained. Together the kept hunks are the least such set.
* `NoGapIsReported`: the report of a shrunk patch shows no dependency gap, from `Settled`.

About Validation, for any number of attempts validated side by side (`SetupsKnown`,
`CasesKnown`: configurations and attempts are records of known values):

* `PromisedOutcomes`, `PassedTested`, `LeftoversShown`: `ValidationSpec => []P` for
  `OutcomesAsPromised`, `PassedMeansTested`, `LeftoversShow`. `ValidationInv` says of each
  subject what its tests have left by the stage it is at (`Tested`), how the kernel and the
  results of the loads agree (`Kernel`: a module in the kernel was loaded by this
  validation, and one whose unloading was tried says how that went), and what a verdict
  was folded from (`Concludes`). `OthersUntouched` shows once that no step of one subject
  touches another's part, the shared kernel included.

About BuildFlow, for any list of slots and any trees in them:

* `BuildTyping`: the types, and that every tree the build prechecks, copies, reverses or
  builds in is there (`Places`).
* `TreesCleaned`: `BuildSpec => []GeneratedTreesCleaned`. `Left` adds that a tree of its own
  that a build with a writable first tree may leave is the one it remembers.
* `VerdictEarned`: `BuildSpec => []VerdictBlamesTree`. `Blame` adds that a precheck that says
  "patched already", and the first one that a build with alternatives remembers, is only
  made while a configured tree contains the patch, and a tree that does goes on doing so.
* `OverruledByGit`: `BuildSpec => []OverruledOnlyByApply`. `Unread` says that nothing
  that counts is in the log while the trees are still being chosen; `RefusalSigned` goes through all ways a build is
  refused and shows that each puts its own phrase into the log, or git's, and the lemma
  `FirstRule`, that no rule before the one of that phrase matches.

About SharedMemory, for any set of writers, finite or not, with any outcomes:

* `OnlyForgets`: `SharedSpec => []NeverOverstated`. `Sound` adds the same of every copy a
  writer holds: tasks occur once in a list, and only tasks of writers that have read the
  failures; the recipes count at most one attempt for each writer that has read them. A
  writer adds one to a copy, and enters these sets by the read that made the copy.
* `AloneLosesNothing`: `SharedSpec => []KeptWhileAlone`. `Alone` adds that at most one writer
  records, that what it holds is everything recorded before and its own, and that a
  document is empty only between its truncation and its write. This is what allows
  RepairLoop to record in one step.

About RepairLoop (`AnswersAreClassified`: no classifier gives the type "unresolved", which
only the pipeline does; `MemoriesAreLists`: the documents hold lists, and the recipes count
attempts; `PatchesKnown`: the report's risks are those of the rules):

* `GivenUpOnEvidence`: `LoopSpec => []UnresolvedIsEarned`. `Planned` adds that plans and
  patches are numbered by their attempts and that a patch not marked ineffective differs
  from that of the attempt before, if there is one; so the differing patch the property asks
  for is always the previous attempt's, and the exception is when that one has none.
* `FailuresAreFound`: `LoopSpec => []FailuresRemembered`, from `Listed` (the failures are a
  sequence, so what is appended is found at the end).
* `PlanIsBest`: for any report and any hints, the plan is one of the candidates and ahead of
  every other (`Ahead`: a higher score, or the same with lower estimates, or earlier). There
  always is such a candidate (`OneIsAhead`): the candidates are finitely many, there is one
  at least (`CandidatesTyped`), and their scores are numbers (`ScoreTyped`), whatever was
  counted before; a report without rules or a recipe never tried divides nothing by zero.
* `LoopTyping`: `LoopSpec => []LoopTypeOK`. `Remembers` adds that the memory holds lists and
  its recipes counts, which recording keeps; so the hints fit the planner (`HintsFitMemory`,
  `MergedFit`), and by `PlanIsBest` the next plan has a route the planner knows. The routes
  the memory and the decision add are lists built entry by entry; `BuiltEntryByEntry`, an
  induction over their length (`UpToN`), says that such a list exists and what its entries
  are, which is how a recursive function is reasoned about here.

About Deployment, for any set of command lines (`PlansKnown`: they are of the two kinds) and
any number of rollouts:

* `DeployTyping`: `DeploySpec => []DeployTypeOK`. `RolloutOK` adds that no files are newer than
  the rollout, so that the greatest version there is the one it uploads, and which kind of
  command line each step belongs to.
* `RolloutLands`: `DeploySpec => []MachineReady`. `Uploading` and `Installing` say, for each
  step, what has been done by then, in terms of the machine as it is now; a rollout that
  begins claims nothing of what it finds. Each step passes the claim on, and
  `UploadingBeside` shows that nothing that happens beside the rollout breaks it: whoever
  starts a process starts it from the code that is there.

About TaskPage, for any number of commands:

* `PageCatchesUp`: `PageSpec => []OpenPageCatchesUp`, inductive once the types are added
  (`PageFollows`): every step that ends a command writes something watched.
* `PageTells`: `PageSpec => []PageTellsTheOutcome`. `Told` says what the row, the record, the
  summary and the precheck of one attempt can be together; the page follows from that alone
  (`BuiltTold`, `PatchedTold`, `FailedTold`), so the property holds at every moment and not only
  when nothing is at work. `InAttempt` adds what is not there yet at each step. The page's
  chains of early returns are IF ... ELSE in the model: the arms of a CASE that overlap
  have no order in TLA+, although TLC gives them one.

About SourceTrees, for any set of jobs and baselines, any requests among those the commands
take, and any priority list that has the clean tree, if it has it, first
(`PrioritiesKnown`; a list in which it is not first is the user's own choice, which the
writers keep):

* `TreesAreWhole`: `TreesSpec => SuccessLeavesWholeTree`, an action property. `Stands` says
  what a directory holds in terms of the steps its job has still ahead; `TodoOK`, which
  steps come with which and in what order, is shown once of every list of steps and passed
  on by `Tail`. `TreesOK` adds that two jobs at one directory lose it, and that a directory
  nobody is at and that looks prepared lacks nothing but what a reuse redoes. One lemma,
  `StepDone`, turns that into what is to be shown of each step: how it leaves its own
  directory.
* `SettingsStay`: `TreesSpec => []SettingsKept`. `SavesOK`: while nobody raced, one job at
  most is past its reading; what it holds is the file with everybody's entries and its own;
  the file is that, or empty between that job's truncation and its write. `ListedIs` is
  about the list alone: a new slot is inserted behind a listed one, or first if the clean
  tree is not listed.

About FixSources, for any records, trees and cache and any number of commits, however requests
and writes end:

* `SourcesTyped`: the types of what a resolution knows.
* `FixesTakenInOrder`: `SourcesSpec => []TakenInOrder`. `TriedInVain` says that the candidates
  are the chosen stable commits and then the upstream ones, and that those before the next
  one were asked for at every place that may hold them; `Asked`, that the one at work was asked
  for at every address before the one it is at. `SelectableIs` says which stable commits
  are chosen and that the surer ones come first. It rests on `PickedIs`: what is picked out of
  a list, by counting the places chosen so far, is what is at those places, once each.

About PoolScreening, for any batches, each of different CVEs (`BatchesTyped`), any pools known
before (`KnownPoolsTyped`), and any attempts that earlier screenings left (`LeftoversTyped`):

* `ScreenTyped`: the types.
* `PoolEarned`: `ScreenSpec => PoolIsEarned`, an action property, and `ProvenJoin`:
  `ScreenSpec => []ProvenFixesJoin`, both from `ScreenOK`. Before its first run every case is
  `Fresh`, whatever was left: nothing was read of its task. From then on it is `Honest`: an
  attempt that counts was read by a run of this screening, is proven for the case's task, and
  stands in the record without a failure, since its own "none" replaced what was there.
  `Marked`: a constraint the command line does not set aside is marked before the first run.
  `CaseOK` adds that the record of a case whose task is its own shows that task's latest
  attempt, also while the later cases of the batch are run.

About BuildTargets, for any kernel trees of the type the model gives them (`KernelsTyped`), that is
for any Makefiles, options and dependencies (circular ones too), any patches, and any surveys
(`SurveysTyped`): whatever modinfo leaves unanswered, and whichever switch is off. `KernelsInstalled`
is what `_installed_module_path_to_build_target` takes for granted of every tree: `modules_install`
puts a module where its object is in the sources, no two modules have one name, and none is called
vmlinux.

* `NeverForNothing`: `TargetsSpec => []GivenUpForAnOption`. The code follows the first line that is
  on, and kbuild all of them; `OffMeansAll` shows that a gate that is off for the one is off
  for the other, `LeftOut`, that a file with such a gate on its way is not compiled, if it has one
  home, and `OptionsAreOff`, that all the options of that gate are off. `Mended`, the part that is
  inductive: once the fragment is merged, each option on the way to a touched file is on or
  cannot be "m"; merging changes none of the ways (`SameKeys`).
* `PatchCovered`: `TargetsSpec => []TargetsCoverThePatch`, for any depth. A build goes on only with no file
  disabled (`TargetsOK`); the first line that is on then speaks for all lines of a file that is
  plainly gated (`FirstSpeaksForAll`), `DetailIs` what kbuild makes of it, and no later step of
  the inference loses that (`ModulesAre`, `ExpandedInOrder`, `InferredCovers`). The order rests
  on the search. Its list is `Sound`: in order, and holding the place of every module it has
  come by except those it is still at, so a module may be added only when all it needs
  is there. What it needs may be one that is still open, in a circle; then that one needs
  itself, and chains of every length start from it (`LongerThanNeeded`, `LongerStill`). So where
  no chain is longer than modinfo is followed, nothing needed is open. What counts as needed is
  what modinfo told (`Heard`), as long as it also told the place (`Answers`). `Finds` says this of the
  searches with k levels left, and is proved by induction on k (`FindsAtOnce`,
  `FindsFurther`), in each step along the names a module needs (`FoundInOrder`). The chains
  (`Tall`) are the premise of the property: beyond `MaxDepth` the code stops asking, and the order
  is lost with good reason.

Only model-checked, and why:

* `CommandsEnd`: liveness under fairness is out of the prover's reach.
* `RetryTakesAnotherRoute`: not a theorem, for it depends on the memory. An avoided recipe
  loses 0.35 of its score, and what other tasks left can outweigh that: a recipe that always
  worked for them is taken again, right after its failure, among candidates that always
  failed them. The starting memories of `repair` hold one failure, too little for that; there
  it holds however attempts, boosts and deaths fall. `PlanIsBest` is what is true of every memory.
* `HostTypeOK`: the type invariants of the parts of HostRuns, most of which are theorems. What is
  left is that of BuildTargets (and so that of their composition): it says that names
  are strings, and none of the installed provers shows that a literal such as "vmlinux" is
  one. The proofs about BuildTargets reason about names of an unnamed set instead.
* The runs with a finding, which are refutations.

A recursion or an operator with an operator as argument is out of reach, but often only a
manner of speaking: `FirstMatch`, `SelectSource`, `CountRecipe`, `Picked` and `Listed` choose the least index with
a property, `Counted` is the size of a set of pairs instead of a sum, and `WithoutRepeats`
and `RoutesAfter`, like the lists of BuildTargets, are recursive functions along a list. ListFacts has
what is needed to reason about those: induction up to a number as a fact about sets
(`UpToN`), and that a list built entry by entry exists (`BuiltEntryByEntry`).

## 6. Not modelled

* What text is found in text: the patterns of the analyzers, of the rewriter and of the
  precheck are facts about a patch that an instance chooses (a hunk is risky, a log holds
  a phrase, a report has a rule). What the program then decides is modelled.
* Prompts, contexts, evidence and their retrieval (RAG, `scripts/build_rag_corpus.py`). The
  model's answer is any answer the filters after it let through.
* Reports and replays, except as actions of the agent that succeed or fail and as files
  the page looks for; the doctor and the configuration loader; the catalog, lists and
  chat, which render what is stored.
* The legacy agent sequence (`task_query_service.py:402`), the default when
  `PATCHWEAVER_AGENT_RUNTIME` is not set.
* The installation of the compiler wrapper and of toolchains by the builder.
* What a workspace contains when two creators wrote it (see the hazards).
* What deployment writes besides: command wrappers, launchers, the restart of a
  development server (`scripts/restart_dev_api_from_source.sh`).
* In TaskRunner, torn JSON files: a file is written at once there. SharedMemory, SourceTrees
  and FixSources do have files that are truncated first and written later, or torn.

## 7. Plan

Done: the policy, the pipeline, the ledger, the agent, task creation, planning and memory,
the repair loop, the ten parts of HostRuns; the theorems above.

1. **Legacy agent**: analyze, run, report, replay in order, ended by the first failure, as
   another way for TaskRunner's commands to be started; and the task snapshot of
   TaskCreation with its readers.
2. **Reporter and release gate**: what a report claims about the attempts it read.
