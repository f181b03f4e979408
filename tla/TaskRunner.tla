------------------------------ MODULE TaskRunner ------------------------------
(***************************************************************************)
(* The task pipeline of patchweaver.coordinator: the analyze and run       *)
(* commands on one task, as the CLI and the HTTP API start them, down to   *)
(* the separate writes they make to the SQLite tables and to the files of  *)
(* the task's workspace.                                                   *)
(*                                                                         *)
(* Every repository call opens its own connection and commits on its own,  *)
(* and nothing locks a task, so the commands of different callers          *)
(* interleave between any two of these writes.  Each action below is one   *)
(* such write, or one read whose result the caller carries forward; what   *)
(* the caller carries is in no, known and result.                          *)
(*                                                                         *)
(* Left out: the content of patches, plans, prompts, contexts, evidence,   *)
(* artifacts and traces (no decision modelled here reads them back), and   *)
(* how a build or a validation reaches its outcome, which is a choice.     *)
(***************************************************************************)
EXTENDS DecisionPolicy, Sequences, FiniteSets

CONSTANTS
    Callers,        \* CLI processes and API threads that work on the task
    MaxAttempts,    \* tasks.max_attempts
    BuildFailures,  \* failure types a build and its classifier can report
    MaxCommands     \* bound on the commands ever started

ASSUME CallersFinite == IsFiniteSet(Callers)
ASSUME MaxAttemptsPositive == MaxAttempts \in Nat \ {0}
ASSUME BuildFailuresKnown == BuildFailures \subseteq FailureTypes
ASSUME MaxCommandsNatural == MaxCommands \in Nat

VARIABLES
    task,       \* the tasks row
    attempts,   \* the attempts rows, in insertion order
    analysis,   \* which files of analysis/ exist
    records,    \* attempts/NNN/logs/failure_record.json, by attempt number
    reports,    \* attempts/NNN/artifacts/validation_report.json, likewise
    pc,         \* where each caller's command stands
    cmd,        \* which command it is
    no,         \* the attempt number the caller holds
    known,      \* whether save_attempt saw a row with that number
    result,     \* the attempt record in the caller's memory
    raised,     \* whether the caller's last command ended in an exception
    issued      \* commands started so far

store == <<task, attempts, analysis, records, reports>>
local == <<pc, cmd, no, known, result, raised>>
vars  == <<store, local, issued>>

Commands == {"analyze", "run", "attempt"}

Locations ==
    {"idle", "check_terminal", "check_budget", "load", "fetch", "report",
     "publish", "source_failed", "number", "lookup", "seed", "mark_running",
     "build", "diagnose", "record", "validate", "finish", "decide"}

Rows == [no : Nat, status : AttemptStatus, failure : FailureTypes \cup {"none"}]

\* result.failure is the row's failure type, result.diagnosis the one the
\* failure record gets; the classifier may disagree with the builder's hint.
Results ==
    [status : AttemptStatus, failure : FailureTypes \cup {"none"},
     diagnosis : FailureTypes \cup {"none"}, ineffective : BOOLEAN]

NoResult ==
    [status |-> "running", failure |-> "none", diagnosis |-> "none",
     ineffective |-> FALSE]

StoreTypeOK ==
    /\ task \in [status : TaskStatus, current : Nat]
    /\ attempts \in Seq(Rows)
    /\ analysis \in [card : BOOLEAN, report : BOOLEAN, failure : BOOLEAN]
    /\ DOMAIN records \subseteq Nat
    /\ \A n \in DOMAIN records : records[n] \in FailureRecords
    /\ DOMAIN reports \subseteq Nat
    /\ \A n \in DOMAIN reports : reports[n] \in ValidationStatus

LocalTypeOK ==
    /\ pc \in [Callers -> Locations]
    /\ cmd \in [Callers -> Commands]
    /\ no \in [Callers -> Nat]
    /\ known \in [Callers -> BOOLEAN]
    /\ result \in [Callers -> Results]
    /\ raised \in [Callers -> BOOLEAN]
    /\ issued \in 0..MaxCommands

TypeOK == StoreTypeOK /\ LocalTypeOK

\* A task as create_task leaves it.
Init ==
    /\ task = [status |-> "created", current |-> 0]
    /\ attempts = <<>>
    /\ analysis = [card |-> FALSE, report |-> FALSE, failure |-> FALSE]
    /\ records = <<>>
    /\ reports = <<>>
    /\ pc = [c \in Callers |-> "idle"]
    /\ cmd = [c \in Callers |-> "run"]
    /\ no = [c \in Callers |-> 0]
    /\ known = [c \in Callers |-> FALSE]
    /\ result = [c \in Callers |-> NoResult]
    /\ raised = [c \in Callers |-> FALSE]
    /\ issued = 0

----------------------------------------------------------------------------
(* Reading and writing the tables and the files *)

\* list_attempts()[-1]: the highest number; the query leaves the order of
\* rows with equal numbers open.
LatestRows ==
    {i \in DOMAIN attempts :
        \A j \in DOMAIN attempts : attempts[j].no <= attempts[i].no}

\* UPDATE attempts ... WHERE attempt_id: every row that carries the number.
Updated(n, status, failure) ==
    [i \in DOMAIN attempts |->
        IF attempts[i].no = n
        THEN [no |-> n, status |-> status, failure |-> failure]
        ELSE attempts[i]]

\* json_writer.write_model on the file of attempt n.
Written(files, n, content) ==
    [m \in DOMAIN files \cup {n} |-> IF m = n THEN content ELSE files[m]]

\* _load_failure_record_for_attempt: the file, or a record made up from the
\* failure type at hand.
RecordOf(n, failure) ==
    IF n \in DOMAIN records
    THEN records[n]
    ELSE [failure |-> IF failure = "none" THEN "unknown" ELSE failure,
          ineffective |-> FALSE]

ValidationOf(n) == IF n \in DOMAIN reports THEN reports[n] ELSE "pending"

\* The policy's view of attempts[i] read together with a failure record.
Stops(i, record) ==
    PolicyStops(attempts[i].status,
                ObservedFailure(record, ValidationOf(attempts[i].no)),
                record.ineffective)

Retries(i, record) ==
    PolicyRetries(attempts[i].status,
                  ObservedFailure(record, ValidationOf(attempts[i].no)),
                  record.ineffective)

----------------------------------------------------------------------------
(* Control *)

At(c, l) == pc[c] = l

GoTo(c, l) == pc' = [pc EXCEPT ![c] = l]

Started(c, command, l) ==
    /\ At(c, "idle")
    /\ GoTo(c, l)
    /\ cmd' = [cmd EXCEPT ![c] = command]
    /\ raised' = [raised EXCEPT ![c] = FALSE]
    /\ UNCHANGED <<store, no, known, result>>

\* A command from outside; MaxCommands bounds how many there ever are.
Issued ==
    /\ issued < MaxCommands
    /\ issued' = issued + 1

\* The command is over; what it held is gone with it.
Ended(c, exception) ==
    /\ GoTo(c, "idle")
    /\ no' = [no EXCEPT ![c] = 0]
    /\ known' = [known EXCEPT ![c] = FALSE]
    /\ result' = [result EXCEPT ![c] = NoResult]
    /\ raised' = [raised EXCEPT ![c] = exception]
    /\ UNCHANGED <<cmd, issued>>

StartAnalyze(c) == Issued /\ Started(c, "analyze", "fetch")

StartRun(c) == Issued /\ Started(c, "run", "check_terminal")

\* An exception at any step, or the death of the process: nothing that was
\* written is taken back.
Abort(c) ==
    /\ ~At(c, "idle")
    /\ Ended(c, TRUE)
    /\ UNCHANGED store

----------------------------------------------------------------------------
(* AnalysisService.run *)

\* fetch_patch_bundle returned a patch: the draft semantic card is written.
FetchSource(c) ==
    /\ At(c, "fetch")
    /\ analysis' = [analysis EXCEPT !.card = TRUE]
    /\ GoTo(c, "report")
    /\ UNCHANGED <<task, attempts, records, reports, cmd, no, known, result, raised, issued>>

\* fetch_patch_bundle raised: the analysis failure record is written.
FailSource(c) ==
    /\ At(c, "fetch")
    /\ analysis' = [analysis EXCEPT !.failure = TRUE]
    /\ GoTo(c, "source_failed")
    /\ UNCHANGED <<task, attempts, records, reports, cmd, no, known, result, raised, issued>>

RecordSourceFailure(c) ==
    /\ At(c, "source_failed")
    /\ task' = [status |-> "failed", current |-> 0]
    /\ Ended(c, TRUE)
    /\ UNCHANGED <<attempts, analysis, records, reports>>

WriteConstraintReport(c) ==
    /\ At(c, "report")
    /\ analysis' = [analysis EXCEPT !.report = TRUE]
    /\ GoTo(c, "publish")
    /\ UNCHANGED <<task, attempts, records, reports, cmd, no, known, result, raised, issued>>

\* Mutant: the publication does not reset current_attempt.
PublishAnalysisKeepingCurrent(c) ==
    /\ At(c, "publish")
    /\ task' = [status |-> "analyzed", current |-> task.current]
    /\ \/ /\ cmd[c] = "analyze"
          /\ Ended(c, FALSE)
       \/ /\ cmd[c] # "analyze"
          /\ GoTo(c, "load")
          /\ UNCHANGED <<cmd, no, known, result, raised, issued>>
    /\ UNCHANGED <<attempts, analysis, records, reports>>

\* The analysis ends, or the run that asked for it goes on with its inputs.
PublishAnalysis(c) ==
    /\ At(c, "publish")
    /\ task' = [status |-> "analyzed", current |-> 0]
    /\ \/ /\ cmd[c] = "analyze"
          /\ Ended(c, FALSE)
       \/ /\ cmd[c] # "analyze"
          /\ GoTo(c, "load")
          /\ UNCHANGED <<cmd, no, known, result, raised, issued>>
    /\ UNCHANGED <<attempts, analysis, records, reports>>

----------------------------------------------------------------------------
(* TaskRunner.run_task, before the first attempt *)

\* _terminal_status_payload: the run ends at once when the policy is done
\* with the latest attempt, unless that attempt is still running.
CheckTerminal(c) ==
    /\ At(c, "check_terminal")
    /\ \/ /\ \E i \in LatestRows :
                /\ attempts[i].status # "running"
                /\ Stops(i, RecordOf(attempts[i].no, attempts[i].failure))
          /\ Ended(c, FALSE)
       \/ /\ \/ attempts = <<>>
             \/ \E i \in LatestRows :
                    \/ attempts[i].status = "running"
                    \/ ~Stops(i, RecordOf(attempts[i].no, attempts[i].failure))
          /\ GoTo(c, "check_budget")
          /\ UNCHANGED <<cmd, no, known, result, raised, issued>>
    /\ UNCHANGED store

\* Mutant: the budget is found spent one attempt too late.
BudgetSpentLate == Len(attempts) > MaxAttempts

\* _max_attempts_exhausted_payload.
BudgetSpent == Len(attempts) >= MaxAttempts

CheckBudget(c) ==
    /\ At(c, "check_budget")
    /\ \/ BudgetSpent /\ Ended(c, FALSE)
       \/ /\ ~BudgetSpent
          /\ GoTo(c, "load")
          /\ UNCHANGED <<cmd, no, known, result, raised, issued>>
    /\ UNCHANGED store

----------------------------------------------------------------------------
(* AttemptExecutionService.run *)

\* The analysis runs first when its card is missing; a card without its
\* constraint report, which an analysis cut short leaves, raises.
LoadInputs(c) ==
    /\ At(c, "load")
    /\ \/ /\ ~analysis.card
          /\ GoTo(c, "fetch")
          /\ UNCHANGED <<cmd, no, known, result, raised, issued>>
       \/ /\ analysis.card /\ ~analysis.report
          /\ Ended(c, TRUE)
       \/ /\ analysis.card /\ analysis.report
          /\ GoTo(c, "number")
          /\ UNCHANGED <<cmd, no, known, result, raised, issued>>
    /\ UNCHANGED store

\* Mutants of next_attempt_no: it forgets to add one, it does so from the
\* second attempt on, it counts the finished attempts only.
NextAttemptNoFromZero == Len(attempts)

NextAttemptNoReused == IF attempts = <<>> THEN 1 ELSE Len(attempts)

\* next_attempt_no.
NextAttemptNo == Len(attempts) + 1

TakeNumber(c) ==
    /\ At(c, "number")
    /\ no' = [no EXCEPT ![c] = NextAttemptNo]
    /\ GoTo(c, "lookup")
    /\ UNCHANGED <<store, cmd, known, result, raised, issued>>

\* Mutant: the lookup leaves the attempt_id out of its condition.
LookupAnyRow(c) ==
    /\ At(c, "lookup")
    /\ known' = [known EXCEPT ![c] = attempts # <<>>]
    /\ GoTo(c, "seed")
    /\ UNCHANGED <<store, cmd, no, result, raised, issued>>

\* save_attempt asks for the row on one connection ...
LookupRow(c) ==
    /\ At(c, "lookup")
    /\ known' = [known EXCEPT ![c] = \E i \in DOMAIN attempts : attempts[i].no = no[c]]
    /\ GoTo(c, "seed")
    /\ UNCHANGED <<store, cmd, no, result, raised, issued>>

\* ... and inserts or updates on another, going by the answer it got.
SeedAttempt(c) ==
    /\ At(c, "seed")
    /\ attempts' =
          IF known[c]
          THEN Updated(no[c], "running", "none")
          ELSE Append(attempts, [no |-> no[c], status |-> "running", failure |-> "none"])
    /\ GoTo(c, "mark_running")
    /\ UNCHANGED <<task, analysis, records, reports, cmd, no, known, result, raised, issued>>

MarkRunning(c) ==
    /\ At(c, "mark_running")
    /\ task' = [status |-> "running", current |-> no[c]]
    /\ GoTo(c, "build")
    /\ UNCHANGED <<attempts, analysis, records, reports, cmd, no, known, result, raised, issued>>

\* What the apply precheck or execute_build can leave in the attempt record.
BuildOutcomes ==
    [status : {"failed"}, failure : BuildFailures]
        \cup {[status |-> "target_state", failure |-> "target_already_patched"],
              [status |-> "built", failure |-> "none"]}

\* Rewrite, precheck and build; the outcome is saved.  Only an attempt that
\* has a predecessor to compare its patch with can be ineffective.
Build(c) ==
    /\ At(c, "build")
    /\ \E o \in BuildOutcomes, ineffective \in BOOLEAN :
          /\ ineffective => no[c] > 1
          /\ attempts' = Updated(no[c], o.status, o.failure)
          /\ result' = [result EXCEPT ![c] =
                [status |-> o.status, failure |-> o.failure,
                 diagnosis |-> "none", ineffective |-> ineffective]]
    /\ GoTo(c, "diagnose")
    /\ UNCHANGED <<task, analysis, records, reports, cmd, no, known, raised, issued>>

\* The failure type of the failure record: the classifier's reading of the
\* log for a failed build, the target state or nothing otherwise.
Diagnoses(r) == IF r.status = "failed" THEN BuildFailures ELSE {r.failure}

\* _maybe_mark_unresolved_kpatch_constraint: the last attempt of the budget
\* hit the constraint that an earlier record names too.  Whether signature
\* and recipes agree as well is left open.
MayBeUnresolved(c, diagnosis) ==
    /\ diagnosis = "kpatch_constraint"
    /\ no[c] >= MaxAttempts
    /\ ~result[c].ineffective
    /\ \E n \in DOMAIN records :
          records[n].failure \in {"kpatch_constraint", "kpatch_constraint_unresolved"}

Diagnosed(c, failure, diagnosis) ==
    /\ attempts' = Updated(no[c], result[c].status, failure)
    /\ result' = [result EXCEPT ![c].failure = failure, ![c].diagnosis = diagnosis]

Diagnose(c) ==
    /\ At(c, "diagnose")
    /\ \E diagnosis \in Diagnoses(result[c]) :
          \/ Diagnosed(c, result[c].failure, diagnosis)
          \/ /\ MayBeUnresolved(c, diagnosis)
             /\ Diagnosed(c, "kpatch_constraint_unresolved", "kpatch_constraint_unresolved")
    /\ GoTo(c, "record")
    /\ UNCHANGED <<task, analysis, records, reports, cmd, no, known, raised, issued>>

WriteFailureRecord(c) ==
    /\ At(c, "record")
    /\ records' = Written(records, no[c],
          [failure |-> result[c].diagnosis, ineffective |-> result[c].ineffective])
    /\ GoTo(c, "validate")
    /\ UNCHANGED <<task, attempts, analysis, reports, cmd, no, known, result, raised, issued>>

Validate(c) ==
    /\ At(c, "validate")
    /\ \E v \in ValidationOutcomes(result[c].status) :
          reports' = Written(reports, no[c], v)
    /\ GoTo(c, "finish")
    /\ UNCHANGED <<task, attempts, analysis, records, cmd, no, known, result, raised, issued>>

\* The task takes over the attempt's status; a run looks at the outcome
\* again, a single attempt returns it.
FinishAttempt(c) ==
    /\ At(c, "finish")
    /\ task' = [status |-> result[c].status, current |-> no[c]]
    /\ \/ /\ cmd[c] = "run"
          /\ GoTo(c, "decide")
          /\ UNCHANGED <<cmd, no, known, result, raised, issued>>
       \/ /\ cmd[c] # "run"
          /\ Ended(c, FALSE)
    /\ UNCHANGED <<attempts, analysis, records, reports>>

----------------------------------------------------------------------------
(* TaskRunner._retry_decision *)

\* Mutant: every attempt that did not succeed is retried.
RetryAfterAnyFailure(c) == result[c].status \notin Success

\* The record read is the caller's own when the relative path it was handed
\* resolves, the latest attempt's otherwise; the status is the latest's.
RetryAdvised(c) ==
    /\ result[c].status \notin Success
    /\ \E i \in LatestRows, n \in {no[c]} \cup {attempts[j].no : j \in LatestRows} :
          Retries(i, RecordOf(n, result[c].failure))

StopAdvised(c) ==
    \/ result[c].status \in Success
    \/ \E i \in LatestRows, n \in {no[c]} \cup {attempts[j].no : j \in LatestRows} :
          ~Retries(i, RecordOf(n, result[c].failure))

DecideRetry(c) ==
    /\ At(c, "decide")
    /\ \/ /\ RetryAdvised(c)
          /\ ~BudgetSpent
          /\ GoTo(c, "load")
          /\ no' = [no EXCEPT ![c] = 0]
          /\ known' = [known EXCEPT ![c] = FALSE]
          /\ result' = [result EXCEPT ![c] = NoResult]
          /\ UNCHANGED <<cmd, raised, issued>>
       \/ /\ StopAdvised(c) \/ BudgetSpent
          /\ Ended(c, FALSE)
    /\ UNCHANGED store

----------------------------------------------------------------------------
(* The steps of one command once it has started, short of its abortion *)

Analyze(c) ==
    \/ FetchSource(c) \/ FailSource(c) \/ RecordSourceFailure(c)
    \/ WriteConstraintReport(c) \/ PublishAnalysis(c)

RunTask(c) == CheckTerminal(c) \/ CheckBudget(c) \/ DecideRetry(c)

RunAttempt(c) ==
    \/ LoadInputs(c) \/ TakeNumber(c) \/ LookupRow(c) \/ SeedAttempt(c)
    \/ MarkRunning(c) \/ Build(c) \/ Diagnose(c) \/ WriteFailureRecord(c)
    \/ Validate(c) \/ FinishAttempt(c)

Proceed(c) == Analyze(c) \/ RunTask(c) \/ RunAttempt(c)

Next ==
    \E c \in Callers : StartAnalyze(c) \/ StartRun(c) \/ Abort(c) \/ Proceed(c)

Spec == Init /\ [][Next]_vars

\* Python runs a started command to its end; nothing guarantees that anybody
\* starts one, or that none dies.
FairSpec == Spec /\ \A c \in Callers : WF_vars(Proceed(c))

----------------------------------------------------------------------------
(* Properties when one caller works on the task at a time *)

\* run_task never takes a task beyond max_attempts, however often it is
\* called again, and whatever was interrupted in between.
AttemptBudget == Len(attempts) <= MaxAttempts

\* next_attempt_no counts rows: it numbers the attempts 1, 2, 3, ... without
\* a gap or a repeat although crashed attempts leave rows behind.
NumberedInOrder == \A i \in 1..Len(attempts) : attempts[i].no = i

\* Nobody goes on after an attempt on which the policy stops: of every
\* attempt but the last, either its program died while it ran, or what is
\* stored of it now still lets the policy continue.
RetriesFollowPolicy ==
    \A i \in 1..Len(attempts) - 1 :
        \/ attempts[i].status = "running"
        \/ ~Stops(i, RecordOf(attempts[i].no, attempts[i].failure))

\* The task row points at an attempt that exists, and once it is no longer
\* running it shows that attempt's own status, across retries, re-analyses
\* and aborted commands.
TaskShowsItsAttempt ==
    task.current > 0 =>
        /\ task.current <= Len(attempts)
        /\ task.status # "running" => task.status = attempts[task.current].status

\* The attempts the validator compares with, list_attempts()[:-1], are those
\* before this one, all of them and without this one: the row left out is the
\* caller's own, also when aborted commands left rows behind.
HistoryIsEarlier ==
    \A c \in Callers : pc[c] = "validate" =>
        /\ \A i \in LatestRows : attempts[i].no = no[c]
        /\ \A j \in 1..Len(attempts) - 1 : attempts[j].no < no[c]

\* The attempts table keeps the promises of the attempt ledger.
Ledger == INSTANCE AttemptLedger
    WITH ledger <- [i \in 1..Len(attempts) |-> attempts[i].status]

LedgerKept == Ledger!Spec

----------------------------------------------------------------------------
(* Properties however many callers work on it at once *)

\* Past the budget check, short of the row that uses the budget up.
Committed == {c \in Callers :
    cmd[c] = "run" /\ pc[c] \in {"load", "fetch", "report", "publish", "number", "lookup", "seed"}}

\* Each caller that raced through the budget check costs one attempt at
\* most: n callers exceed the budget by n - 1, not by the number of retries.
OverrunBounded == Len(attempts) + Cardinality(Committed) < MaxAttempts + Cardinality(Callers)

\* The number next_attempt_no is about to hand out is free: numbers never run
\* ahead of the rows, even when races gave two rows the same one.
NextNumberFree == \A i \in 1..Len(attempts) : attempts[i].no # NextAttemptNo

\* Whatever a caller writes after the seed finds a row of its number: the
\* updates hit something and save_validation_report never raises.
WritesFindTheirRow ==
    /\ \A c \in Callers :
          pc[c] \in {"mark_running", "build", "diagnose", "record", "validate", "finish", "decide"}
              => \E i \in 1..Len(attempts) : attempts[i].no = no[c]
    /\ \A n \in DOMAIN records \cup DOMAIN reports :
          \E i \in 1..Len(attempts) : attempts[i].no = n

\* Every command ends by itself: retries run out of budget, also when several
\* callers number, insert and overwrite each other's attempts.
CommandsEnd == \A c \in Callers : pc[c] # "idle" ~> pc[c] = "idle"

\* attempt_repo.py: attempt_id is the business key, a second save of the same
\* attempt_id must update in place and never insert again.
OneRowPerAttempt ==
    \A i, j \in 1..Len(attempts) : attempts[i].no = attempts[j].no => i = j

=============================================================================
