-------------------------- MODULE AgentRuntime_proof --------------------------
(***************************************************************************)
(* Theorems about AgentRuntime.  With any other callers on the task, and   *)
(* any planner: the types, the numbers, and that every write finds its     *)
(* row.  For an agent alone on its task: no attempt follows a verdict the  *)
(* guard stops at.  For one that plans by the fallback rules as well: the  *)
(* budget, and that a success is reported and replayed.                    *)
(***************************************************************************)
EXTENDS AgentRuntime, TaskRunner_proof

----------------------------------------------------------------------------
(* What a step may be *)

\* A step of the graph itself, between two actions it executes.
GraphStep == StartAgent \/ Observe \/ Refuse \/ Execute \/ Return \/ Route \/ Die

\* Whoever moves, it is a step of a command or one of the graph.
LEMMA AgentSteps ==
    ASSUME AgentNext
    PROVE  \/ GraphStep
           \/ \E c \in Callers : Step(c) /\ UNCHANGED agent
<1>1. CASE AgentStep
  <2>1. CASE Proceed(Agent) /\ UNCHANGED agent
    BY <2>1, AgentIsCaller DEF Step
  <2>2. QED
    BY <1>1, <2>1 DEF AgentStep, GraphStep
<1>2. CASE Die
  BY <1>2 DEF GraphStep
<1>3. CASE Abort(Agent) /\ UNCHANGED agent
  BY <1>3, AgentIsCaller DEF Step
<1>4. CASE OthersStep /\ UNCHANGED agent
  BY <1>4 DEF OthersStep, Step
<1>5. QED
  BY <1>1, <1>2, <1>3, <1>4 DEF AgentNext

\* The graph writes no row and no file of the store, and sends its own
\* command to its start or to its end.
LEMMA GraphKeeps ==
    ASSUME TypeOK, GraphStep
    PROVE  /\ UNCHANGED <<attempts, analysis, records, reports, issued>>
           /\ \A c \in Callers :
                 \/ UNCHANGED <<pc[c], cmd[c], no[c], known[c], result[c]>>
                 \/ c = Agent /\ pc'[c] \in {"idle", "fetch", "load"}
<1> USE AgentIsCaller DEF TypeOK, LocalTypeOK
<1>1. CASE StartAgent \/ Observe \/ Refuse \/ Route
  BY <1>1 DEF StartAgent, Observe, Refuse, Route, vars, store, local
<1>2. CASE Execute
  <2>1. CASE UNCHANGED <<store, pc, cmd, no, known, result, issued>>
    BY <2>1 DEF store
  <2>2. ASSUME NEW command, NEW l \in {"fetch", "load"},
               Started(Agent, command, l), UNCHANGED issued
        PROVE  /\ UNCHANGED <<store, no, known, result, issued>>
               /\ pc'[Agent] = l
               /\ \A c \in Callers \ {Agent} : pc'[c] = pc[c] /\ cmd'[c] = cmd[c]
    BY <2>2 DEF Started, GoTo
  <2>3. QED
    BY <1>2, <2>1, <2>2 DEF Execute, store
<1>3. CASE Return
  BY <1>3 DEF Return, local
<1>4. CASE Die
  BY <1>4 DEF Die, store, local, Ended, GoTo
<1>5. QED
  BY <1>1, <1>2, <1>3, <1>4 DEF GraphStep

----------------------------------------------------------------------------
(* Types *)

\* What the agent sees is an observation.
LEMMA ObservedTypes ==
    ASSUME StoreTypeOK, reported \in BOOLEAN, replayed \in BOOLEAN, NEW n \in Nat,
           NEW s \in AttemptStatus \cup {"none"}, NEW f \in FailureTypes \cup {"none"}
    PROVE  Observed(n, s, f) \in Observations
<1>1. AgentRecord(n, f) \in FailureRecords
  BY DEF AgentRecord, SourceUnavailable, FailureRecords, FailureTypes, StopFailures, StoreTypeOK
<1>2. ValidationOf(n) \in ValidationStatus
  BY DEF ValidationOf, ValidationStatus, StoreTypeOK
<1>3. /\ ObservedFailure(AgentRecord(n, f), ValidationOf(n)) \in FailureTypes \cup {"none"}
      /\ AgentRecord(n, f).ineffective \in BOOLEAN
  BY <1>1 DEF ObservedFailure, FailureRecords, FailureTypes, OtherFailures
<1>4. task.status \in TaskStatus /\ task.current \in Nat
  BY DEF StoreTypeOK
<1>5. QED
  BY <1>2, <1>3, <1>4 DEF Observed, Observations

LEMMA ViewTypes ==
    ASSUME StoreTypeOK, reported \in BOOLEAN, replayed \in BOOLEAN
    PROVE  Views \subseteq Observations
<1>1. CASE attempts = <<>>
  BY <1>1, ObservedTypes DEF Views
<1>2. CASE attempts # <<>>
  <2>1. \A i \in LatestRows : attempts[i] \in Rows
    BY DEF LatestRows, StoreTypeOK
  <2>2. \A i \in LatestRows :
            Observed(attempts[i].no, attempts[i].status, attempts[i].failure) \in Observations
    BY <2>1, ObservedTypes DEF Rows
  <2>3. QED
    BY <1>2, <2>2 DEF Views
<1>3. QED
  BY <1>1, <1>2

\* Whatever the planner proposes and the guard lets through, the registry
\* has an action for it.
LEMMA PlansExecutable ==
    ASSUME NEW o, NEW a \in Plans(o), GuardAllows(a, o)
    PROVE  Executable(a) \in RegistryActions
BY DEF GuardAllows, Whitelisted, Offered, Executable, RegistryActions, ConsumesAttempt

LEMMA GraphTypes ==
    ASSUME AgentTypeOK, GraphStep
    PROVE  AgentTypeOK'
<1> USE AgentIsCaller, MaxStepsPositive DEF AgentTypeOK
<1>0. MaxSteps \in Nat /\ step \in Nat
  OBVIOUS
<1>1. CASE StartAgent \/ Refuse
  <2>1. TypeOK'
    BY <1>1 DEF StartAgent, Refuse, vars, store, local, TypeOK, StoreTypeOK, LocalTypeOK
  <2>2. QED
    BY <1>0, <1>1, <2>1 DEF StartAgent, Refuse, Stopped
<1>2. CASE Observe
  <2>1. TypeOK'
    BY <1>2 DEF Observe, vars, store, local, TypeOK, StoreTypeOK, LocalTypeOK
  <2>2. seen' \in Observations
    BY <1>2, ViewTypes DEF Observe, TypeOK
  <2>3. QED
    BY <1>2, <2>1, <2>2 DEF Observe
<1>3. CASE Execute
  <2>1. PICK a \in Plans(seen) :
          /\ GuardAllows(a, seen)
          /\ action' = Executable(a)
          /\ grabbed' = task
          /\ \/ /\ Executable(a) = "analyze_task"
                /\ Started(Agent, "analyze", "fetch")
                /\ UNCHANGED issued
             \/ /\ Executable(a) = "run_task"
                /\ Started(Agent, "attempt", "load")
                /\ UNCHANGED issued
             \/ /\ Executable(a) \in {"report_task", "replay_task"}
                /\ \E failure \in BOOLEAN : raised' = [raised EXCEPT ![Agent] = failure]
                /\ UNCHANGED <<store, pc, cmd, no, known, result, issued>>
             \/ /\ Executable(a) = "stop_manual_review"
                /\ raised' = [raised EXCEPT ![Agent] = FALSE]
                /\ UNCHANGED <<store, pc, cmd, no, known, result, issued>>
    BY <1>3 DEF Execute
  <2>2. action' \in RegistryActions
    BY <2>1, PlansExecutable
  <2>3. grabbed' \in [status : TaskStatus, current : Nat]
    BY <2>1 DEF TypeOK, StoreTypeOK
  <2>4. UNCHANGED store
    BY <2>1 DEF Started
  <2>5. StoreTypeOK'
    BY <2>4 DEF store, TypeOK, StoreTypeOK
  <2>6. LocalTypeOK'
    BY <2>1 DEF TypeOK, LocalTypeOK, Started, GoTo, Locations, Commands
  <2>7. QED
    BY <1>3, <2>2, <2>3, <2>5, <2>6 DEF Execute, TypeOK
<1>4. CASE Return
  <2>1. task' \in [status : TaskStatus, current : Nat]
    BY <1>4 DEF Return, AfterException, TypeOK, StoreTypeOK, TaskStatus
  <2>2. TypeOK'
    BY <1>4, <2>1 DEF Return, local, TypeOK, StoreTypeOK, LocalTypeOK
  <2>3. QED
    BY <1>4, <2>2 DEF Return
<1>5. CASE Route
  <2>1. TypeOK'
    BY <1>5 DEF Route, vars, store, local, TypeOK, StoreTypeOK, LocalTypeOK
  <2>2. step' \in 0..MaxSteps /\ stage' \in {"stopped", "observe"}
    BY <1>0, <1>5 DEF Route, Stopped
  <2>3. replayed' \in BOOLEAN
    BY <1>5 DEF Route
  <2>4. QED
    BY <1>5, <2>1, <2>2, <2>3 DEF Route
<1>6. CASE Die
  <2>1. LocalTypeOK'
    <3>1. CASE UNCHANGED local
      BY <1>6, <3>1 DEF Die, local, TypeOK, LocalTypeOK
    <3>2. CASE Ended(Agent, TRUE)
      BY <3>2, EndedTypes DEF TypeOK
    <3>3. QED
      BY <1>6, <3>1, <3>2 DEF Die
  <2>2. QED
    BY <1>6, <2>1 DEF Die, store, TypeOK, StoreTypeOK
<1>7. QED
  BY <1>1, <1>2, <1>3, <1>4, <1>5, <1>6 DEF GraphStep

LEMMA CommandStepTypes ==
    ASSUME TypeOK, NEW c \in Callers, Step(c)
    PROVE  TypeOK'
BY CommandTypes, AnalyzeTypes, RunTaskTypes, AttemptTypes DEF Step, Proceed

\* Everything the agent and the commands beside it write, see and carry stays
\* in its type; in particular the planner never proposes, past the guard, an
\* action the registry does not know, and the step count never passes its end.
THEOREM AgentTyping == AgentSpec => []AgentTypeOK
<1>1. AgentInit => AgentTypeOK
  <2> SUFFICES ASSUME AgentInit PROVE AgentTypeOK
    OBVIOUS
  <2>1. TypeOK
    BY TypesInitially DEF AgentInit
  <2>2. seen \in Observations /\ grabbed \in [status : TaskStatus, current : Nat]
    BY <2>1, ObservedTypes DEF AgentInit, TypeOK, StoreTypeOK
  <2>3. step \in 0..MaxSteps
    BY MaxStepsPositive DEF AgentInit
  <2>4. /\ stage = "off" /\ action \in RegistryActions
        /\ reported \in BOOLEAN /\ replayed \in BOOLEAN
    BY Zenon DEF AgentInit, RegistryActions
  <2>5. QED
    BY <2>1, <2>2, <2>3, <2>4 DEF AgentTypeOK
<1>2. AgentTypeOK /\ [AgentNext]_agentVars => AgentTypeOK'
  <2> SUFFICES ASSUME AgentTypeOK, [AgentNext]_agentVars PROVE AgentTypeOK'
    OBVIOUS
  <2>1. CASE GraphStep
    BY <2>1, GraphTypes
  <2>2. ASSUME NEW c \in Callers, Step(c), UNCHANGED agent PROVE AgentTypeOK'
    BY <2>2, CommandStepTypes DEF AgentTypeOK, agent
  <2>3. CASE UNCHANGED agentVars
    BY <2>3 DEF agentVars, agent, vars, store, local, AgentTypeOK, TypeOK, StoreTypeOK, LocalTypeOK
  <2>4. QED
    BY <2>1, <2>2, <2>3, AgentSteps
<1>3. QED
  BY <1>1, <1>2, PTL DEF AgentSpec

----------------------------------------------------------------------------
(* The attempts table under an agent and other callers *)

\* The agent takes its numbers as everybody does: with any other callers on
\* the task, the number next_attempt_no would hand out now is on no row.
THEOREM AgentNumberFree == AgentSpec => []NextNumberFree
<1>1. AgentInit => NumbersInv
  BY DEF AgentInit, Init, NumbersInv
<1>2. AgentTypeOK /\ NumbersInv /\ [AgentNext]_agentVars => NumbersInv'
  <2> SUFFICES ASSUME AgentTypeOK, NumbersInv, [AgentNext]_agentVars PROVE NumbersInv'
    OBVIOUS
  <2>1. CASE GraphStep
    BY <2>1, GraphKeeps DEF AgentTypeOK, NumbersInv
  <2>2. ASSUME NEW c \in Callers, Step(c) PROVE NumbersInv'
    BY <2>2, NumbersStep DEF AgentTypeOK
  <2>3. CASE UNCHANGED agentVars
    BY <2>3 DEF agentVars, vars, store, local, NumbersInv
  <2>4. QED
    BY <2>1, <2>2, <2>3, AgentSteps
<1>3. AgentTypeOK /\ NumbersInv => NextNumberFree
  <2> SUFFICES ASSUME AgentTypeOK, NumbersInv, NEW i \in 1..Len(attempts)
               PROVE  attempts[i].no # Len(attempts) + 1
    BY DEF NextNumberFree, NextAttemptNo
  <2>1. attempts[i].no \in Nat /\ Len(attempts) \in Nat /\ attempts[i].no <= Len(attempts)
    BY RowTypes DEF AgentTypeOK, TypeOK, StoreTypeOK, NumbersInv
  <2>2. QED
    BY <2>1
<1>4. QED
  BY <1>1, <1>2, <1>3, AgentTyping, PTL DEF AgentSpec

\* Nor does the agent ever write past its row: with any other callers on the
\* task, every update hits a row, and every record and report belongs to one,
\* although an agent's failed action leaves the task to whoever comes next.
THEOREM AgentRowsFound == AgentSpec => []WritesFindTheirRow
<1>1. AgentInit => FoundInv
  BY DEF AgentInit, Init, FoundInv, WritesFindTheirRow
<1>2. AgentTypeOK /\ FoundInv /\ [AgentNext]_agentVars => FoundInv'
  <2> SUFFICES ASSUME AgentTypeOK, FoundInv, [AgentNext]_agentVars PROVE FoundInv'
    OBVIOUS
  <2>1. CASE GraphStep
    BY <2>1, GraphKeeps DEF AgentTypeOK, FoundInv, WritesFindTheirRow, Numbered
  <2>2. ASSUME NEW c \in Callers, Step(c) PROVE FoundInv'
    BY <2>2, FoundStep DEF AgentTypeOK
  <2>3. CASE UNCHANGED agentVars
    BY <2>3 DEF agentVars, vars, store, local, FoundInv, WritesFindTheirRow, Numbered
  <2>4. QED
    BY <2>1, <2>2, <2>3, AgentSteps
<1>3. FoundInv => WritesFindTheirRow
  BY DEF FoundInv
<1>4. QED
  BY <1>1, <1>2, <1>3, AgentTyping, PTL DEF AgentSpec

----------------------------------------------------------------------------
(* The order of the rows of an agent that is alone *)

Closed == {"failed", "built", "target_state"}

\* The agent's rows are numbered in order, and the one it works on is the last.
OrderInv ==
    /\ NumberedInOrder
    /\ pc[Agent] \in {"lookup", "seed"} => no[Agent] = Len(attempts) + 1
    /\ pc[Agent] = "seed" => ~known[Agent]
    /\ pc[Agent] \in {"mark_running", "build"} => Owns(Agent, "running")
    /\ pc[Agent] \in {"diagnose", "record", "validate", "finish", "decide"} =>
          Owns(Agent, result[Agent].status) /\ result[Agent].status \in Closed

\* A command that holds a result got it from the build, and keeps its status.
LEMMA ResultStep ==
    ASSUME TypeOK, NEW c \in Callers, Step(c),
           pc'[c] \in {"diagnose", "record", "validate", "finish", "decide"}
    PROVE  \/ Build(c)
           \/ /\ pc[c] \in {"diagnose", "record", "validate", "finish"}
              /\ result'[c].status = result[c].status
              /\ UNCHANGED attempts \/ Diagnose(c)
<1> USE DEF TypeOK, LocalTypeOK, GoTo, Ended, Locations, At
<1>1. CASE StartAnalyze(c) \/ StartRun(c) \/ Abort(c)
  BY <1>1 DEF StartAnalyze, StartRun, Abort, Started
<1>2. CASE Analyze(c)
  BY <1>2 DEF Analyze, FetchSource, FailSource, RecordSourceFailure, WriteConstraintReport,
              PublishAnalysis
<1>3. CASE RunTask(c)
  BY <1>3 DEF RunTask, CheckTerminal, CheckBudget, DecideRetry
<1>4. CASE LoadInputs(c) \/ TakeNumber(c) \/ LookupRow(c) \/ SeedAttempt(c) \/ MarkRunning(c)
  BY <1>4 DEF LoadInputs, TakeNumber, LookupRow, SeedAttempt, MarkRunning
<1>5. CASE Diagnose(c)
  <2>1. PICK f \in FailureTypes \cup {"none"}, e \in FailureTypes \cup {"none"} :
            Diagnosed(c, f, e)
    BY <1>5, DiagnosedTypes
  <2>2. result' = [result EXCEPT ![c].failure = f, ![c].diagnosis = e]
    BY <2>1 DEF Diagnosed
  <2>3. result[c] \in Results
    OBVIOUS
  <2>4. result'[c].status = result[c].status
    BY <2>2, <2>3 DEF Results
  <2>5. QED
    BY <1>5, <2>4 DEF Diagnose
<1>6. CASE WriteFailureRecord(c) \/ Validate(c) \/ FinishAttempt(c)
  BY <1>6 DEF WriteFailureRecord, Validate, FinishAttempt
<1>7. QED
  BY <1>1, <1>2, <1>3, <1>4, <1>5, <1>6 DEF Step, Proceed, RunAttempt

\* What a build and its diagnosis make of the last row.
LEMMA LastRowWritten ==
    ASSUME TypeOK, OrderInv, Build(Agent) \/ Diagnose(Agent)
    PROVE  /\ Len(attempts) > 0 /\ no'[Agent] = Len(attempts)
           /\ Len(attempts') = Len(attempts)
           /\ \A i \in 1..Len(attempts) - 1 : attempts'[i] = attempts[i]
           /\ attempts'[Len(attempts)].status = result'[Agent].status
           /\ result'[Agent].status \in Closed
<1> USE AgentIsCaller
<1>1. CASE Build(Agent)
  <2>1. Owns(Agent, "running") /\ no'[Agent] = no[Agent]
    BY <1>1 DEF Build, At, OrderInv
  <2>2. PICK o \in BuildOutcomes, ineffective \in BOOLEAN :
            /\ attempts' = Updated(no[Agent], o.status, o.failure)
            /\ result' = [result EXCEPT ![Agent] =
                  [status |-> o.status, failure |-> o.failure,
                   diagnosis |-> "none", ineffective |-> ineffective]]
    BY <1>1 DEF Build
  <2>3. result'[Agent].status = o.status
    BY <2>2 DEF TypeOK, LocalTypeOK
  <2>4. o.status \in Closed /\ o.status \in AttemptStatus
    BY DEF BuildOutcomes, Closed, AttemptStatus
  <2>5. o.failure \in FailureTypes \cup {"none"}
    BY BuiltTypes
  <2>6. QED
    BY <2>1, <2>2, <2>3, <2>4, <2>5, LastUpdated DEF Owns, OrderInv
<1>2. CASE Diagnose(Agent)
  <2>1. /\ Owns(Agent, result[Agent].status) /\ no'[Agent] = no[Agent]
        /\ result[Agent].status \in Closed
    BY <1>2 DEF Diagnose, At, OrderInv
  <2>2. PICK f \in FailureTypes \cup {"none"}, e \in FailureTypes \cup {"none"} :
            Diagnosed(Agent, f, e)
    BY <1>2, DiagnosedTypes
  <2>3. /\ attempts' = Updated(no[Agent], result[Agent].status, f)
        /\ result' = [result EXCEPT ![Agent].failure = f, ![Agent].diagnosis = e]
    BY <2>2 DEF Diagnosed
  <2>4. result[Agent] \in Results
    BY DEF TypeOK, LocalTypeOK
  <2>5. /\ result'[Agent].status = result[Agent].status
        /\ result[Agent].status \in AttemptStatus
    BY <2>3, <2>4 DEF TypeOK, LocalTypeOK, Results
  <2>6. QED
    BY <2>1, <2>3, <2>5, LastUpdated DEF Owns, OrderInv
<1>3. QED
  BY <1>1, <1>2

\* A command that has seeded but not built got there by seeding.
LEMMA RunningStep ==
    ASSUME TypeOK, NEW c \in Callers, Step(c), pc'[c] \in {"mark_running", "build"}
    PROVE  SeedAttempt(c) \/ (pc[c] = "mark_running" /\ UNCHANGED attempts)
<1> USE DEF TypeOK, LocalTypeOK, GoTo, Ended, Locations, At
<1>1. CASE StartAnalyze(c) \/ StartRun(c) \/ Abort(c)
  BY <1>1 DEF StartAnalyze, StartRun, Abort, Started
<1>2. CASE Analyze(c)
  BY <1>2 DEF Analyze, FetchSource, FailSource, RecordSourceFailure, WriteConstraintReport,
              PublishAnalysis
<1>3. CASE RunTask(c)
  BY <1>3 DEF RunTask, CheckTerminal, CheckBudget, DecideRetry
<1>4. CASE LoadInputs(c) \/ TakeNumber(c) \/ LookupRow(c) \/ MarkRunning(c)
  BY <1>4 DEF LoadInputs, TakeNumber, LookupRow, MarkRunning
<1>5. CASE Build(c) \/ Diagnose(c)
  BY <1>5 DEF Build, Diagnose
<1>6. CASE WriteFailureRecord(c) \/ Validate(c) \/ FinishAttempt(c)
  BY <1>6 DEF WriteFailureRecord, Validate, FinishAttempt
<1>7. QED
  BY <1>1, <1>2, <1>3, <1>4, <1>5, <1>6 DEF Step, Proceed, RunAttempt

LEMMA OrderStep ==
    ASSUME Callers = {Agent}, TypeOK, OrderInv, Step(Agent)
    PROVE  OrderInv'
<1> USE AgentIsCaller
<1>0. Len(attempts) \in Nat /\ DOMAIN attempts = 1..Len(attempts) /\ NumberedInOrder
  BY RowTypes DEF TypeOK, StoreTypeOK, OrderInv
<1>1. NumberedInOrder'
  <2>1. CASE Len(attempts') = Len(attempts)
    BY <1>0, <2>1, RowsKept DEF NumberedInOrder
  <2>2. CASE /\ SeedAttempt(Agent) /\ Len(attempts') = Len(attempts) + 1
             /\ attempts'[Len(attempts) + 1].no = no[Agent]
    <3>1. no[Agent] = Len(attempts) + 1
      BY <2>2, SeedStep DEF OrderInv
    <3>2. \A i \in 1..Len(attempts) : attempts'[i].no = i
      BY <1>0, RowsKept DEF NumberedInOrder
    <3>3. QED
      BY <1>0, <2>2, <3>1, <3>2 DEF NumberedInOrder
  <2>3. QED
    BY <2>1, <2>2, RowsKept
<1>2. ASSUME pc'[Agent] \in {"lookup", "seed"}
      PROVE  /\ no'[Agent] = Len(attempts') + 1
             /\ pc'[Agent] = "seed" => ~known'[Agent]
  <2>1. /\ attempts' = attempts /\ no'[Agent] = Len(attempts) + 1
        /\ pc'[Agent] = "seed" =>
              known'[Agent] = (\E i \in 1..Len(attempts) : attempts[i].no = no'[Agent])
    BY <1>2, NumberTaken DEF OrderInv
  <2>2. ~(\E i \in 1..Len(attempts) : attempts[i].no = no'[Agent])
    BY <1>0, <2>1 DEF NumberedInOrder
  <2>3. QED
    BY <2>1, <2>2
<1>3. ASSUME pc'[Agent] \in {"mark_running", "build"} PROVE Owns(Agent, "running")'
  <2>1. CASE SeedAttempt(Agent)
    <3>1. ~known[Agent] /\ no[Agent] = Len(attempts) + 1 /\ no'[Agent] = no[Agent]
      BY <2>1, SeedStep DEF OrderInv
    <3>2. QED
      BY <1>0, <2>1, <3>1, SeededRow DEF Owns
  <2>2. CASE ~SeedAttempt(Agent)
    <3>1. pc[Agent] = "mark_running" /\ UNCHANGED attempts
      BY <1>3, <2>2, RunningStep
    <3>2. no'[Agent] = no[Agent]
      BY <1>3, WritingStep DEF Writing
    <3>3. QED
      BY <3>1, <3>2 DEF OrderInv, Owns
  <2>3. QED
    BY <2>1, <2>2
<1>4. ASSUME pc'[Agent] \in {"diagnose", "record", "validate", "finish", "decide"}
      PROVE  Owns(Agent, result[Agent].status)' /\ result'[Agent].status \in Closed
  <2>1. CASE Build(Agent) \/ Diagnose(Agent)
    BY <1>0, <2>1, LastRowWritten DEF Owns
  <2>2. CASE /\ pc[Agent] \in {"diagnose", "record", "validate", "finish"}
             /\ result'[Agent].status = result[Agent].status
             /\ UNCHANGED attempts
    <3>1. no'[Agent] = no[Agent]
      BY <1>4, WritingStep, SeedStep, <2>2 DEF Writing
    <3>2. QED
      BY <2>2, <3>1 DEF OrderInv, Owns
  <2>3. QED
    BY <1>4, <2>1, <2>2, ResultStep
<1>5. QED
  BY <1>1, <1>2, <1>3, <1>4 DEF OrderInv

----------------------------------------------------------------------------
(* Which command an agent that is alone has under way *)

Inside == {"mark_running", "build", "diagnose", "record", "validate", "finish"}

\* Where an attempt of the agent stands before it has a row.
Unseeded == {"load", "fetch", "report", "publish", "number", "lookup", "seed"}

\* A command is under way for the action that the graph executes.
Doing ==
    /\ stage = "execute"
    /\ \/ /\ action = "analyze_task" /\ cmd[Agent] = "analyze"
          /\ pc[Agent] \in {"fetch", "report", "publish", "source_failed"}
       \/ /\ action = "run_task" /\ cmd[Agent] = "attempt"
          /\ pc[Agent] \in Unseeded \cup Inside \cup {"source_failed"}

\* Nobody writes between the agent's look and its plan.
CommandInv ==
    /\ pc[Agent] = "idle" \/ Doing
    /\ stage = "plan" => seen \in Views

\* What an agent that is alone does besides the graph: a step of the command
\* under way, or its death.
AgentMove == (Proceed(Agent) \/ Abort(Agent)) /\ UNCHANGED agent

LEMMA AloneSteps ==
    ASSUME Callers = {Agent}, AgentNext
    PROVE  GraphStep \/ AgentMove
<1>1. ~OthersStep
  BY DEF OthersStep
<1>2. QED
  BY <1>1 DEF AgentNext, AgentStep, GraphStep, AgentMove

LEMMA MoveIsStep ==
    ASSUME AgentMove
    PROVE  Step(Agent)
BY DEF AgentMove, Step

\* Where a step of the agent's command leads.
LEMMA MoveLeads ==
    ASSUME TypeOK, Doing, AgentMove
    PROVE  /\ cmd'[Agent] = cmd[Agent]
           /\ \/ pc'[Agent] = "idle"
              \/ /\ cmd[Agent] = "analyze"
                 /\ pc'[Agent] \in {"report", "publish", "source_failed"}
              \/ /\ cmd[Agent] = "attempt"
                 /\ pc'[Agent] \in Unseeded \cup Inside \cup {"source_failed"}
           /\ pc'[Agent] \in Unseeded \cup {"source_failed"} =>
                 pc[Agent] \in Unseeded /\ UNCHANGED <<attempts, records, reports>>
<1> USE AgentIsCaller DEF TypeOK, LocalTypeOK, GoTo, Ended, At, Doing, Unseeded, Inside, AgentMove
<1>1. CASE Abort(Agent)
  BY <1>1 DEF Abort
<1>2. CASE Analyze(Agent)
  BY <1>2 DEF Analyze, FetchSource, FailSource, RecordSourceFailure, WriteConstraintReport,
              PublishAnalysis
<1>3. CASE RunTask(Agent)
  BY <1>3 DEF RunTask, CheckTerminal, CheckBudget, DecideRetry
<1>4. CASE LoadInputs(Agent) \/ TakeNumber(Agent) \/ LookupRow(Agent) \/ SeedAttempt(Agent)
           \/ MarkRunning(Agent)
  BY <1>4 DEF LoadInputs, TakeNumber, LookupRow, SeedAttempt, MarkRunning, store
<1>5. CASE Build(Agent) \/ Diagnose(Agent)
  BY <1>5 DEF Build, Diagnose
<1>6. CASE WriteFailureRecord(Agent) \/ Validate(Agent) \/ FinishAttempt(Agent)
  BY <1>6 DEF WriteFailureRecord, Validate, FinishAttempt
<1>7. QED
  BY <1>1, <1>2, <1>3, <1>4, <1>5, <1>6 DEF Proceed, RunAttempt

\* A command that moves is under way.
LEMMA MovesWhileDoing ==
    ASSUME CommandInv, AgentMove
    PROVE  Doing
BY DEF CommandInv, AgentMove, Abort, Proceed, Analyze, FetchSource, FailSource,
       RecordSourceFailure, WriteConstraintReport, PublishAnalysis, RunTask, CheckTerminal,
       CheckBudget, DecideRetry, RunAttempt, LoadInputs, TakeNumber, LookupRow, SeedAttempt,
       MarkRunning, Build, Diagnose, WriteFailureRecord, Validate, FinishAttempt, At

\* What the graph makes of a plan: how the action and its command begin.
LEMMA ExecuteStarts ==
    ASSUME TypeOK, Execute
    PROVE  \E a \in Plans(seen) :
              /\ GuardAllows(a, seen)
              /\ action' = Executable(a) /\ grabbed' = task
              /\ UNCHANGED <<store, issued, step, seen, reported, replayed>>
              /\ stage = "plan" /\ stage' = "execute"
              /\ \/ /\ action' = "analyze_task"
                    /\ pc'[Agent] = "fetch" /\ cmd'[Agent] = "analyze"
                    /\ ~raised'[Agent]
                 \/ /\ action' = "run_task"
                    /\ pc'[Agent] = "load" /\ cmd'[Agent] = "attempt"
                 \/ /\ action' \in {"report_task", "replay_task", "stop_manual_review"}
                    /\ UNCHANGED <<pc, cmd>>
                    /\ action' = "stop_manual_review" => ~raised'[Agent]
<1> USE AgentIsCaller DEF TypeOK, LocalTypeOK
<1>1. PICK a \in Plans(seen) :
          /\ GuardAllows(a, seen)
          /\ action' = Executable(a)
          /\ grabbed' = task
          /\ \/ /\ Executable(a) = "analyze_task"
                /\ Started(Agent, "analyze", "fetch")
                /\ UNCHANGED issued
             \/ /\ Executable(a) = "run_task"
                /\ Started(Agent, "attempt", "load")
                /\ UNCHANGED issued
             \/ /\ Executable(a) \in {"report_task", "replay_task"}
                /\ \E failure \in BOOLEAN : raised' = [raised EXCEPT ![Agent] = failure]
                /\ UNCHANGED <<store, pc, cmd, no, known, result, issued>>
             \/ /\ Executable(a) = "stop_manual_review"
                /\ raised' = [raised EXCEPT ![Agent] = FALSE]
                /\ UNCHANGED <<store, pc, cmd, no, known, result, issued>>
  BY DEF Execute
<1>2. UNCHANGED <<store, issued, step, seen, reported, replayed>>
  BY <1>1 DEF Execute, Started
<1>3. stage = "plan" /\ stage' = "execute"
  BY DEF Execute
<1>4. CASE Executable(a) = "analyze_task" /\ Started(Agent, "analyze", "fetch")
  <2>1. pc'[Agent] = "fetch" /\ cmd'[Agent] = "analyze" /\ ~raised'[Agent]
    BY <1>4 DEF Started, GoTo
  <2>2. QED
    BY <1>1, <1>2, <1>3, <1>4, <2>1
<1>5. CASE Executable(a) = "run_task" /\ Started(Agent, "attempt", "load")
  <2>1. pc'[Agent] = "load" /\ cmd'[Agent] = "attempt"
    BY <1>5 DEF Started, GoTo
  <2>2. QED
    BY <1>1, <1>2, <1>3, <1>5, <2>1
<1>6. CASE Executable(a) \in {"report_task", "replay_task"} /\ UNCHANGED <<pc, cmd>>
  BY <1>1, <1>2, <1>3, <1>6
<1>7. CASE /\ Executable(a) = "stop_manual_review" /\ UNCHANGED <<pc, cmd>>
           /\ raised' = [raised EXCEPT ![Agent] = FALSE]
  <2>1. ~raised'[Agent]
    BY <1>7
  <2>2. QED
    BY <1>1, <1>2, <1>3, <1>7, <2>1
<1>8. QED
  BY <1>1, <1>4, <1>5, <1>6, <1>7

\* The other nodes of the graph start no command.
LEMMA QuietNodes ==
    ASSUME TypeOK, GraphStep, ~Execute
    PROVE  \/ UNCHANGED <<pc[Agent], cmd[Agent]>>
           \/ pc'[Agent] = "idle"
BY AgentIsCaller
DEF GraphStep, StartAgent, Observe, Refuse, Return, Route, Die, vars, local, Ended, GoTo,
    TypeOK, LocalTypeOK

LEMMA CommandStep ==
    ASSUME TypeOK, CommandInv, GraphStep \/ AgentMove
    PROVE  CommandInv'
<1> USE AgentIsCaller
<1>1. CASE StartAgent \/ Refuse \/ Route
  BY <1>1 DEF StartAgent, Refuse, Route, Stopped, CommandInv, Doing, vars, local
<1>2. CASE Observe
  <2>1. UNCHANGED <<vars, reported, replayed>> /\ seen' \in Views /\ stage = "observe"
    BY <1>2 DEF Observe
  <2>2. Views' = Views
    BY <2>1 DEF vars, store, local, Views, Observed, AgentRecord, ValidationOf, LatestRows
  <2>3. QED
    BY <2>1, <2>2 DEF CommandInv, Doing, vars, local
<1>3. CASE Execute
  BY <1>3, ExecuteStarts DEF CommandInv, Doing, Unseeded
<1>4. CASE Return
  BY <1>4 DEF Return, CommandInv, Doing, local, At
<1>5. CASE Die
  <2>1. pc'[Agent] = "idle" /\ stage' = "dead"
    BY <1>5 DEF Die, Ended, GoTo, At, local, TypeOK, LocalTypeOK
  <2>2. QED
    BY <2>1 DEF CommandInv
<1>6. CASE AgentMove
  <2>1. Doing
    BY <1>6, MovesWhileDoing
  <2>2. UNCHANGED agent
    BY <1>6 DEF AgentMove
  <2>3. QED
    BY <1>6, <2>1, <2>2, MoveLeads DEF CommandInv, Doing, agent, Unseeded
<1>7. QED
  BY <1>1, <1>2, <1>3, <1>4, <1>5, <1>6 DEF GraphStep

AloneInv == AgentTypeOK /\ OrderInv /\ CommandInv

LEMMA OrderGraph ==
    ASSUME TypeOK, OrderInv, GraphStep
    PROVE  OrderInv'
<1>1. /\ UNCHANGED attempts
      /\ \/ UNCHANGED <<pc[Agent], no[Agent], known[Agent], result[Agent]>>
         \/ pc'[Agent] \in {"idle", "fetch", "load"}
  BY GraphKeeps, AgentIsCaller
<1>2. QED
  BY <1>1 DEF OrderInv, NumberedInOrder, Owns

LEMMA AloneInvariant ==
    ASSUME Callers = {Agent}
    PROVE  AgentSpec => []AloneInv
<1>1. AgentInit => OrderInv /\ CommandInv
  BY AgentIsCaller
  DEF AgentInit, Init, OrderInv, NumberedInOrder, CommandInv
<1>2. AgentTypeOK /\ OrderInv /\ CommandInv /\ [AgentNext]_agentVars => OrderInv' /\ CommandInv'
  <2> SUFFICES ASSUME AgentTypeOK, OrderInv, CommandInv, [AgentNext]_agentVars
               PROVE  OrderInv' /\ CommandInv'
    OBVIOUS
  <2>0. TypeOK
    BY DEF AgentTypeOK
  <2>1. CASE GraphStep
    BY <2>0, <2>1, OrderGraph, CommandStep
  <2>2. CASE AgentMove
    BY <2>0, <2>2, MoveIsStep, OrderStep, CommandStep
  <2>3. CASE UNCHANGED agentVars
    BY <2>3 DEF agentVars, agent, vars, store, local, OrderInv, NumberedInOrder, Owns,
                CommandInv, Doing, Views, Observed, AgentRecord, ValidationOf, LatestRows
  <2>4. QED
    BY <2>1, <2>2, <2>3, AloneSteps
<1>3. QED
  BY <1>1, <1>2, AgentTyping, PTL DEF AgentSpec, AloneInv

\* What a step of the agent's command leaves of the rows and of their files:
\* all but the last row are as they were, and so is what is read of them.
LEMMA EarlierKept ==
    ASSUME TypeOK, OrderInv, AgentMove
    PROVE  \/ /\ SeedAttempt(Agent)
              /\ Len(attempts') = Len(attempts) + 1
              /\ attempts'[Len(attempts) + 1].status = "running"
              /\ \A i \in 1..Len(attempts) : attempts'[i] = attempts[i]
              /\ UNCHANGED <<records, reports>>
           \/ /\ Len(attempts') = Len(attempts)
              /\ \A i \in 1..Len(attempts) - 1 :
                    /\ attempts'[i] = attempts[i]
                    /\ \A f : /\ RecordOf(i, f)' = RecordOf(i, f)
                              /\ ValidationOf(i)' = ValidationOf(i)
<1> USE AgentIsCaller
<1>0. Step(Agent) /\ Len(attempts) \in Nat
  BY MoveIsStep, RowTypes DEF TypeOK, StoreTypeOK
<1>1. CASE SeedAttempt(Agent)
  <2>1. ~known[Agent]
    BY <1>1, SeedStep DEF OrderInv
  <2>2. QED
    BY <1>1, <2>1, SeededRow DEF SeedAttempt
<1>2. CASE Build(Agent) \/ Diagnose(Agent)
  <2>1. UNCHANGED <<records, reports>>
    BY <1>2 DEF Build, Diagnose
  <2>2. QED
    BY <1>2, <2>1, LastRowWritten, RowReadsStay
<1>3. CASE WriteFailureRecord(Agent) \/ Validate(Agent)
  <2>1. UNCHANGED attempts /\ no[Agent] = Len(attempts)
    BY <1>3 DEF WriteFailureRecord, Validate, At, OrderInv, Owns
  <2>2. \/ \E x : records' = Written(records, no[Agent], x) /\ UNCHANGED reports
        \/ \E x : reports' = Written(reports, no[Agent], x) /\ UNCHANGED records
    BY <1>3 DEF WriteFailureRecord, Validate
  <2>3. ASSUME NEW i \in 1..Len(attempts) - 1, NEW f
        PROVE  RecordOf(i, f)' = RecordOf(i, f) /\ ValidationOf(i)' = ValidationOf(i)
    <3>1. no[Agent] # i
      BY <1>0, <2>1
    <3>2. QED
      BY <2>2, <3>1, RowReadsStay
  <2>4. QED
    BY <2>1, <2>3
<1>4. CASE ~SeedAttempt(Agent) /\ ~Build(Agent) /\ ~Diagnose(Agent)
           /\ ~WriteFailureRecord(Agent) /\ ~Validate(Agent)
  BY <1>0, <1>4, AttemptWrites, FilesKept, RowReadsStay
<1>5. QED
  BY <1>1, <1>2, <1>3, <1>4

----------------------------------------------------------------------------
(* No attempt after a verdict *)

\* What is stored of attempt i is no verdict: no failure the guard calls
\* terminal, and no result of a validation.
Clear(i) ==
    /\ RecordOf(attempts[i].no, attempts[i].failure).failure \notin TerminalFailures
    /\ ValidationOf(attempts[i].no) \notin Concluded

\* What the guard and the planner saw still holds when the attempt is seeded.
VerdictInv ==
    /\ \A i \in 1..Len(attempts) - 1 : Clear(i)
    /\ cmd[Agent] = "attempt" /\ pc[Agent] \in Unseeded =>
          \A i \in 1..Len(attempts) : Clear(i)

\* A plan for an attempt that the guard lets through is made on an
\* observation without a verdict, whoever made it.
LEMMA AttemptPlanned ==
    ASSUME NEW o, NEW a \in Plans(o), GuardAllows(a, o), Executable(a) = "run_task"
    PROVE  /\ o.validation \notin Concluded
           /\ o.failure \notin TerminalFailures
           /\ BudgetLeft(o)
<1>1. a \in ConsumesAttempt
  BY DEF Executable, ConsumesAttempt
<1>2. CASE a = FallbackPlan(o)
  <2>1. ~ShouldReport(o)
    BY <1>1, <1>2 DEF FallbackPlan, ConsumesAttempt
  <2>2. QED
    BY <1>1, <2>1 DEF ShouldReport, GuardAllows
<1>3. CASE ~RepeatsAfterValidationResult(a, o)
  BY <1>1, <1>3 DEF RepeatsAfterValidationResult, GuardAllows
<1>4. QED
  BY <1>2, <1>3 DEF Plans

\* What the agent saw, when nobody has written since, is the last row.
LEMMA SeenLast ==
    ASSUME TypeOK, NumberedInOrder, seen \in Views
    PROVE  IF Len(attempts) = 0
           THEN seen = Observed(0, "none", "none")
           ELSE seen = Observed(Len(attempts), attempts[Len(attempts)].status,
                                attempts[Len(attempts)].failure)
<1>0. attempts \in Seq(Rows) /\ Len(attempts) \in Nat
  BY RowTypes DEF TypeOK, StoreTypeOK
<1>1. CASE attempts = <<>>
  BY <1>1 DEF Views
<1>2. CASE attempts # <<>>
  <2>1. PICK i \in LatestRows :
            seen = Observed(attempts[i].no, attempts[i].status, attempts[i].failure)
    BY <1>2 DEF Views
  <2>2. i = Len(attempts) /\ Len(attempts) > 0
    BY LastRow
  <2>3. attempts[Len(attempts)].no = Len(attempts)
    BY <1>0, <2>2 DEF NumberedInOrder
  <2>4. QED
    BY <1>0, <2>1, <2>2, <2>3
<1>3. QED
  BY <1>1, <1>2

LEMMA SeenClear ==
    ASSUME TypeOK, NumberedInOrder, seen \in Views, Len(attempts) > 0,
           seen.validation \notin Concluded, seen.failure \notin TerminalFailures
    PROVE  Clear(Len(attempts))
<1> DEFINE n == Len(attempts)
           f == attempts[n].failure
<1>1. n \in Nat
  BY RowTypes DEF TypeOK, StoreTypeOK
<1>2. seen = Observed(n, attempts[n].status, f)
  BY <1>1, SeenLast
<1>3. attempts[n].no = n
  BY <1>1 DEF NumberedInOrder
<1>4. ValidationOf(n) \notin Concluded
  BY <1>2 DEF Observed
<1>5. ObservedFailure(AgentRecord(n, f), ValidationOf(n)) \notin TerminalFailures
  BY <1>2 DEF Observed
<1>6. AgentRecord(n, f).failure \notin TerminalFailures
  BY <1>5 DEF ObservedFailure, TerminalFailures
<1>7. RecordOf(n, f).failure \notin TerminalFailures
  BY <1>6 DEF RecordOf, AgentRecord, SourceUnavailable, TerminalFailures
<1>8. QED
  BY <1>3, <1>4, <1>7 DEF Clear

LEMMA VerdictGraph ==
    ASSUME AloneInv, VerdictInv, GraphStep
    PROVE  VerdictInv'
<1> USE AgentIsCaller
<1>0. TypeOK /\ OrderInv /\ CommandInv /\ Len(attempts) \in Nat /\ NumberedInOrder
  BY RowTypes DEF AloneInv, AgentTypeOK, TypeOK, StoreTypeOK, OrderInv
<1>1. UNCHANGED <<attempts, records, reports>>
  BY <1>0, GraphKeeps
<1>2. \A i : Clear(i)' = Clear(i)
  BY <1>1 DEF Clear, RecordOf, ValidationOf
<1>3. CASE UNCHANGED <<pc[Agent], cmd[Agent]>>
  BY <1>1, <1>2, <1>3 DEF VerdictInv
<1>4. CASE pc'[Agent] = "idle"
  BY <1>1, <1>2, <1>4 DEF VerdictInv, Unseeded
<1>5. CASE Execute /\ action' = "run_task"
  <2>1. PICK a \in Plans(seen) : GuardAllows(a, seen) /\ action' = Executable(a)
    BY <1>0, <1>5, ExecuteStarts
  <2>2. seen.validation \notin Concluded /\ seen.failure \notin TerminalFailures
    BY <1>5, <2>1, AttemptPlanned
  <2>3. seen \in Views
    BY <1>0, <1>5 DEF CommandInv, Execute
  <2>4. Len(attempts) > 0 => Clear(Len(attempts))
    BY <1>0, <2>2, <2>3, SeenClear
  <2>5. \A i \in 1..Len(attempts) : Clear(i)
    BY <1>0, <2>4 DEF VerdictInv
  <2>6. QED
    BY <1>1, <1>2, <2>5 DEF VerdictInv
<1>6. CASE Execute /\ action' # "run_task"
  <2>1. cmd'[Agent] = "analyze" \/ UNCHANGED <<pc[Agent], cmd[Agent]>>
    BY <1>0, <1>6, ExecuteStarts
  <2>2. QED
    BY <1>1, <1>2, <1>3, <2>1 DEF VerdictInv
<1>7. CASE ~Execute
  <2>1. UNCHANGED <<pc[Agent], cmd[Agent]>> \/ pc'[Agent] = "idle"
    BY <1>0, <1>7, QuietNodes
  <2>2. QED
    BY <1>3, <1>4, <2>1
<1>8. QED
  BY <1>5, <1>6, <1>7

LEMMA VerdictMove ==
    ASSUME AloneInv, VerdictInv, AgentMove
    PROVE  VerdictInv'
<1>0. /\ TypeOK /\ OrderInv /\ CommandInv /\ Doing
      /\ Len(attempts) \in Nat /\ NumberedInOrder
  BY RowTypes, MovesWhileDoing DEF AloneInv, AgentTypeOK, TypeOK, StoreTypeOK, OrderInv
<1>1. CASE SeedAttempt(Agent)
  <2>1. /\ Len(attempts') = Len(attempts) + 1
        /\ \A i \in 1..Len(attempts) : attempts'[i] = attempts[i]
        /\ UNCHANGED <<records, reports>>
    BY <1>0, <1>1, SeedStep, EarlierKept, AgentIsCaller, SeededRow DEF OrderInv, SeedAttempt
  <2>2. \A i \in 1..Len(attempts) : Clear(i)
    BY <1>0, <1>1, SeedStep, AgentIsCaller DEF VerdictInv, Doing, Unseeded
  <2>3. \A i \in 1..Len(attempts) : Clear(i)'
    BY <2>1, <2>2 DEF Clear, RecordOf, ValidationOf
  <2>4. pc'[Agent] = "mark_running"
    BY <1>0, <1>1, SeedStep, AgentIsCaller
  <2>5. QED
    BY <1>0, <2>1, <2>3, <2>4 DEF VerdictInv, Unseeded
<1>2. CASE ~SeedAttempt(Agent)
  <2>1. /\ Len(attempts') = Len(attempts)
        /\ \A i \in 1..Len(attempts) - 1 :
              /\ attempts'[i] = attempts[i]
              /\ \A f : /\ RecordOf(i, f)' = RecordOf(i, f)
                        /\ ValidationOf(i)' = ValidationOf(i)
    BY <1>0, <1>2, EarlierKept
  <2>2. \A i \in 1..Len(attempts) - 1 : attempts[i].no = i
    BY <1>0 DEF NumberedInOrder
  <2>3. \A i \in 1..Len(attempts) - 1 : Clear(i)'
    BY <2>1, <2>2 DEF VerdictInv, Clear
  <2>4. ASSUME cmd'[Agent] = "attempt", pc'[Agent] \in Unseeded
        PROVE  \A i \in 1..Len(attempts') : Clear(i)'
    <3>1. /\ cmd[Agent] = "attempt" /\ pc[Agent] \in Unseeded
          /\ UNCHANGED <<attempts, records, reports>>
      BY <1>0, <2>4, MoveLeads
    <3>2. QED
      BY <3>1 DEF VerdictInv, Clear, RecordOf, ValidationOf
  <2>5. QED
    BY <2>1, <2>3, <2>4 DEF VerdictInv
<1>3. QED
  BY <1>1, <1>2

\* No attempt follows one whose stored failure the guard calls terminal, or
\* one that has a validation result: an agent alone on its task, whether it
\* plans by the fallback rules or a language model chooses among all that it
\* is offered, and wherever the attempt before it died.
THEOREM AgentRespectsVerdicts ==
    ASSUME Callers = {Agent}
    PROVE  AgentSpec => []NoAttemptAfterVerdict
<1>1. AgentInit => VerdictInv
  BY DEF AgentInit, Init, VerdictInv
<1>2. AloneInv /\ VerdictInv /\ [AgentNext]_agentVars => VerdictInv'
  <2> SUFFICES ASSUME AloneInv, VerdictInv, [AgentNext]_agentVars PROVE VerdictInv'
    OBVIOUS
  <2>1. CASE UNCHANGED agentVars
    BY <2>1 DEF agentVars, vars, store, local, VerdictInv, Clear, RecordOf, ValidationOf
  <2>2. QED
    BY <2>1, AloneSteps, VerdictGraph, VerdictMove
<1>3. VerdictInv => NoAttemptAfterVerdict
  BY DEF VerdictInv, Clear, NoAttemptAfterVerdict
<1>4. QED
  BY <1>1, <1>2, <1>3, AloneInvariant, PTL DEF AgentSpec

----------------------------------------------------------------------------
(* The agent that plans by the fallback rules *)

One(b) == IF b THEN 1 ELSE 0

\* How many rounds of the graph have left a trace in the store: the analysis,
\* every attempt, and the report.
Rounds == One(task.status # "created") + Len(attempts) + One(reported)

\* The task row shows the last attempt, which is over.
Shown ==
    Len(attempts) > 0 =>
        /\ task.status = attempts[Len(attempts)].status
        /\ task.status \in Closed
        /\ task.current = Len(attempts)

EarlierFailed == \A i \in 1..Len(attempts) - 1 : attempts[i].status \notin Success

\* While an action is executed.
Executing ==
    /\ action = "analyze_task" =>
          /\ attempts = <<>> /\ grabbed.status = "created"
          /\ step <= 1 + One(reported)
          /\ pc[Agent] = "idle" /\ ~raised[Agent] => task.status # "created"
    /\ action = "run_task" =>
          /\ seen.latest \notin Success
          /\ pc[Agent] \in Unseeded => Len(attempts) < MaxAttempts /\ Undone /\ step <= Rounds + 1
          /\ pc[Agent] \in Inside => step <= Rounds
          /\ pc[Agent] = "idle" /\ ~raised[Agent] => Shown /\ step <= Rounds
    /\ action = "report_task" => Shown /\ ~reported /\ step <= Rounds + 1
    /\ action = "replay_task" => reported
    /\ action = "stop_manual_review" => Undone

\* After an action, before the route is taken.
Routing ==
    /\ action \in {"analyze_task", "run_task", "report_task"} =>
          (~raised[Agent] \/ action = "analyze_task" => Shown /\ step <= Rounds)
    /\ action = "run_task" => seen.latest \notin Success
    /\ action = "replay_task" => reported
    /\ action = "stop_manual_review" => Undone

\* Every round leaves its trace, so the steps cannot run out before the
\* budget does, and nothing is left to do when the graph stops.
FallbackInv ==
    /\ AttemptBudget
    /\ EarlierFailed
    /\ replayed => stage = "stopped"
    /\ stage = "off" => attempts = <<>> /\ task.status = "created" /\ ~reported
    /\ stage \in {"observe", "plan"} => Shown /\ step <= Rounds + 1
    /\ stage = "execute" => Executing
    /\ stage = "route" => Routing
    /\ MaxSteps >= MaxAttempts + 3 => SuccessIsReplayed

\* What the fallback rules make of a task that shows its last attempt.
LEMMA FallbackPlans ==
    ASSUME TypeOK, NumberedInOrder, EarlierFailed, Shown, ~replayed, UseModel = FALSE,
           seen \in Views, NEW a \in Plans(seen)
    PROVE  /\ Executable(a) = "analyze_task" => attempts = <<>> /\ task.status = "created"
           /\ Executable(a) = "run_task" =>
                 /\ Undone /\ seen.latest \notin Success
                 /\ Len(attempts) > 0 => seen.current = Len(attempts)
           /\ Executable(a) = "report_task" => ~reported
           /\ Executable(a) = "replay_task" => reported
           /\ Executable(a) = "stop_manual_review" => Undone
           /\ ~Undone => GuardAllows(a, seen) /\ ~GuardMayRefuse(a)
<1>0. attempts \in Seq(Rows) /\ Len(attempts) \in Nat
  BY RowTypes DEF TypeOK, StoreTypeOK
<1>1. a = FallbackPlan(seen)
  BY DEF Plans
<1>2. CASE Len(attempts) = 0
  <2>1. /\ seen = Observed(0, "none", "none") /\ attempts = <<>> /\ Undone
    BY <1>0, <1>2, SeenLast DEF Undone
  <2>2. /\ seen.latest = "none" /\ seen.status = task.status
        /\ seen.reported = reported /\ seen.replayed = replayed
    BY <2>1 DEF Observed
  <2>3. QED
    BY <1>1, <1>2, <2>1, <2>2
    DEF FallbackPlan, ShouldReplayAfterReport, ShouldReport, NeedsSourceAnalysis, Success,
        Decide, PolicyReports, Executable, ConsumesAttempt
<1>3. CASE Len(attempts) > 0
  <2>1. seen = Observed(Len(attempts), attempts[Len(attempts)].status,
                        attempts[Len(attempts)].failure)
    BY <1>0, <1>3, SeenLast
  <2>2. /\ seen.latest = attempts[Len(attempts)].status /\ seen.status = seen.latest
        /\ seen.latestNo = Len(attempts) /\ seen.current = Len(attempts)
        /\ seen.status \in Closed
        /\ seen.reported = reported /\ seen.replayed = replayed
    BY <1>3, <2>1 DEF Observed, Shown
  <2>3. Undone <=> seen.latest \notin Success
    BY <1>0, <1>3, <2>2 DEF Undone, EarlierFailed
  <2>4. ~NeedsSourceAnalysis(seen) /\ ~LooksConfirmedPositive(seen)
    BY <1>0, <1>3, <2>2 DEF NeedsSourceAnalysis, LooksConfirmedPositive, Closed
  <2>5. CASE ShouldReplayAfterReport(seen)
    <3>1. a = "replay_task" /\ reported
      BY <1>1, <2>2, <2>5 DEF FallbackPlan, ShouldReplayAfterReport
    <3>2. QED
      BY <3>1 DEF Executable, ConsumesAttempt, GuardAllows, Whitelisted, Offered,
                  RegistryActions, GuardMayRefuse
  <2>6. CASE ~ShouldReplayAfterReport(seen) /\ ShouldReport(seen)
    <3>1. a = "report_task"
      BY <1>1, <2>6 DEF FallbackPlan
    <3>2. ~reported
      BY <2>2, <2>6 DEF ShouldReplayAfterReport, ShouldReport, Success
    <3>3. QED
      BY <3>1, <3>2 DEF Executable, ConsumesAttempt, GuardAllows, Whitelisted, Offered,
                        RegistryActions, GuardMayRefuse
  <2>7. CASE ~ShouldReplayAfterReport(seen) /\ ~ShouldReport(seen)
    <3>1. a = Decide(seen.latest, seen.failure, seen.ineffective)
      BY <1>1, <2>4, <2>7 DEF FallbackPlan
    <3>2. CASE seen.latest \in Success
      <4>1. a = "report"
        BY <3>1, <3>2 DEF Decide, PolicyReports, PolicyRepairs, PolicyRetries
      <4>2. ~reported
        BY <2>2, <2>7, <3>2 DEF ShouldReplayAfterReport
      <4>3. QED
        BY <4>1, <4>2 DEF Executable, ConsumesAttempt, GuardAllows, Whitelisted, Offered,
                          RegistryActions, GuardMayRefuse
    <3>3. CASE seen.latest \notin Success
      <4>1. a \in {"repair_build_source_tree", "retry_with_strategy", "stop_manual_review"}
        BY <3>1, <3>3 DEF Decide, PolicyReports
      <4>2. QED
        BY <2>2, <2>3, <3>3, <4>1 DEF Executable, ConsumesAttempt
    <3>4. QED
      BY <3>2, <3>3
  <2>8. QED
    BY <2>5, <2>6, <2>7
<1>4. QED
  BY <1>0, <1>2, <1>3

LEMMA RoundsTypes ==
    ASSUME AgentTypeOK
    PROVE  /\ Len(attempts) \in Nat /\ step \in Nat /\ MaxSteps \in Nat /\ MaxAttempts \in Nat
           /\ MaxAttempts > 0
           /\ One(reported) \in {0, 1} /\ One(task.status # "created") \in {0, 1}
           /\ Rounds \in Nat /\ Rounds <= Len(attempts) + 2
<1>1. /\ Len(attempts) \in Nat /\ step \in Nat /\ MaxSteps \in Nat /\ MaxAttempts \in Nat
      /\ MaxAttempts > 0
  BY RowTypes, MaxStepsPositive, MaxAttemptsPositive DEF AgentTypeOK, TypeOK, StoreTypeOK
<1>2. One(reported) \in {0, 1} /\ One(task.status # "created") \in {0, 1}
  BY DEF One
<1>3. QED
  BY <1>1, <1>2 DEF Rounds

\* Before the first look, at a look, and at a refusal.
LEMMA FallbackLooks ==
    ASSUME AloneInv, FallbackInv, UseModel = FALSE, StartAgent \/ Observe \/ Refuse
    PROVE  FallbackInv'
<1>0. UNCHANGED <<vars, reported, replayed, action, grabbed>>
  BY DEF StartAgent, Observe, Refuse
<1>1. /\ UNCHANGED <<task, attempts, reported, replayed, Rounds>>
      /\ Shown' = Shown /\ AttemptBudget' = AttemptBudget /\ EarlierFailed' = EarlierFailed
  BY <1>0 DEF vars, store, Shown, AttemptBudget, EarlierFailed, Rounds, One
<1>2. CASE StartAgent
  <2>1. stage = "off" /\ stage' = "observe" /\ step' = 1
    BY <1>2 DEF StartAgent
  <2>2. Len(attempts) = 0 /\ task.status = "created" /\ ~reported
    BY <2>1 DEF FallbackInv
  <2>3. Shown /\ Rounds = 0
    BY <2>2 DEF Shown, Rounds, One
  <2>4. ~replayed
    BY <2>1 DEF FallbackInv
  <2>5. QED
    BY <1>1, <2>1, <2>3, <2>4 DEF FallbackInv, SuccessIsReplayed
<1>3. CASE Observe
  <2>1. stage = "observe" /\ stage' = "plan" /\ step' = step
    BY <1>3 DEF Observe
  <2>2. QED
    BY <1>1, <2>1 DEF FallbackInv, SuccessIsReplayed
<1>4. CASE Refuse
  <2>1. stage = "plan" /\ stage' = "stopped"
    BY <1>4 DEF Refuse, Stopped
  <2>2. PICK a \in Plans(seen) : ~GuardAllows(a, seen) \/ GuardMayRefuse(a)
    BY <1>4 DEF Refuse
  <2>3. /\ TypeOK /\ NumberedInOrder /\ EarlierFailed /\ Shown /\ ~replayed
        /\ seen \in Views
    BY <2>1 DEF AloneInv, AgentTypeOK, OrderInv, CommandInv, FallbackInv
  <2>4. Undone
    BY <2>2, <2>3, FallbackPlans
  <2>5. SuccessIsReplayed'
    BY <1>1, <2>4 DEF SuccessIsReplayed, Undone
  <2>6. QED
    BY <1>1, <2>1, <2>3, <2>5 DEF FallbackInv
<1>5. QED
  BY <1>2, <1>3, <1>4

\* An action begins.
LEMMA FallbackExecutes ==
    ASSUME AloneInv, FallbackInv, UseModel = FALSE, Execute
    PROVE  FallbackInv'
<1>0. TypeOK /\ NumberedInOrder /\ AgentTypeOK /\ seen \in Views
  BY DEF AloneInv, AgentTypeOK, OrderInv, CommandInv, Execute
<1>1. PICK a \in Plans(seen) :
          /\ GuardAllows(a, seen)
          /\ action' = Executable(a) /\ grabbed' = task
          /\ UNCHANGED <<store, issued, step, seen, reported, replayed>>
          /\ stage = "plan" /\ stage' = "execute"
          /\ \/ /\ action' = "analyze_task"
                /\ pc'[Agent] = "fetch" /\ cmd'[Agent] = "analyze"
                /\ ~raised'[Agent]
             \/ /\ action' = "run_task"
                /\ pc'[Agent] = "load" /\ cmd'[Agent] = "attempt"
             \/ /\ action' \in {"report_task", "replay_task", "stop_manual_review"}
                /\ UNCHANGED <<pc, cmd>>
                /\ action' = "stop_manual_review" => ~raised'[Agent]
  BY <1>0, ExecuteStarts
<1>2. /\ UNCHANGED <<task, attempts, reported, replayed, seen, step, Rounds>>
      /\ Shown' = Shown /\ AttemptBudget' = AttemptBudget /\ EarlierFailed' = EarlierFailed
      /\ Undone' = Undone
  BY <1>1 DEF store, Shown, AttemptBudget, EarlierFailed, Rounds, One, Undone
<1>3. AttemptBudget /\ EarlierFailed /\ Shown /\ ~replayed /\ step <= Rounds + 1
  BY <1>1 DEF FallbackInv
<1>4. /\ Executable(a) = "analyze_task" => attempts = <<>> /\ task.status = "created"
      /\ Executable(a) = "run_task" =>
            /\ Undone /\ seen.latest \notin Success
            /\ Len(attempts) > 0 => seen.current = Len(attempts)
      /\ Executable(a) = "report_task" => ~reported
      /\ Executable(a) = "replay_task" => reported
      /\ Executable(a) = "stop_manual_review" => Undone
  BY <1>0, <1>3, FallbackPlans
<1>5. Executable(a) = "run_task" => Len(attempts) < MaxAttempts
  BY <1>0, <1>1, <1>4, AttemptPlanned, RoundsTypes DEF BudgetLeft
<1>6. Executable(a) = "analyze_task" => step <= 1 + One(reported)
  <2>1. Executable(a) = "analyze_task" => Rounds = One(reported)
    <3>1. ASSUME Executable(a) = "analyze_task" PROVE Rounds = One(reported)
      <4>1. One(task.status # "created") = 0 /\ Len(attempts) = 0
        BY <1>4, <3>1 DEF One
      <4>2. QED
        BY <1>0, <4>1, RoundsTypes DEF Rounds
    <3>2. QED
      BY <3>1
  <2>2. QED
    BY <1>0, <1>3, <2>1, RoundsTypes
<1>7. Executing'
  <2>1. One(reported)' = One(reported)
    BY <1>2 DEF One
  <2>2. action' = "analyze_task" =>
            /\ attempts' = <<>> /\ grabbed'.status = "created" /\ step' <= 1 + One(reported)'
            /\ pc'[Agent] # "idle"
    BY <1>1, <1>2, <1>4, <1>6, <2>1
  <2>3. action' = "run_task" =>
            /\ seen'.latest \notin Success
            /\ Len(attempts') < MaxAttempts /\ Undone' /\ step' <= Rounds' + 1
            /\ pc'[Agent] = "load"
    BY <1>1, <1>2, <1>3, <1>4, <1>5
  <2>4. /\ action' = "report_task" => Shown' /\ ~reported' /\ step' <= Rounds' + 1
        /\ action' = "replay_task" => reported'
        /\ action' = "stop_manual_review" => Undone'
    BY <1>1, <1>2, <1>3, <1>4
  <2>5. QED
    BY <2>2, <2>3, <2>4 DEF Executing, Inside
<1>8. QED
  BY <1>1, <1>2, <1>3, <1>7 DEF FallbackInv, SuccessIsReplayed

\* An action is over, and leaves its trace unless it raised.
LEMMA FallbackReturns ==
    ASSUME AloneInv, FallbackInv, Return
    PROVE  FallbackInv'
<1>0. AgentTypeOK /\ Executing /\ AttemptBudget /\ EarlierFailed /\ ~replayed
  BY DEF AloneInv, FallbackInv, Return
<1>1. /\ UNCHANGED <<attempts, local, step, seen, action, replayed>>
      /\ pc[Agent] = "idle" /\ stage' = "route"
      /\ task' = AfterException(task)
      /\ reported' = (reported \/ (action = "report_task" /\ ~raised[Agent]))
  BY DEF Return, At
<1>2. /\ AttemptBudget' /\ EarlierFailed' /\ Undone' = Undone
      /\ UNCHANGED <<pc, raised>>
  BY <1>0, <1>1 DEF AttemptBudget, EarlierFailed, Undone, local
<1>3. CASE action = "analyze_task"
  <2>1. attempts = <<>> /\ step <= 1 + One(reported)
    BY <1>0, <1>3 DEF Executing
  <2>2. task'.status # "created"
    <3>1. CASE raised[Agent]
      BY <1>0, <1>1, <1>3, <3>1 DEF AfterException, Executing
    <3>2. CASE ~raised[Agent]
      BY <1>0, <1>1, <1>3, <3>2 DEF AfterException, Executing
    <3>3. QED
      BY <3>1, <3>2
  <2>3. reported' = reported
    BY <1>0, <1>1, <1>3, Zenon DEF AgentTypeOK
  <2>4. /\ One(task.status # "created")' = 1 /\ One(reported)' = One(reported)
        /\ Len(attempts') = 0
    BY <1>1, <2>1, <2>2, <2>3 DEF One
  <2>5. Rounds' = 1 + One(reported) /\ Shown'
    BY <1>0, <2>4, RoundsTypes DEF Rounds, Shown
  <2>6. Routing'
    BY <1>1, <1>3, <2>1, <2>5 DEF Routing
  <2>7. QED
    BY <1>0, <1>1, <1>2, <2>6 DEF FallbackInv, SuccessIsReplayed
<1>4. CASE action = "run_task"
  <2>1. seen.latest \notin Success
    BY <1>0, <1>4 DEF Executing
  <2>2. ASSUME ~raised[Agent] PROVE Shown' /\ step' <= Rounds'
    <3>1. task' = task /\ Shown /\ step <= Rounds
      BY <1>0, <1>1, <1>4, <2>2 DEF AfterException, Executing
    <3>2. reported' = reported
      BY <1>0, <1>1, <1>4, Zenon DEF AgentTypeOK
    <3>3. /\ One(reported)' = One(reported)
          /\ One(task.status # "created")' = One(task.status # "created")
      BY <3>1, <3>2 DEF One
    <3>4. Rounds' = Rounds
      BY <1>1, <3>3 DEF Rounds
    <3>5. QED
      BY <1>1, <3>1, <3>4 DEF Shown
  <2>3. Routing'
    BY <1>1, <1>2, <1>4, <2>1, <2>2 DEF Routing
  <2>4. QED
    BY <1>0, <1>1, <1>2, <2>3 DEF FallbackInv, SuccessIsReplayed
<1>5. CASE action = "report_task"
  <2>1. Shown /\ ~reported /\ step <= Rounds + 1
    BY <1>0, <1>5 DEF Executing
  <2>2. ASSUME ~raised[Agent] PROVE Shown' /\ step' <= Rounds'
    <3>1. task' = task
      BY <1>1, <2>2 DEF AfterException
    <3>2. reported' = TRUE
      BY <1>1, <1>5, <2>2, Zenon
    <3>3. One(reported)' = 1 /\ One(reported) = 0
      BY <2>1, <3>2 DEF One
    <3>4. One(task.status # "created")' = One(task.status # "created")
      BY <3>1 DEF One
    <3>5. Rounds' = Rounds + 1
      BY <1>0, <1>1, <3>3, <3>4, RoundsTypes DEF Rounds
    <3>6. QED
      BY <1>1, <2>1, <3>1, <3>5 DEF Shown
  <2>3. Routing'
    BY <1>1, <1>2, <1>5, <2>2 DEF Routing
  <2>4. QED
    BY <1>0, <1>1, <1>2, <2>3 DEF FallbackInv, SuccessIsReplayed
<1>6. CASE action \in {"replay_task", "stop_manual_review"}
  <2>1. Routing'
    BY <1>0, <1>1, <1>2, <1>6 DEF Routing, Executing
  <2>2. QED
    BY <1>0, <1>1, <1>2, <2>1 DEF FallbackInv, SuccessIsReplayed
<1>7. QED
  BY <1>0, <1>3, <1>4, <1>5, <1>6 DEF AgentTypeOK, RegistryActions

\* An agent that sees no success has none behind it.
LEMMA UndoneSeen ==
    ASSUME TypeOK, NumberedInOrder, EarlierFailed, seen \in Views, seen.latest \notin Success
    PROVE  Undone
<1>1. Len(attempts) \in Nat
  BY RowTypes DEF TypeOK, StoreTypeOK
<1>2. CASE Len(attempts) > 0
  <2>1. attempts[Len(attempts)].status \notin Success
    BY <1>1, <1>2, SeenLast DEF Observed
  <2>2. QED
    BY <1>1, <2>1 DEF EarlierFailed, Undone
<1>3. QED
  BY <1>1, <1>2 DEF Undone

\* The route is taken: the graph stops when nothing is left to do, and has a
\* step left when something is.
LEMMA FallbackRoutes ==
    ASSUME AloneInv, FallbackInv, Route
    PROVE  FallbackInv'
<1>0. /\ AgentTypeOK /\ TypeOK /\ NumberedInOrder
      /\ Routing /\ AttemptBudget /\ EarlierFailed /\ ~replayed
  BY DEF AloneInv, AgentTypeOK, OrderInv, FallbackInv, Route
<1>1. /\ UNCHANGED <<vars, seen, action, grabbed, reported>>
      /\ replayed' = (replayed \/ action = "replay_task")
  BY DEF Route
<1>2. /\ UNCHANGED <<task, attempts, raised, Rounds>>
      /\ Shown' = Shown /\ AttemptBudget' /\ EarlierFailed'
  BY <1>0, <1>1 DEF vars, store, local, Shown, AttemptBudget, EarlierFailed, Rounds, One
<1>3. PICK after \in Views :
          \/ RouteEnds(after) /\ stage' = "stopped"
          \/ ~RouteEnds(after) /\ step < MaxSteps /\ stage' = "observe" /\ step' = step + 1
          \/ ~RouteEnds(after) /\ step = MaxSteps /\ stage' = "stopped"
  BY DEF Route, Stopped
<1>4. ASSUME Shown, step <= Rounds, MaxSteps >= MaxAttempts + 3 PROVE step < MaxSteps
  BY <1>0, <1>4, RoundsTypes DEF AttemptBudget
<1>5. CASE stage' = "observe"
  <2>1. ~RouteEnds(after) /\ step' = step + 1
    BY <1>3, <1>5
  <2>2. action \notin {"replay_task", "stop_manual_review"}
    BY <2>1 DEF RouteEnds
  <2>3. ~raised[Agent] \/ action = "analyze_task"
    BY <2>1 DEF RouteEnds
  <2>4. Shown /\ step <= Rounds
    BY <1>0, <2>2, <2>3 DEF Routing, AgentTypeOK, RegistryActions
  <2>5. ~replayed'
    BY <1>0, <1>1, <2>2
  <2>6. Shown' /\ step' <= Rounds' + 1
    BY <1>0, <1>2, <2>1, <2>4, RoundsTypes
  <2>7. QED
    BY <1>2, <1>5, <2>5, <2>6 DEF FallbackInv, SuccessIsReplayed
<1>6. CASE stage' = "stopped"
  <2>1. ASSUME ~raised[Agent], ~Undone, MaxSteps >= MaxAttempts + 3
        PROVE  reported' /\ replayed'
    <3>1. CASE action = "replay_task"
      BY <1>0, <1>1, <3>1 DEF Routing
    <3>2. CASE action = "stop_manual_review"
      BY <1>0, <2>1, <3>2 DEF Routing
    <3>3. CASE action \in {"analyze_task", "run_task", "report_task"}
      <4>1. Shown /\ step <= Rounds
        BY <1>0, <2>1, <3>3 DEF Routing
      <4>2. step < MaxSteps
        BY <2>1, <4>1, <1>4
      <4>3. RouteEnds(after)
        BY <1>0, <1>3, <1>6, <4>2, RoundsTypes
      <4>4. ~(step >= MaxSteps)
        BY <1>0, <4>2, RoundsTypes
      <4>5. action = "run_task" /\ after = seen
        BY <2>1, <3>3, <4>3, <4>4 DEF RouteEnds
      <4>6. seen.latest \notin Success /\ seen \in Views
        BY <1>0, <4>5 DEF Routing
      <4>7. Undone
        BY <1>0, <4>6, UndoneSeen
      <4>8. QED
        BY <2>1, <4>7
    <3>4. QED
      BY <1>0, <3>1, <3>2, <3>3 DEF AgentTypeOK, RegistryActions
  <2>2. MaxSteps >= MaxAttempts + 3 => SuccessIsReplayed'
    BY <1>2, <2>1 DEF SuccessIsReplayed, Undone
  <2>3. QED
    BY <1>2, <1>6, <2>2 DEF FallbackInv
<1>7. QED
  BY <1>3, <1>5, <1>6

\* What the agent's command does to the task and to the rows.
LEMMA MoveWrites ==
    ASSUME TypeOK, Doing, AgentMove
    PROVE  /\ UNCHANGED task \/ task'.status # "created"
           /\ cmd[Agent] = "analyze" => UNCHANGED attempts
           /\ pc'[Agent] \in Inside => SeedAttempt(Agent) \/ pc[Agent] \in Inside
           /\ pc'[Agent] = "idle" /\ ~raised'[Agent] =>
                 \/ cmd[Agent] = "analyze" /\ task'.status # "created"
                 \/ FinishAttempt(Agent)
<1> USE AgentIsCaller DEF TypeOK, LocalTypeOK, GoTo, Ended, At, Doing, Unseeded, Inside, AgentMove
<1>1. CASE Abort(Agent)
  BY <1>1 DEF Abort, store
<1>2. CASE Analyze(Agent)
  BY <1>2 DEF Analyze, FetchSource, FailSource, RecordSourceFailure, WriteConstraintReport,
              PublishAnalysis
<1>3. CASE RunTask(Agent)
  BY <1>3 DEF RunTask, CheckTerminal, CheckBudget, DecideRetry
<1>4. CASE LoadInputs(Agent) \/ TakeNumber(Agent) \/ LookupRow(Agent) \/ SeedAttempt(Agent)
           \/ MarkRunning(Agent)
  BY <1>4 DEF LoadInputs, TakeNumber, LookupRow, SeedAttempt, MarkRunning, store
<1>5. CASE Build(Agent) \/ Diagnose(Agent)
  BY <1>5 DEF Build, Diagnose
<1>6. CASE WriteFailureRecord(Agent) \/ Validate(Agent)
  BY <1>6 DEF WriteFailureRecord, Validate
<1>7. CASE FinishAttempt(Agent)
  <2>1. result[Agent] \in Results
    OBVIOUS
  <2>2. result[Agent].status # "created"
    BY <2>1 DEF Results, AttemptStatus
  <2>3. task'.status # "created" /\ pc[Agent] = "finish" /\ pc'[Agent] \in {"idle", "decide"}
    BY <1>7, <2>2 DEF FinishAttempt
  <2>4. QED
    BY <1>7, <2>3
<1>8. QED
  BY <1>1, <1>2, <1>3, <1>4, <1>5, <1>6, <1>7 DEF Proceed, RunAttempt

\* The command of an action goes on.
LEMMA FallbackMoves ==
    ASSUME AloneInv, FallbackInv, AgentMove
    PROVE  FallbackInv'
<1> USE AgentIsCaller
<1>0. /\ AgentTypeOK /\ TypeOK /\ OrderInv /\ CommandInv /\ Doing
      /\ stage = "execute" /\ Executing /\ AttemptBudget /\ EarlierFailed /\ ~replayed
      /\ UNCHANGED <<stage, step, seen, action, grabbed, reported, replayed>>
  BY MovesWhileDoing DEF AloneInv, AgentTypeOK, FallbackInv, Doing, AgentMove, agent
<1>1. /\ Len(attempts) \in Nat /\ step \in Nat /\ MaxAttempts \in Nat /\ Rounds \in Nat
      /\ One(reported) \in {0, 1} /\ One(reported)' = One(reported)
  BY <1>0, RoundsTypes DEF One
<1>2. One(task.status # "created") \in {0, 1} /\ One(task.status # "created")' \in {0, 1}
  BY DEF One
<1>3. One(task.status # "created")' >= One(task.status # "created")
  <2>1. CASE UNCHANGED task
    BY <1>2, <2>1 DEF One
  <2>2. CASE task'.status # "created"
    BY <1>2, <2>2 DEF One
  <2>3. QED
    BY <1>0, <2>1, <2>2, MoveWrites
<1>4. SeedAttempt(Agent) => /\ Len(attempts) < MaxAttempts /\ Undone /\ step <= Rounds + 1
                            /\ action = "run_task"
  BY <1>0, SeedStep DEF Doing, Executing, Unseeded
<1>5. /\ SeedAttempt(Agent) => /\ Len(attempts') = Len(attempts) + 1
                               /\ \A i \in 1..Len(attempts) : attempts'[i] = attempts[i]
      /\ ~SeedAttempt(Agent) => /\ Len(attempts') = Len(attempts)
                                /\ \A i \in 1..Len(attempts) - 1 : attempts'[i] = attempts[i]
  BY <1>0, EarlierKept, SeedStep, SeededRow DEF OrderInv
<1>6. AttemptBudget' /\ EarlierFailed'
  BY <1>0, <1>1, <1>4, <1>5 DEF AttemptBudget, EarlierFailed, Undone
<1>7. /\ Rounds' \in Nat /\ Rounds' >= Rounds
      /\ SeedAttempt(Agent) => Rounds' >= Rounds + 1
  BY <1>1, <1>2, <1>3, <1>5 DEF Rounds
<1>8. CASE action = "analyze_task"
  <2>1. cmd[Agent] = "analyze"
    BY <1>0, <1>8 DEF Doing
  <2>2. attempts' = <<>> /\ grabbed'.status = "created" /\ step' <= 1 + One(reported)'
    BY <1>0, <1>1, <1>8, <2>1, MoveWrites DEF Executing
  <2>3. pc'[Agent] = "idle" /\ ~raised'[Agent] => task'.status # "created"
    <3>1. ~FinishAttempt(Agent)
      BY <1>0, <2>1 DEF Doing, FinishAttempt, At
    <3>2. QED
      BY <1>0, <3>1, MoveWrites
  <2>4. Executing'
    BY <1>0, <1>8, <2>2, <2>3 DEF Executing
  <2>5. QED
    BY <1>0, <1>6, <2>4 DEF FallbackInv, SuccessIsReplayed
<1>9. CASE action = "run_task"
  <2>1. cmd[Agent] = "attempt"
    BY <1>0, <1>9 DEF Doing
  <2>2. seen'.latest \notin Success
    BY <1>0, <1>9 DEF Executing
  <2>3. ASSUME pc'[Agent] \in Unseeded
        PROVE  Len(attempts') < MaxAttempts /\ Undone' /\ step' <= Rounds' + 1
    <3>1. pc[Agent] \in Unseeded /\ UNCHANGED attempts
      BY <1>0, <2>3, MoveLeads
    <3>2. Len(attempts) < MaxAttempts /\ Undone /\ step <= Rounds + 1
      BY <1>0, <1>9, <3>1 DEF Executing
    <3>3. Len(attempts') < MaxAttempts /\ Undone'
      BY <3>1, <3>2 DEF Undone
    <3>4. step' = step /\ step \in Nat /\ Rounds \in Nat /\ Rounds' \in Nat
          /\ Rounds' >= Rounds /\ step <= Rounds + 1
      BY <1>0, <1>1, <1>7, <3>2
    <3>5. ASSUME NEW k \in Nat, NEW m \in Nat, NEW n \in Nat, k <= m + 1, n >= m
          PROVE  k <= n + 1
      BY <3>5
    <3>6. step' <= Rounds' + 1
      BY <3>4, <3>5
    <3>7. QED
      BY <3>3, <3>6
  <2>4. ASSUME pc'[Agent] \in Inside PROVE step' <= Rounds'
    <3>1. CASE SeedAttempt(Agent)
      BY <1>0, <1>1, <1>4, <1>7, <3>1
    <3>2. CASE pc[Agent] \in Inside
      BY <1>0, <1>1, <1>7, <1>9, <3>2 DEF Executing
    <3>3. QED
      BY <1>0, <2>4, <3>1, <3>2, MoveWrites
  <2>5. ASSUME pc'[Agent] = "idle", ~raised'[Agent] PROVE Shown' /\ step' <= Rounds'
    <3>1. FinishAttempt(Agent)
      BY <1>0, <2>1, <2>5, MoveWrites
    <3>2. /\ pc[Agent] = "finish" /\ UNCHANGED attempts
          /\ task' = [status |-> result[Agent].status, current |-> no[Agent]]
      BY <3>1 DEF FinishAttempt, At
    <3>3. Owns(Agent, result[Agent].status) /\ result[Agent].status \in Closed
      BY <1>0, <3>2 DEF OrderInv
    <3>4. Shown'
      BY <3>2, <3>3 DEF Shown, Owns
    <3>5. step <= Rounds
      BY <1>0, <1>9, <3>2 DEF Executing, Inside
    <3>6. QED
      BY <1>0, <1>1, <1>7, <3>4, <3>5
  <2>6. Executing'
    BY <1>0, <1>9, <2>2, <2>3, <2>4, <2>5 DEF Executing
  <2>7. QED
    BY <1>0, <1>6, <2>6 DEF FallbackInv, SuccessIsReplayed
<1>10. QED
  BY <1>0, <1>8, <1>9 DEF Doing

LEMMA FallbackInvariant ==
    ASSUME Callers = {Agent}, UseModel = FALSE
    PROVE  AgentSpec => []FallbackInv
<1>1. AgentInit => FallbackInv
  <2> SUFFICES ASSUME AgentInit PROVE FallbackInv
    OBVIOUS
  <2>1. attempts = <<>> /\ task.status = "created" /\ ~reported /\ ~replayed /\ stage = "off"
    BY DEF AgentInit, Init
  <2>2. Len(attempts) = 0 /\ MaxAttempts \in Nat
    BY <2>1, MaxAttemptsPositive
  <2>3. AttemptBudget /\ EarlierFailed
    BY <2>2 DEF AttemptBudget, EarlierFailed
  <2>4. QED
    BY <2>1, <2>3 DEF FallbackInv, SuccessIsReplayed
<1>2. AloneInv /\ FallbackInv /\ [AgentNext]_agentVars => FallbackInv'
  <2> SUFFICES ASSUME AloneInv, FallbackInv, [AgentNext]_agentVars PROVE FallbackInv'
    OBVIOUS
  <2>1. CASE Die
    <3>1. /\ stage \notin {"off", "stopped", "dead"} /\ stage' = "dead"
          /\ UNCHANGED <<store, replayed>>
      BY <2>1 DEF Die
    <3>2. ~replayed /\ AttemptBudget' /\ EarlierFailed'
      BY <3>1 DEF FallbackInv, store, AttemptBudget, EarlierFailed
    <3>3. QED
      BY <3>1, <3>2 DEF FallbackInv, SuccessIsReplayed
  <2>2. CASE UNCHANGED agentVars
    <3>1. UNCHANGED <<vars, agent, task, attempts, pc, raised, stage, step, seen, action, grabbed,
                      reported, replayed>>
      BY <2>2 DEF agentVars, agent, vars, store, local
    <3>2. /\ Rounds' = Rounds /\ One(reported)' = One(reported) /\ Shown' = Shown
          /\ Undone' = Undone /\ AttemptBudget' = AttemptBudget /\ EarlierFailed' = EarlierFailed
          /\ SuccessIsReplayed' = SuccessIsReplayed
      BY <3>1 DEF Rounds, One, Shown, Undone, AttemptBudget, EarlierFailed, SuccessIsReplayed
    <3>3. Executing' = Executing /\ Routing' = Routing
      BY <3>1, <3>2 DEF Executing, Routing
    <3>4. QED
      BY <3>1, <3>2, <3>3 DEF FallbackInv
  <2>3. QED
    BY <2>1, <2>2, AloneSteps, FallbackLooks, FallbackExecutes, FallbackReturns, FallbackRoutes,
       FallbackMoves DEF GraphStep
<1>3. QED
  BY <1>1, <1>2, AloneInvariant, PTL DEF AgentSpec

\* The guard holds an agent that is alone on its task to max_attempts, by the
\* task row's current_attempt alone, as long as the fallback rules plan: they
\* never analyse again, which would reset the number the guard looks at.
THEOREM AgentWithinBudget ==
    ASSUME Callers = {Agent}, UseModel = FALSE
    PROVE  AgentSpec => []AgentBudget
<1>1. FallbackInv => AgentBudget
  BY DEF FallbackInv, AgentBudget
<1>2. QED
  BY <1>1, FallbackInvariant, PTL

\* An agent alone on its task that plans by the fallback rules and runs to
\* its end without an exception has reported and replayed a success: with
\* three steps more than the budget has attempts, as the defaults 8 and 5
\* are, the step limit never cuts the two closing actions off.
THEOREM SuccessReplayed ==
    ASSUME Callers = {Agent}, UseModel = FALSE, MaxSteps >= MaxAttempts + 3
    PROVE  AgentSpec => []SuccessIsReplayed
<1>1. FallbackInv => SuccessIsReplayed
  BY DEF FallbackInv
<1>2. QED
  BY <1>1, FallbackInvariant, PTL

=============================================================================
