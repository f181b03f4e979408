--------------------------- MODULE TaskRunner_proof ---------------------------
(***************************************************************************)
(* Theorems about TaskRunner, for every budget, set of build failures and  *)
(* number of commands, wherever callers die.                               *)
(*                                                                         *)
(* With any set of callers: the types, the numbers, that every write finds *)
(* its row, and how far a race can overrun the budget.                     *)
(*                                                                         *)
(* For a caller that has the task to itself: attempts are numbered without *)
(* gaps, the attempts table implements the ledger of AttemptLedger, the    *)
(* task row shows the attempt it points at, and no attempt follows one the *)
(* policy stops at.  These fail with a second caller, so the theorems of   *)
(* the second half assume Callers = {c}.                                   *)
(***************************************************************************)
EXTENDS TaskRunner, FiniteSetTheorems, TLAPS

----------------------------------------------------------------------------
(* What the helpers return *)

\* What a typed table is made of.
LEMMA RowTypes ==
    ASSUME attempts \in Seq(Rows)
    PROVE  /\ Len(attempts) \in Nat
           /\ DOMAIN attempts = 1..Len(attempts)
           /\ \A i \in 1..Len(attempts) :
                 attempts[i].no \in Nat /\ attempts[i].status \in AttemptStatus
<1>1. Len(attempts) \in Nat /\ DOMAIN attempts = 1..Len(attempts)
  OBVIOUS
<1>2. \A i \in 1..Len(attempts) : attempts[i] \in Rows
  OBVIOUS
<1>3. QED
  BY <1>1, <1>2 DEF Rows

\* An UPDATE keeps the table a table of the same length and numbers.
LEMMA UpdatedRows ==
    ASSUME attempts \in Seq(Rows), NEW n \in Nat, NEW s \in AttemptStatus,
           NEW f \in FailureTypes \cup {"none"}
    PROVE  /\ Updated(n, s, f) \in Seq(Rows)
           /\ Len(Updated(n, s, f)) = Len(attempts)
           /\ \A i \in 1..Len(attempts) :
                 /\ Updated(n, s, f)[i].no = attempts[i].no
                 /\ attempts[i].no = n => Updated(n, s, f)[i].status = s
                 /\ attempts[i].no # n => Updated(n, s, f)[i] = attempts[i]
<1>1. DOMAIN attempts = 1..Len(attempts) /\ Len(attempts) \in Nat
  OBVIOUS
<1>2. \A i \in 1..Len(attempts) : attempts[i] \in Rows
  OBVIOUS
<1>3. Updated(n, s, f) = [i \in 1..Len(attempts) |->
          IF attempts[i].no = n THEN [no |-> n, status |-> s, failure |-> f] ELSE attempts[i]]
  BY <1>1 DEF Updated
<1>4. \A i \in 1..Len(attempts) : Updated(n, s, f)[i] \in Rows
  BY <1>2, <1>3 DEF Rows
<1>5. Updated(n, s, f) \in Seq(Rows) /\ Len(Updated(n, s, f)) = Len(attempts)
  BY <1>1, <1>3, <1>4
<1>6. QED
  BY <1>3, <1>5

\* Writing a file of an attempt keeps the files typed.
LEMMA WrittenTypes ==
    ASSUME NEW S, NEW files, DOMAIN files \subseteq Nat, \A m \in DOMAIN files : files[m] \in S,
           NEW n \in Nat, NEW x \in S
    PROVE  /\ DOMAIN Written(files, n, x) \subseteq Nat
           /\ \A m \in DOMAIN Written(files, n, x) : Written(files, n, x)[m] \in S
<1>1. DOMAIN Written(files, n, x) = DOMAIN files \cup {n}
  BY DEF Written
<1>2. ASSUME NEW m \in DOMAIN files \cup {n} PROVE Written(files, n, x)[m] \in S
  <2>1. Written(files, n, x)[m] = IF m = n THEN x ELSE files[m]
    BY DEF Written
  <2>2. QED
    BY <2>1
<1>3. QED
  BY <1>1, <1>2

----------------------------------------------------------------------------
(* Types *)

\* The state an Ended command leaves behind is typed.
LEMMA EndedTypes ==
    ASSUME LocalTypeOK, NEW c \in Callers, NEW x \in BOOLEAN, Ended(c, x)
    PROVE  LocalTypeOK'
BY DEF LocalTypeOK, Ended, GoTo, Locations, Results, NoResult, AttemptStatus

\* So is the state after a step that only moves the caller on.
LEMMA MovedTypes ==
    ASSUME LocalTypeOK, NEW c \in Callers, NEW l \in Locations, GoTo(c, l),
           UNCHANGED <<cmd, no, known, result, raised, issued>>
    PROVE  LocalTypeOK'
BY DEF LocalTypeOK, GoTo

\* A caller that starts, ends or is cut short keeps its state typed.
LEMMA CommandTypes ==
    ASSUME TypeOK, NEW c \in Callers, StartAnalyze(c) \/ StartRun(c) \/ Abort(c)
    PROVE  TypeOK'
<1>1. CASE StartAnalyze(c) \/ StartRun(c)
  <2>1. UNCHANGED store
    BY <1>1 DEF StartAnalyze, StartRun, Started
  <2>2. StoreTypeOK'
    BY <2>1 DEF store, TypeOK, StoreTypeOK
  <2>3. issued' \in 0..MaxCommands
    BY <1>1, MaxCommandsNatural DEF StartAnalyze, StartRun, Issued, TypeOK, LocalTypeOK
  <2>4. LocalTypeOK'
    BY <1>1, <2>3
    DEF TypeOK, LocalTypeOK, StartAnalyze, StartRun, Started, GoTo, Locations, Commands
  <2>5. QED
    BY <2>2, <2>4 DEF TypeOK
<1>2. CASE Abort(c)
  BY <1>2, EndedTypes DEF TypeOK, StoreTypeOK, Abort, store
<1>3. QED
  BY <1>1, <1>2

LEMMA AnalyzeTypes ==
    ASSUME TypeOK, NEW c \in Callers, Analyze(c)
    PROVE  TypeOK'
<1> USE DEF TypeOK
<1>1. CASE FetchSource(c) \/ FailSource(c) \/ WriteConstraintReport(c)
  <2>1. LocalTypeOK'
    BY <1>1, MovedTypes DEF FetchSource, FailSource, WriteConstraintReport, Locations
  <2>2. StoreTypeOK'
    BY <1>1 DEF FetchSource, FailSource, WriteConstraintReport, StoreTypeOK
  <2>3. QED
    BY <2>1, <2>2
<1>2. CASE RecordSourceFailure(c)
  BY <1>2, EndedTypes DEF RecordSourceFailure, StoreTypeOK, TaskStatus
<1>3. CASE PublishAnalysis(c)
  <2>1. LocalTypeOK'
    BY <1>3, EndedTypes, MovedTypes DEF PublishAnalysis, Locations
  <2>2. StoreTypeOK'
    BY <1>3 DEF PublishAnalysis, StoreTypeOK, TaskStatus
  <2>3. QED
    BY <2>1, <2>2
<1>4. QED
  BY <1>1, <1>2, <1>3 DEF Analyze

LEMMA RunTaskTypes ==
    ASSUME TypeOK, NEW c \in Callers, RunTask(c)
    PROVE  TypeOK'
<1>1. StoreTypeOK'
  BY DEF TypeOK, StoreTypeOK, store, RunTask, CheckTerminal, CheckBudget, DecideRetry
<1>2. CASE CheckTerminal(c) \/ CheckBudget(c)
  BY <1>1, <1>2, EndedTypes, MovedTypes DEF TypeOK, CheckTerminal, CheckBudget, Locations
<1>3. CASE DecideRetry(c)
  <2>1. CASE Ended(c, FALSE)
    BY <1>1, <2>1, EndedTypes DEF TypeOK
  <2>2. CASE /\ GoTo(c, "load")
             /\ no' = [no EXCEPT ![c] = 0]
             /\ known' = [known EXCEPT ![c] = FALSE]
             /\ result' = [result EXCEPT ![c] = NoResult]
             /\ UNCHANGED <<cmd, raised, issued>>
    BY <1>1, <2>2 DEF TypeOK, LocalTypeOK, GoTo, Locations, Results, NoResult, AttemptStatus
  <2>3. QED
    BY <1>3, <2>1, <2>2 DEF DecideRetry
<1>4. QED
  BY <1>2, <1>3 DEF RunTask

\* A build reports a status and a failure type that the row can hold ...
LEMMA BuiltTypes ==
    ASSUME NEW o \in BuildOutcomes
    PROVE  o.status \in AttemptStatus /\ o.failure \in FailureTypes \cup {"none"}
<1>1. CASE o \in [status : {"failed"}, failure : BuildFailures]
  <2>1. o.status = "failed" /\ o.failure \in BuildFailures
    BY <1>1
  <2>2. QED
    BY <2>1, BuildFailuresKnown DEF AttemptStatus
<1>2. CASE o = [status |-> "target_state", failure |-> "target_already_patched"]
  BY <1>2 DEF AttemptStatus, FailureTypes, StopFailures
<1>3. CASE o = [status |-> "built", failure |-> "none"]
  BY <1>3 DEF AttemptStatus
<1>4. QED
  BY <1>1, <1>2, <1>3 DEF BuildOutcomes

\* ... and so does the diagnosis that follows it.
LEMMA DiagnosedTypes ==
    ASSUME TypeOK, NEW c \in Callers, Diagnose(c)
    PROVE  \E f \in FailureTypes \cup {"none"}, e \in FailureTypes \cup {"none"} :
              Diagnosed(c, f, e)
<1>1. result[c].failure \in FailureTypes \cup {"none"}
  BY DEF TypeOK, LocalTypeOK, Results
<1>2. Diagnoses(result[c]) \subseteq FailureTypes \cup {"none"}
  BY <1>1, BuildFailuresKnown DEF Diagnoses
<1>3. "kpatch_constraint_unresolved" \in FailureTypes
  BY DEF FailureTypes, OtherFailures
<1>4. QED
  BY <1>1, <1>2, <1>3 DEF Diagnose

LEMMA AttemptTypes ==
    ASSUME TypeOK, NEW c \in Callers, RunAttempt(c)
    PROVE  TypeOK'
<1> USE DEF TypeOK
<1>0. /\ no[c] \in Nat /\ result[c] \in Results /\ task.current \in Nat
      /\ attempts \in Seq(Rows) /\ Len(attempts) \in Nat
  BY DEF LocalTypeOK, StoreTypeOK
<1>1. CASE LoadInputs(c)
  BY <1>1, EndedTypes, MovedTypes DEF LoadInputs, Locations, store, StoreTypeOK
<1>2. CASE TakeNumber(c)
  <2>1. NextAttemptNo \in Nat
    BY <1>0 DEF NextAttemptNo
  <2>2. LocalTypeOK'
    BY <1>2, <2>1 DEF TakeNumber, LocalTypeOK, GoTo, Locations
  <2>3. QED
    BY <1>2, <2>2 DEF TakeNumber, store, StoreTypeOK
<1>3. CASE LookupRow(c)
  <2>1. (\E i \in DOMAIN attempts : attempts[i].no = no[c]) \in BOOLEAN
    OBVIOUS
  <2>2. LocalTypeOK'
    BY <1>3, <2>1 DEF LookupRow, LocalTypeOK, GoTo, Locations
  <2>3. QED
    BY <1>3, <2>2 DEF LookupRow, store, StoreTypeOK
<1>4. CASE SeedAttempt(c)
  <2>1. Updated(no[c], "running", "none") \in Seq(Rows)
    BY <1>0, UpdatedRows DEF AttemptStatus
  <2>2. Append(attempts, [no |-> no[c], status |-> "running", failure |-> "none"]) \in Seq(Rows)
    BY <1>0 DEF Rows, AttemptStatus
  <2>3. attempts' \in Seq(Rows)
    BY <1>4, <2>1, <2>2 DEF SeedAttempt
  <2>4. LocalTypeOK'
    BY <1>4, MovedTypes DEF SeedAttempt, Locations
  <2>5. QED
    BY <1>4, <2>3, <2>4 DEF SeedAttempt, StoreTypeOK
<1>5. CASE MarkRunning(c)
  <2>1. LocalTypeOK'
    BY <1>5, MovedTypes DEF MarkRunning, Locations
  <2>2. QED
    BY <1>0, <1>5, <2>1 DEF MarkRunning, StoreTypeOK, TaskStatus
<1>6. CASE Build(c)
  <2>1. PICK o \in BuildOutcomes, ineffective \in BOOLEAN :
            /\ attempts' = Updated(no[c], o.status, o.failure)
            /\ result' = [result EXCEPT ![c] =
                  [status |-> o.status, failure |-> o.failure,
                   diagnosis |-> "none", ineffective |-> ineffective]]
    BY <1>6 DEF Build
  <2>2. o.status \in AttemptStatus /\ o.failure \in FailureTypes \cup {"none"}
    BY BuiltTypes
  <2>3. attempts' \in Seq(Rows)
    BY <1>0, <2>1, <2>2, UpdatedRows
  <2>4. result' \in [Callers -> Results]
    BY <2>1, <2>2 DEF LocalTypeOK, Results
  <2>5. LocalTypeOK'
    BY <1>6, <2>4 DEF Build, LocalTypeOK, GoTo, Locations
  <2>6. QED
    BY <1>6, <2>3, <2>5 DEF Build, StoreTypeOK
<1>7. CASE Diagnose(c)
  <2>1. PICK f \in FailureTypes \cup {"none"}, e \in FailureTypes \cup {"none"} :
            Diagnosed(c, f, e)
    BY <1>7, DiagnosedTypes
  <2>2. attempts' \in Seq(Rows)
    BY <1>0, <2>1, UpdatedRows DEF Diagnosed, Results
  <2>3. result' \in [Callers -> Results]
    BY <1>0, <2>1 DEF Diagnosed, LocalTypeOK, Results
  <2>4. LocalTypeOK'
    BY <1>7, <2>3 DEF Diagnose, LocalTypeOK, GoTo, Locations
  <2>5. QED
    BY <1>7, <2>2, <2>4 DEF Diagnose, StoreTypeOK
<1>8. CASE WriteFailureRecord(c)
  <2>1. [failure |-> result[c].diagnosis, ineffective |-> result[c].ineffective] \in FailureRecords
    BY <1>0 DEF Results, FailureRecords
  <2>2. /\ DOMAIN records' \subseteq Nat
        /\ \A n \in DOMAIN records' : records'[n] \in FailureRecords
    BY <1>0, <1>8, <2>1, WrittenTypes DEF WriteFailureRecord, StoreTypeOK
  <2>3. LocalTypeOK'
    BY <1>8, MovedTypes DEF WriteFailureRecord, Locations
  <2>4. QED
    BY <1>8, <2>2, <2>3 DEF WriteFailureRecord, StoreTypeOK
<1>9. CASE Validate(c)
  <2>1. PICK v \in ValidationOutcomes(result[c].status) : reports' = Written(reports, no[c], v)
    BY <1>9 DEF Validate
  <2>2. v \in ValidationStatus
    BY DEF ValidationOutcomes, ValidationStatus
  <2>3. /\ DOMAIN reports' \subseteq Nat
        /\ \A n \in DOMAIN reports' : reports'[n] \in ValidationStatus
    BY <1>0, <2>1, <2>2, WrittenTypes DEF StoreTypeOK
  <2>4. LocalTypeOK'
    BY <1>9, MovedTypes DEF Validate, Locations
  <2>5. QED
    BY <1>9, <2>3, <2>4 DEF Validate, StoreTypeOK
<1>10. CASE FinishAttempt(c)
  <2>1. LocalTypeOK'
    BY <1>10, EndedTypes, MovedTypes DEF FinishAttempt, Locations
  <2>2. StoreTypeOK'
    BY <1>0, <1>10 DEF FinishAttempt, StoreTypeOK, Results, AttemptStatus, TaskStatus
  <2>3. QED
    BY <2>1, <2>2
<1>11. QED
  BY <1>1, <1>2, <1>3, <1>4, <1>5, <1>6, <1>7, <1>8, <1>9, <1>10 DEF RunAttempt

LEMMA TypesInitially == Init => TypeOK
BY MaxCommandsNatural
DEF Init, TypeOK, StoreTypeOK, LocalTypeOK, TaskStatus, Rows, Locations, Commands,
    Results, NoResult, AttemptStatus

\* Every value the commands write to the task, the attempts, the analysis
\* files, the failure records and the validation reports, and whatever a
\* caller carries between two writes, stays in its type.
THEOREM Typing == Spec => []TypeOK
<1>1. TypeOK /\ [Next]_vars => TypeOK'
  <2> SUFFICES ASSUME TypeOK, [Next]_vars PROVE TypeOK'
    OBVIOUS
  <2>1. ASSUME NEW c \in Callers, StartAnalyze(c) \/ StartRun(c) \/ Abort(c) PROVE TypeOK'
    BY <2>1, CommandTypes
  <2>2. ASSUME NEW c \in Callers, Proceed(c) PROVE TypeOK'
    BY <2>2, AnalyzeTypes, RunTaskTypes, AttemptTypes DEF Proceed
  <2>3. CASE UNCHANGED vars
    BY <2>3 DEF vars, store, local, TypeOK, StoreTypeOK, LocalTypeOK
  <2>4. QED
    BY <2>1, <2>2, <2>3 DEF Next
<1>2. QED
  BY TypesInitially, <1>1, PTL DEF Spec

----------------------------------------------------------------------------
(* What one step does to the rows, and to the callers that do not take it *)

Step(c) == StartAnalyze(c) \/ StartRun(c) \/ Abort(c) \/ Proceed(c)

\* A caller's step leaves every other caller's command as it was.
LEMMA OthersKept ==
    ASSUME TypeOK, NEW c \in Callers, Step(c), NEW d \in Callers, d # c
    PROVE  /\ pc'[d] = pc[d] /\ no'[d] = no[d] /\ known'[d] = known[d]
           /\ cmd'[d] = cmd[d] /\ result'[d] = result[d]
<1> USE DEF TypeOK, LocalTypeOK, GoTo, Ended
<1>1. CASE StartAnalyze(c) \/ StartRun(c) \/ Abort(c)
  BY <1>1 DEF StartAnalyze, StartRun, Abort, Started
<1>2. CASE Analyze(c)
  BY <1>2 DEF Analyze, FetchSource, FailSource, RecordSourceFailure, WriteConstraintReport,
              PublishAnalysis
<1>3. CASE RunTask(c)
  BY <1>3 DEF RunTask, CheckTerminal, CheckBudget, DecideRetry
<1>4. CASE LoadInputs(c) \/ TakeNumber(c) \/ LookupRow(c) \/ SeedAttempt(c) \/ MarkRunning(c)
  BY <1>4 DEF LoadInputs, TakeNumber, LookupRow, SeedAttempt, MarkRunning
<1>5. CASE Build(c) \/ Diagnose(c)
  BY <1>5 DEF Build, Diagnose, Diagnosed
<1>6. CASE WriteFailureRecord(c) \/ Validate(c) \/ FinishAttempt(c)
  BY <1>6 DEF WriteFailureRecord, Validate, FinishAttempt
<1>7. QED
  BY <1>1, <1>2, <1>3, <1>4, <1>5, <1>6 DEF Step, Proceed, RunAttempt

\* Rows are inserted by the seed and updated by the build and its diagnosis;
\* nothing else writes them.
LEMMA AttemptWrites ==
    ASSUME TypeOK, NEW c \in Callers, Step(c)
    PROVE  \/ UNCHANGED attempts
           \/ SeedAttempt(c)
           \/ /\ Build(c) \/ Diagnose(c)
              /\ \E s \in AttemptStatus, f \in FailureTypes \cup {"none"} :
                    attempts' = Updated(no[c], s, f)
<1>1. CASE StartAnalyze(c) \/ StartRun(c) \/ Abort(c)
  BY <1>1 DEF StartAnalyze, StartRun, Abort, Started, store
<1>2. CASE Analyze(c)
  BY <1>2 DEF Analyze, FetchSource, FailSource, RecordSourceFailure, WriteConstraintReport,
              PublishAnalysis
<1>3. CASE RunTask(c)
  BY <1>3 DEF RunTask, CheckTerminal, CheckBudget, DecideRetry, store
<1>4. CASE LoadInputs(c) \/ TakeNumber(c) \/ LookupRow(c) \/ MarkRunning(c)
           \/ WriteFailureRecord(c) \/ Validate(c) \/ FinishAttempt(c)
  BY <1>4 DEF LoadInputs, TakeNumber, LookupRow, MarkRunning, WriteFailureRecord, Validate,
              FinishAttempt, store
<1>5. CASE Build(c)
  <2>1. PICK o \in BuildOutcomes : attempts' = Updated(no[c], o.status, o.failure)
    BY <1>5 DEF Build
  <2>2. o.status \in AttemptStatus /\ o.failure \in FailureTypes \cup {"none"}
    BY BuiltTypes
  <2>3. QED
    BY <1>5, <2>1, <2>2
<1>6. CASE Diagnose(c)
  <2>1. PICK f \in FailureTypes \cup {"none"} : attempts' = Updated(no[c], result[c].status, f)
    BY <1>6, DiagnosedTypes DEF Diagnosed
  <2>2. result[c].status \in AttemptStatus
    BY DEF TypeOK, LocalTypeOK, Results
  <2>3. QED
    BY <1>6, <2>1, <2>2
<1>7. QED
  BY <1>1, <1>2, <1>3, <1>4, <1>5, <1>6 DEF Step, Proceed, RunAttempt

\* A seed that saw no row of its number adds one, and touches no other.
LEMMA SeededRow ==
    ASSUME TypeOK, NEW c \in Callers, SeedAttempt(c), ~known[c]
    PROVE  /\ Len(attempts') = Len(attempts) + 1
           /\ attempts'[Len(attempts) + 1].no = no[c]
           /\ attempts'[Len(attempts) + 1].status = "running"
           /\ \A i \in 1..Len(attempts) : attempts'[i] = attempts[i]
<1> DEFINE new == [no |-> no[c], status |-> "running", failure |-> "none"]
<1>1. attempts \in Seq(Rows) /\ no[c] \in Nat
  BY DEF TypeOK, StoreTypeOK, LocalTypeOK
<1>2. attempts' = Append(attempts, new) /\ new \in Rows
  BY <1>1 DEF SeedAttempt, Rows, AttemptStatus
<1>3. QED
  BY <1>1, <1>2

\* No row is ever dropped or renumbered, and at most one is added, by a seed.
LEMMA RowsKept ==
    ASSUME TypeOK, NEW c \in Callers, Step(c)
    PROVE  /\ \A i \in 1..Len(attempts) : attempts'[i].no = attempts[i].no
           /\ \/ Len(attempts') = Len(attempts)
              \/ /\ SeedAttempt(c) /\ ~known[c]
                 /\ Len(attempts') = Len(attempts) + 1
                 /\ attempts'[Len(attempts) + 1].no = no[c]
                 /\ attempts'[Len(attempts) + 1].status = "running"
                 /\ \A i \in 1..Len(attempts) : attempts'[i] = attempts[i]
<1>0. attempts \in Seq(Rows) /\ no[c] \in Nat /\ Len(attempts) \in Nat
  BY DEF TypeOK, StoreTypeOK, LocalTypeOK
<1>1. CASE UNCHANGED attempts
  BY <1>1
<1>2. ASSUME NEW s \in AttemptStatus, NEW f \in FailureTypes \cup {"none"},
             attempts' = Updated(no[c], s, f)
      PROVE  /\ \A i \in 1..Len(attempts) : attempts'[i].no = attempts[i].no
             /\ Len(attempts') = Len(attempts)
  BY <1>0, <1>2, UpdatedRows
<1>3. CASE SeedAttempt(c) /\ known[c]
  <2>1. attempts' = Updated(no[c], "running", "none")
    BY <1>3 DEF SeedAttempt
  <2>2. QED
    BY <1>2, <2>1 DEF AttemptStatus
<1>4. CASE SeedAttempt(c) /\ ~known[c]
  BY <1>0, <1>4, SeededRow
<1>5. QED
  BY <1>1, <1>2, <1>3, <1>4, AttemptWrites

----------------------------------------------------------------------------
(* Numbers never run ahead of the rows *)

\* A caller that took its number when the table was shorter still holds one
\* that the table has caught up with, or the very next.
NumbersInv ==
    /\ \A i \in 1..Len(attempts) : attempts[i].no <= Len(attempts)
    /\ \A c \in Callers : pc[c] \in {"lookup", "seed"} => no[c] <= Len(attempts) + 1

\* How a caller comes to hold a number with which it looks up or seeds.
LEMMA NumberTaken ==
    ASSUME TypeOK, NEW c \in Callers, Step(c), pc'[c] \in {"lookup", "seed"}
    PROVE  /\ UNCHANGED attempts
           /\ \/ no'[c] = Len(attempts) + 1
              \/ pc[c] = "lookup" /\ no'[c] = no[c]
           /\ pc'[c] = "seed" =>
                 known'[c] = (\E i \in 1..Len(attempts) : attempts[i].no = no'[c])
<1> USE DEF TypeOK, LocalTypeOK, GoTo, Ended, Locations
<1>0. DOMAIN attempts = 1..Len(attempts)
  BY DEF StoreTypeOK
<1>1. CASE TakeNumber(c)
  BY <1>1 DEF TakeNumber, NextAttemptNo, store
<1>2. CASE LookupRow(c)
  BY <1>0, <1>2 DEF LookupRow, store, At
<1>3. CASE StartAnalyze(c) \/ StartRun(c) \/ Abort(c)
  BY <1>3 DEF StartAnalyze, StartRun, Abort, Started
<1>4. CASE Analyze(c)
  BY <1>4 DEF Analyze, FetchSource, FailSource, RecordSourceFailure, WriteConstraintReport,
              PublishAnalysis
<1>5. CASE RunTask(c)
  BY <1>5 DEF RunTask, CheckTerminal, CheckBudget, DecideRetry
<1>6. CASE LoadInputs(c) \/ SeedAttempt(c) \/ MarkRunning(c) \/ WriteFailureRecord(c)
           \/ Validate(c) \/ FinishAttempt(c)
  BY <1>6 DEF LoadInputs, SeedAttempt, MarkRunning, WriteFailureRecord, Validate, FinishAttempt
<1>7. CASE Build(c) \/ Diagnose(c)
  BY <1>7 DEF Build, Diagnose
<1>8. QED
  BY <1>1, <1>2, <1>3, <1>4, <1>5, <1>6, <1>7 DEF Step, Proceed, RunAttempt

\* Where a seed comes from.
LEMMA SeedStep ==
    ASSUME TypeOK, NEW c \in Callers, SeedAttempt(c)
    PROVE  pc[c] = "seed" /\ pc'[c] = "mark_running" /\ no'[c] = no[c]
BY DEF SeedAttempt, At, GoTo, TypeOK, LocalTypeOK

LEMMA NumbersStep ==
    ASSUME TypeOK, NumbersInv, NEW c \in Callers, Step(c)
    PROVE  NumbersInv'
<1>0. /\ attempts \in Seq(Rows) /\ Len(attempts) \in Nat
      /\ \A i \in 1..Len(attempts) : attempts[i].no \in Nat
      /\ \A d \in Callers : no[d] \in Nat
  BY RowTypes DEF TypeOK, StoreTypeOK, LocalTypeOK
<1>1. Len(attempts') \in {Len(attempts), Len(attempts) + 1}
  BY RowsKept
<1>2. ASSUME NEW i \in 1..Len(attempts') PROVE attempts'[i].no <= Len(attempts')
  <2>1. CASE Len(attempts') = Len(attempts)
    BY <1>0, <1>2, <2>1, RowsKept DEF NumbersInv
  <2>2. CASE /\ SeedAttempt(c)
             /\ Len(attempts') = Len(attempts) + 1
             /\ attempts'[Len(attempts) + 1].no = no[c]
             /\ \A j \in 1..Len(attempts) : attempts'[j] = attempts[j]
    <3>1. no[c] <= Len(attempts) + 1
      BY <2>2, SeedStep DEF NumbersInv
    <3>2. i \in 1..Len(attempts) \/ i = Len(attempts) + 1
      BY <1>0, <2>2
    <3>3. QED
      BY <1>0, <2>2, <3>1, <3>2 DEF NumbersInv
  <2>3. QED
    BY <2>1, <2>2, RowsKept
<1>3. ASSUME NEW d \in Callers, pc'[d] \in {"lookup", "seed"} PROVE no'[d] <= Len(attempts') + 1
  <2>1. CASE d = c
    <3>1. UNCHANGED attempts
      BY <1>3, <2>1, NumberTaken
    <3>2. no'[c] = Len(attempts) + 1 \/ (pc[c] = "lookup" /\ no'[c] = no[c])
      BY <1>3, <2>1, NumberTaken
    <3>3. no'[c] <= Len(attempts) + 1
      BY <1>0, <3>2 DEF NumbersInv
    <3>4. QED
      BY <2>1, <3>1, <3>3
  <2>2. CASE d # c
    <3>1. pc[d] \in {"lookup", "seed"} /\ no'[d] = no[d]
      BY <1>3, <2>2, OthersKept
    <3>2. QED
      BY <1>0, <1>1, <3>1 DEF NumbersInv
  <2>3. QED
    BY <2>1, <2>2
<1>4. QED
  BY <1>2, <1>3 DEF NumbersInv

\* However many callers analyze and run the task at once, and wherever they
\* are aborted, the number next_attempt_no would hand out now is on no row.
THEOREM NumberFree == Spec => []NextNumberFree
<1>1. Init => NumbersInv
  BY DEF Init, NumbersInv
<1>2. TypeOK /\ NumbersInv /\ [Next]_vars => NumbersInv'
  <2> SUFFICES ASSUME TypeOK, NumbersInv, [Next]_vars PROVE NumbersInv'
    OBVIOUS
  <2>1. CASE Next
    BY <2>1, NumbersStep DEF Next, Step
  <2>2. CASE UNCHANGED vars
    BY <2>2 DEF vars, store, local, NumbersInv
  <2>3. QED
    BY <2>1, <2>2
<1>3. TypeOK /\ NumbersInv => NextNumberFree
  <2> SUFFICES ASSUME TypeOK, NumbersInv, NEW i \in 1..Len(attempts)
               PROVE  attempts[i].no # Len(attempts) + 1
    BY DEF NextNumberFree, NextAttemptNo
  <2>1. attempts[i].no \in Nat /\ Len(attempts) \in Nat /\ attempts[i].no <= Len(attempts)
    BY RowTypes DEF TypeOK, StoreTypeOK, NumbersInv
  <2>2. QED
    BY <2>1
<1>4. QED
  BY <1>1, <1>2, <1>3, Typing, PTL DEF Spec

----------------------------------------------------------------------------
(* Every write finds its row *)

Numbered(n) == \E i \in 1..Len(attempts) : attempts[i].no = n

\* Also before the seed, for a caller that saw the row when it looked.
FoundInv ==
    /\ WritesFindTheirRow
    /\ \A c \in Callers : pc[c] = "seed" /\ known[c] => Numbered(no[c])

LEMMA NumbersStay ==
    ASSUME TypeOK, NEW c \in Callers, Step(c), NEW n, Numbered(n)
    PROVE  Numbered(n)'
<1>1. PICK i \in 1..Len(attempts) : attempts[i].no = n
  BY DEF Numbered
<1>2. Len(attempts) \in Nat /\ Len(attempts') \in {Len(attempts), Len(attempts) + 1}
  BY RowsKept DEF TypeOK, StoreTypeOK
<1>3. i \in 1..Len(attempts') /\ attempts'[i].no = n
  BY <1>1, <1>2, RowsKept
<1>4. QED
  BY <1>3 DEF Numbered

Writing == {"mark_running", "build", "diagnose", "record", "validate", "finish", "decide"}

\* A caller between its seed and its decision got there by seeding, and
\* still holds the number it seeded.
LEMMA WritingStep ==
    ASSUME TypeOK, NEW c \in Callers, Step(c), pc'[c] \in Writing
    PROVE  no'[c] = no[c] /\ (SeedAttempt(c) \/ pc[c] \in Writing)
<1> USE DEF TypeOK, LocalTypeOK, GoTo, Ended, Locations, Writing, At
<1>1. CASE StartAnalyze(c) \/ StartRun(c) \/ Abort(c)
  BY <1>1 DEF StartAnalyze, StartRun, Abort, Started
<1>2. CASE Analyze(c)
  BY <1>2 DEF Analyze, FetchSource, FailSource, RecordSourceFailure, WriteConstraintReport,
              PublishAnalysis
<1>3. CASE RunTask(c)
  BY <1>3 DEF RunTask, CheckTerminal, CheckBudget, DecideRetry
<1>4. CASE LoadInputs(c) \/ TakeNumber(c) \/ LookupRow(c) \/ SeedAttempt(c) \/ MarkRunning(c)
  BY <1>4 DEF LoadInputs, TakeNumber, LookupRow, SeedAttempt, MarkRunning
<1>5. CASE Build(c) \/ Diagnose(c)
  BY <1>5 DEF Build, Diagnose
<1>6. CASE WriteFailureRecord(c) \/ Validate(c) \/ FinishAttempt(c)
  BY <1>6 DEF WriteFailureRecord, Validate, FinishAttempt
<1>7. QED
  BY <1>1, <1>2, <1>3, <1>4, <1>5, <1>6 DEF Step, Proceed, RunAttempt

\* A file is written under a number held by a caller that has seeded.
LEMMA FilesWritten ==
    ASSUME TypeOK, NEW c \in Callers, Step(c), NEW n \in DOMAIN records' \cup DOMAIN reports'
    PROVE  \/ n \in DOMAIN records \cup DOMAIN reports
           \/ pc[c] \in Writing /\ n = no[c]
<1>1. CASE StartAnalyze(c) \/ StartRun(c) \/ Abort(c)
  BY <1>1 DEF StartAnalyze, StartRun, Abort, Started, store
<1>2. CASE Analyze(c)
  BY <1>2 DEF Analyze, FetchSource, FailSource, RecordSourceFailure, WriteConstraintReport,
              PublishAnalysis
<1>3. CASE RunTask(c)
  BY <1>3 DEF RunTask, CheckTerminal, CheckBudget, DecideRetry, store
<1>4. CASE LoadInputs(c) \/ TakeNumber(c) \/ LookupRow(c) \/ SeedAttempt(c) \/ MarkRunning(c)
           \/ FinishAttempt(c)
  BY <1>4 DEF LoadInputs, TakeNumber, LookupRow, SeedAttempt, MarkRunning, FinishAttempt, store
<1>5. CASE Build(c) \/ Diagnose(c)
  BY <1>5 DEF Build, Diagnose
<1>6. CASE WriteFailureRecord(c)
  BY <1>6 DEF WriteFailureRecord, Written, At, Writing
<1>7. CASE Validate(c)
  BY <1>7 DEF Validate, Written, At, Writing
<1>8. QED
  BY <1>1, <1>2, <1>3, <1>4, <1>5, <1>6, <1>7 DEF Step, Proceed, RunAttempt

LEMMA FoundStep ==
    ASSUME TypeOK, FoundInv, NEW c \in Callers, Step(c)
    PROVE  FoundInv'
<1>1. ASSUME NEW d \in Callers, pc'[d] \in Writing PROVE Numbered(no[d])' 
  <2>1. CASE d # c
    <3>1. pc[d] \in Writing /\ no'[d] = no[d]
      BY <1>1, <2>1, OthersKept
    <3>2. Numbered(no[d])
      BY <3>1 DEF FoundInv, WritesFindTheirRow, Numbered, Writing
    <3>3. \E i \in 1..Len(attempts') : attempts'[i].no = no[d]
      BY <3>2, NumbersStay DEF Numbered
    <3>4. QED
      BY <3>1, <3>3 DEF Numbered
  <2>2. CASE d = c /\ pc[c] \in Writing
    <3>1. no'[c] = no[c]
      BY <1>1, <2>2, WritingStep
    <3>2. Numbered(no[c])
      BY <2>2 DEF FoundInv, WritesFindTheirRow, Numbered, Writing
    <3>3. \E i \in 1..Len(attempts') : attempts'[i].no = no[c]
      BY <3>2, NumbersStay DEF Numbered
    <3>4. QED
      BY <2>2, <3>1, <3>3 DEF Numbered
  <2>3. CASE d = c /\ SeedAttempt(c)
    <3>1. pc[c] = "seed" /\ no'[c] = no[c]
      BY <2>3, SeedStep
    <3>2. \E i \in 1..Len(attempts') : attempts'[i].no = no[c]
      <4>1. CASE known[c]
        <5>1. Numbered(no[c])
          BY <3>1, <4>1 DEF FoundInv
        <5>2. QED
          BY <5>1, NumbersStay DEF Numbered
      <4>2. CASE ~known[c]
        <5>1. /\ Len(attempts) \in Nat
              /\ Len(attempts') = Len(attempts) + 1
              /\ attempts'[Len(attempts) + 1].no = no[c]
          BY <2>3, <4>2, SeededRow, RowTypes DEF TypeOK, StoreTypeOK
        <5>2. QED
          BY <5>1
      <4>3. QED
        BY <4>1, <4>2
    <3>3. QED
      BY <2>3, <3>1, <3>2 DEF Numbered
  <2>4. QED
    BY <1>1, <2>1, <2>2, <2>3, WritingStep
<1>2. ASSUME NEW n \in DOMAIN records' \cup DOMAIN reports' PROVE Numbered(n)'
  <2>1. Numbered(n)
    BY <1>2, FilesWritten DEF FoundInv, WritesFindTheirRow, Numbered, Writing
  <2>2. QED
    BY <2>1, NumbersStay
<1>3. ASSUME NEW d \in Callers, pc'[d] = "seed", known'[d] PROVE Numbered(no[d])'
  <2>1. CASE d # c
    <3>1. pc[d] = "seed" /\ known[d] /\ no'[d] = no[d]
      BY <1>3, <2>1, OthersKept
    <3>2. \E i \in 1..Len(attempts') : attempts'[i].no = no[d]
      BY <3>1, NumbersStay DEF FoundInv, Numbered
    <3>3. QED
      BY <3>1, <3>2 DEF Numbered
  <2>2. CASE d = c
    BY <1>3, <2>2, NumberTaken DEF Numbered
  <2>3. QED
    BY <2>1, <2>2
<1>4. QED
  BY <1>1, <1>2, <1>3 DEF FoundInv, WritesFindTheirRow, Numbered, Writing

\* However many callers work on the task, an update after a seed never runs
\* into an empty WHERE, and no failure record or validation report lies in
\* the workspace for an attempt the table does not know.
THEOREM RowsFound == Spec => []WritesFindTheirRow
<1>1. Init => FoundInv
  BY DEF Init, FoundInv, WritesFindTheirRow
<1>2. TypeOK /\ FoundInv /\ [Next]_vars => FoundInv'
  <2> SUFFICES ASSUME TypeOK, FoundInv, [Next]_vars PROVE FoundInv'
    OBVIOUS
  <2>1. CASE Next
    BY <2>1, FoundStep DEF Next, Step
  <2>2. CASE UNCHANGED vars
    BY <2>2 DEF vars, store, local, FoundInv, WritesFindTheirRow, Numbered
  <2>3. QED
    BY <2>1, <2>2
<1>3. FoundInv => WritesFindTheirRow
  BY DEF FoundInv
<1>4. QED
  BY <1>1, <1>2, <1>3, Typing, PTL DEF Spec

----------------------------------------------------------------------------
(* The budget, and by how much concurrent callers overrun it *)

\* Only a run gets past the budget check: an analyze command has no business
\* there, and a single attempt is not started by any caller of this module.
RunsInv ==
    \A c \in Callers :
        \/ cmd[c] = "run"
        \/ /\ cmd[c] = "analyze"
           /\ pc[c] \in {"idle", "fetch", "report", "publish", "source_failed"}

OverrunInv == RunsInv /\ OverrunBounded

Uncounted == {"load", "fetch", "report", "publish", "number", "lookup", "seed"}

LEMMA RunsStep ==
    ASSUME TypeOK, RunsInv, NEW c \in Callers, Step(c)
    PROVE  RunsInv'
<1> USE DEF TypeOK, LocalTypeOK, GoTo, Ended, At, RunsInv
<1>1. CASE StartAnalyze(c) \/ StartRun(c) \/ Abort(c)
  BY <1>1 DEF StartAnalyze, StartRun, Abort, Started
<1>2. CASE Analyze(c)
  BY <1>2 DEF Analyze, FetchSource, FailSource, RecordSourceFailure, WriteConstraintReport,
              PublishAnalysis
<1>3. CASE RunTask(c)
  BY <1>3 DEF RunTask, CheckTerminal, CheckBudget, DecideRetry
<1>4. CASE LoadInputs(c) \/ TakeNumber(c) \/ LookupRow(c) \/ SeedAttempt(c) \/ MarkRunning(c)
  BY <1>4 DEF LoadInputs, TakeNumber, LookupRow, SeedAttempt, MarkRunning
<1>5. CASE Build(c) \/ Diagnose(c)
  BY <1>5 DEF Build, Diagnose
<1>6. CASE WriteFailureRecord(c) \/ Validate(c) \/ FinishAttempt(c)
  BY <1>6 DEF WriteFailureRecord, Validate, FinishAttempt
<1>7. QED
  BY <1>1, <1>2, <1>3, <1>4, <1>5, <1>6 DEF Step, Proceed, RunAttempt

\* A caller becomes committed under the budget only.
LEMMA CommitsStep ==
    ASSUME TypeOK, RunsInv, NEW c \in Callers, Step(c), c \in Committed', c \notin Committed
    PROVE  Len(attempts) < MaxAttempts /\ UNCHANGED attempts
<1> USE DEF TypeOK, LocalTypeOK, GoTo, Ended, Committed, Uncounted, At
<1>0. Len(attempts) \in Nat /\ MaxAttempts \in Nat
  BY RowTypes, MaxAttemptsPositive DEF StoreTypeOK
<1>1. CASE StartAnalyze(c) \/ StartRun(c) \/ Abort(c)
  BY <1>1 DEF StartAnalyze, StartRun, Abort, Started
<1>2. CASE Analyze(c)
  BY <1>2 DEF Analyze, FetchSource, FailSource, RecordSourceFailure, WriteConstraintReport,
              PublishAnalysis
<1>3. CASE RunTask(c)
  BY <1>0, <1>3 DEF RunTask, CheckTerminal, CheckBudget, DecideRetry, BudgetSpent, store
<1>4. CASE LoadInputs(c) \/ TakeNumber(c) \/ LookupRow(c) \/ SeedAttempt(c) \/ MarkRunning(c)
  BY <1>4 DEF LoadInputs, TakeNumber, LookupRow, SeedAttempt, MarkRunning
<1>5. CASE Build(c) \/ Diagnose(c)
  BY <1>5 DEF Build, Diagnose
<1>6. CASE WriteFailureRecord(c) \/ Validate(c) \/ FinishAttempt(c)
  BY <1>6 DEF WriteFailureRecord, Validate, FinishAttempt
<1>7. QED
  BY <1>1, <1>2, <1>3, <1>4, <1>5, <1>6 DEF Step, Proceed, RunAttempt

\* A caller whose seed adds a row is committed before and not after.
LEMMA SeedSpends ==
    ASSUME TypeOK, RunsInv, NEW c \in Callers, SeedAttempt(c)
    PROVE  c \in Committed /\ c \notin Committed'
<1>1. pc[c] = "seed" /\ pc'[c] = "mark_running"
  BY SeedStep
<1>2. QED
  BY <1>1 DEF RunsInv, Committed

LEMMA OverrunStep ==
    ASSUME TypeOK, OverrunInv, NEW c \in Callers, Step(c)
    PROVE  OverrunInv'
<1> DEFINE rest == Committed \ {c}
<1>1. RunsInv'
  BY RunsStep DEF OverrunInv
<1>2. Committed' \ {c} = rest
  BY OthersKept DEF Committed
<1>3. /\ IsFiniteSet(Committed) /\ IsFiniteSet(Committed') /\ IsFiniteSet(rest)
      /\ Cardinality(rest) \in Nat
  <2>1. Committed \subseteq Callers /\ Committed' \subseteq Callers /\ rest \subseteq Callers
    BY DEF Committed
  <2>2. QED
    BY <2>1, CallersFinite, FS_Subset, FS_CardinalityType
<1>4. /\ Cardinality(Committed) = Cardinality(rest) + (IF c \in Committed THEN 1 ELSE 0)
      /\ Cardinality(Committed') = Cardinality(rest) + (IF c \in Committed' THEN 1 ELSE 0)
  <2>1. ASSUME NEW S, IsFiniteSet(S)
        PROVE  Cardinality(S) = Cardinality(S \ {c}) + (IF c \in S THEN 1 ELSE 0)
    <3>1. Cardinality(S) \in Nat
      BY <2>1, FS_CardinalityType
    <3>2. Cardinality(S \ {c}) = IF c \in S THEN Cardinality(S) - 1 ELSE Cardinality(S)
      BY <2>1, FS_RemoveElement
    <3>3. QED
      BY <3>1, <3>2
  <2>2. QED
    BY <1>2, <1>3, <2>1
<1>5. Cardinality(rest) < Cardinality(Callers) /\ Cardinality(Callers) \in Nat
  <2>1. Cardinality(Callers \ {c}) = Cardinality(Callers) - 1 /\ Cardinality(Callers) \in Nat
    BY CallersFinite, FS_RemoveElement, FS_CardinalityType
  <2>2. rest \subseteq Callers \ {c} /\ IsFiniteSet(Callers \ {c})
    BY CallersFinite, FS_RemoveElement DEF Committed
  <2>3. Cardinality(rest) <= Cardinality(Callers \ {c})
    BY <2>2, FS_Subset
  <2>4. QED
    BY <1>3, <2>1, <2>3
<1>6. Len(attempts) \in Nat /\ MaxAttempts \in Nat
  BY RowTypes, MaxAttemptsPositive DEF TypeOK, StoreTypeOK
<1>7. Len(attempts) + Cardinality(Committed) < MaxAttempts + Cardinality(Callers)
  BY DEF OverrunInv, OverrunBounded
<1>8. Len(attempts') + Cardinality(Committed') < MaxAttempts + Cardinality(Callers)
  <2>1. CASE c \in Committed' /\ c \notin Committed
    <3>1. Len(attempts) < MaxAttempts /\ Len(attempts') = Len(attempts)
      BY <2>1, CommitsStep DEF OverrunInv
    <3>2. Cardinality(Committed') = Cardinality(rest) + 1
      BY <1>4, <2>1
    <3>3. QED
      BY <1>3, <1>5, <1>6, <3>1, <3>2
  <2>2. CASE SeedAttempt(c) /\ ~known[c]
    <3>1. Len(attempts') = Len(attempts) + 1
      BY <2>2, SeededRow
    <3>2. /\ Cardinality(Committed) = Cardinality(rest) + 1
          /\ Cardinality(Committed') = Cardinality(rest)
      BY <1>3, <1>4, <2>2, SeedSpends DEF OverrunInv
    <3>3. QED
      BY <1>3, <1>5, <1>6, <1>7, <3>1, <3>2
  <2>3. CASE Len(attempts') = Len(attempts) /\ (c \in Committed' => c \in Committed)
    <3>1. Cardinality(Committed') <= Cardinality(Committed)
      BY <1>3, <1>4, <2>3
    <3>2. Cardinality(Committed) \in Nat /\ Cardinality(Committed') \in Nat
      BY <1>3, FS_CardinalityType
    <3>3. QED
      BY <1>5, <1>6, <1>7, <2>3, <3>1, <3>2
  <2>4. QED
    BY <2>1, <2>2, <2>3, RowsKept
<1>9. QED
  BY <1>1, <1>8 DEF OverrunInv, OverrunBounded

LEMMA OverrunInvariant == Callers # {} => (Spec => []OverrunInv)
<1> SUFFICES ASSUME Callers # {} PROVE Spec => []OverrunInv
  OBVIOUS
<1>1. Init => OverrunInv
  <2> SUFFICES ASSUME Init PROVE OverrunInv
    OBVIOUS
  <2>1. RunsInv /\ Committed = {} /\ Len(attempts) = 0
    BY DEF Init, RunsInv, Committed
  <2>2. Cardinality({}) = 0 /\ Cardinality(Callers) \in Nat /\ Cardinality(Callers) # 0
    BY CallersFinite, FS_EmptySet, FS_CardinalityType
  <2>3. MaxAttempts \in Nat /\ MaxAttempts > 0
    BY MaxAttemptsPositive
  <2>4. QED
    BY <2>1, <2>2, <2>3 DEF OverrunInv, OverrunBounded
<1>2. TypeOK /\ OverrunInv /\ [Next]_vars => OverrunInv'
  <2> SUFFICES ASSUME TypeOK, OverrunInv, [Next]_vars PROVE OverrunInv'
    OBVIOUS
  <2>1. CASE Next
    BY <2>1, OverrunStep DEF Next, Step
  <2>2. CASE UNCHANGED vars
    BY <2>2 DEF vars, store, local, OverrunInv, RunsInv, OverrunBounded, Committed
  <2>3. QED
    BY <2>1, <2>2
<1>3. QED
  BY <1>1, <1>2, Typing, PTL DEF Spec

\* n callers that run one task at the same time exceed its max_attempts by
\* n - 1 attempts at most, however they interleave, retry and abort.
THEOREM Overrun == Callers # {} => (Spec => []OverrunBounded)
<1>1. OverrunInv => OverrunBounded
  BY DEF OverrunInv
<1>2. QED
  BY <1>1, OverrunInvariant, PTL

\* A caller that has the task to itself keeps to max_attempts: calling run
\* again, re-analyzing and dying at any step included.
THEOREM Budget == ASSUME NEW c, Callers = {c} PROVE Spec => []AttemptBudget
<1>1. TypeOK /\ OverrunBounded => AttemptBudget
  <2> SUFFICES ASSUME TypeOK, OverrunBounded PROVE AttemptBudget
    OBVIOUS
  <2>1. Cardinality(Callers) = 1
    BY FS_Singleton
  <2>2. Cardinality(Committed) \in Nat
    <3>1. Committed \subseteq Callers
      BY DEF Committed
    <3>2. QED
      BY <3>1, CallersFinite, FS_Subset, FS_CardinalityType
  <2>3. Len(attempts) \in Nat /\ MaxAttempts \in Nat
    BY RowTypes, MaxAttemptsPositive DEF TypeOK, StoreTypeOK
  <2>4. QED
    BY <2>1, <2>2, <2>3 DEF OverrunBounded, AttemptBudget
<1>2. Callers # {}
  OBVIOUS
<1>3. QED
  BY <1>1, <1>2, Typing, Overrun, PTL

----------------------------------------------------------------------------
(* A caller that has the task to itself: the inductive invariant *)

Undone == \A i \in 1..Len(attempts) : attempts[i].status \notin Success

\* The last row is the caller's own, with this status.
Owns(c, status) ==
    /\ Len(attempts) > 0
    /\ no[c] = Len(attempts)
    /\ attempts[Len(attempts)].status = status

\* What a caller may rely on, by where it stands.
Held(c) ==
    /\ pc[c] \in {"lookup", "seed"} => no[c] = Len(attempts) + 1
    /\ pc[c] = "seed" => ~known[c]
    /\ pc[c] \in {"mark_running", "build"} => Owns(c, "running")
    /\ pc[c] \in {"diagnose", "record", "validate", "finish", "decide"}
          => Owns(c, result[c].status)
    /\ /\ cmd[c] = "run"
       /\ pc[c] \in {"check_budget", "load", "fetch", "report", "publish", "number",
                     "lookup", "seed"}
       => Undone

SerialInv ==
    /\ NumberedInOrder
    /\ \A i \in 1..Len(attempts) - 1 : attempts[i].status \notin Success
    /\ \A c \in Callers : Held(c)

LEMMA LastRow ==
    ASSUME TypeOK, NumberedInOrder, NEW i \in LatestRows
    PROVE  i = Len(attempts) /\ Len(attempts) > 0
<1>1. DOMAIN attempts = 1..Len(attempts)
  BY RowTypes DEF TypeOK, StoreTypeOK
<1>2. Len(attempts) \in Nat /\ i \in 1..Len(attempts)
  BY <1>1, RowTypes DEF LatestRows, TypeOK, StoreTypeOK
<1>3. Len(attempts) <= i
  <2>1. Len(attempts) \in 1..Len(attempts)
    BY <1>2
  <2>2. attempts[Len(attempts)].no = Len(attempts) /\ attempts[i].no = i
    BY <1>2, <2>1 DEF NumberedInOrder
  <2>3. attempts[Len(attempts)].no <= attempts[i].no
    BY <1>1, <2>1 DEF LatestRows
  <2>4. QED
    BY <2>2, <2>3
<1>4. QED
  BY <1>2, <1>3

\* A run that gets past the terminal check has no success behind it.
LEMMA NotTerminal ==
    ASSUME TypeOK, SerialInv, NEW c \in Callers, CheckTerminal(c), pc'[c] = "check_budget"
    PROVE  Undone
<1>1. Len(attempts) \in Nat
  BY RowTypes DEF TypeOK, StoreTypeOK
<1>2. \/ attempts = <<>>
      \/ \E i \in LatestRows : \/ attempts[i].status = "running"
                               \/ ~Stops(i, RecordOf(attempts[i].no, attempts[i].failure))
  BY DEF CheckTerminal, Ended, GoTo, TypeOK, LocalTypeOK
<1>3. CASE attempts = <<>>
  BY <1>3 DEF Undone
<1>4. ASSUME NEW i \in LatestRows, attempts[i].status = "running" PROVE Undone
  <2>1. i = Len(attempts) /\ attempts[i].status \notin Success
    BY <1>4, LastRow DEF SerialInv, Success
  <2>2. QED
    BY <1>1, <2>1 DEF SerialInv, Undone
<1>5. ASSUME NEW i \in LatestRows, ~Stops(i, RecordOf(attempts[i].no, attempts[i].failure))
      PROVE Undone
  <2>1. attempts[i].status \notin Success
    BY <1>5 DEF Stops, PolicyStops, PolicyRetries, PolicyRepairs, PolicyReports
  <2>2. i = Len(attempts)
    BY LastRow DEF SerialInv
  <2>3. QED
    BY <1>1, <2>1, <2>2 DEF SerialInv, Undone
<1>6. QED
  BY <1>2, <1>3, <1>4, <1>5

\* A run that retries has just failed.
LEMMA Retried ==
    ASSUME TypeOK, SerialInv, NEW c \in Callers, DecideRetry(c), pc'[c] = "load"
    PROVE  Undone
<1>1. Len(attempts) \in Nat
  BY RowTypes DEF TypeOK, StoreTypeOK
<1>2. pc[c] = "decide" /\ result[c].status \notin Success
  BY DEF DecideRetry, RetryAdvised, Ended, GoTo, At, TypeOK, LocalTypeOK
<1>3. attempts[Len(attempts)].status \notin Success
  BY <1>2 DEF SerialInv, Held, Owns
<1>4. QED
  BY <1>1, <1>3 DEF SerialInv, Undone

LEMMA HeldQuietly ==
    ASSUME TypeOK, RunsInv, SerialInv, NEW c \in Callers, Step(c), UNCHANGED attempts,
           ~SeedAttempt(c), ~Build(c), ~Diagnose(c)
    PROVE  Held(c)'
<1> USE DEF TypeOK, LocalTypeOK, GoTo, Ended, At, Locations
<1>0. Len(attempts) \in Nat /\ Held(c)
  BY RowTypes DEF StoreTypeOK, SerialInv
<1>1. CASE StartAnalyze(c) \/ StartRun(c) \/ Abort(c)
  BY <1>1 DEF StartAnalyze, StartRun, Abort, Started, Held
<1>2. CASE Analyze(c)
  BY <1>0, <1>2
  DEF Analyze, FetchSource, FailSource, RecordSourceFailure, WriteConstraintReport,
      PublishAnalysis, Held, Undone, RunsInv
<1>3. CASE CheckTerminal(c)
  BY <1>0, <1>3, NotTerminal DEF CheckTerminal, Held, Undone
<1>4. CASE CheckBudget(c)
  BY <1>0, <1>4 DEF CheckBudget, Held, Undone
<1>5. CASE DecideRetry(c)
  BY <1>0, <1>5, Retried DEF DecideRetry, Held, Undone
<1>6. CASE LoadInputs(c)
  BY <1>0, <1>6 DEF LoadInputs, Held, Undone
<1>7. CASE TakeNumber(c)
  BY <1>0, <1>7 DEF TakeNumber, NextAttemptNo, Held, Undone
<1>8. CASE LookupRow(c)
  <2>1. ~(\E i \in DOMAIN attempts : attempts[i].no = no[c])
    <3>1. pc[c] = "lookup" /\ no[c] = Len(attempts) + 1
      BY <1>0, <1>8 DEF LookupRow, Held
    <3>2. DOMAIN attempts = 1..Len(attempts)
      BY RowTypes DEF StoreTypeOK
    <3>3. QED
      BY <1>0, <3>1, <3>2 DEF SerialInv, NumberedInOrder
  <2>2. ~known'[c]
    BY <1>8, <2>1 DEF LookupRow
  <2>3. QED
    BY <1>0, <1>8, <2>2 DEF LookupRow, Held, Undone
<1>9. CASE MarkRunning(c)
  BY <1>0, <1>9 DEF MarkRunning, Held, Owns
<1>10. CASE WriteFailureRecord(c) \/ Validate(c)
  BY <1>0, <1>10 DEF WriteFailureRecord, Validate, Held, Owns
<1>11. CASE FinishAttempt(c)
  BY <1>0, <1>11 DEF FinishAttempt, Held, Owns
<1>12. QED
  BY <1>1, <1>2, <1>3, <1>4, <1>5, <1>6, <1>7, <1>8, <1>9, <1>10, <1>11
  DEF Step, Proceed, RunTask, RunAttempt

----------------------------------------------------------------------------
(* The steps that write the table *)

\* A seed opens the attempt that comes next.
LEMMA SeedOpens ==
    ASSUME TypeOK, RunsInv, SerialInv, NEW c \in Callers, SeedAttempt(c)
    PROVE  /\ Undone
           /\ Len(attempts') = Len(attempts) + 1
           /\ \A i \in 1..Len(attempts) : attempts'[i] = attempts[i]
           /\ attempts'[Len(attempts) + 1].no = Len(attempts) + 1
           /\ attempts'[Len(attempts) + 1].status = "running"
           /\ no'[c] = Len(attempts) + 1
           /\ pc'[c] = "mark_running"
<1>1. pc[c] = "seed" /\ pc'[c] = "mark_running" /\ no'[c] = no[c]
  BY SeedStep
<1>2. ~known[c] /\ no[c] = Len(attempts) + 1
  BY <1>1 DEF SerialInv, Held
<1>3. Undone
  BY <1>1 DEF SerialInv, Held, RunsInv
<1>4. QED
  BY <1>1, <1>2, <1>3, SeededRow

\* An update of the last row's number writes the last row and no other.
LEMMA LastUpdated ==
    ASSUME TypeOK, NumberedInOrder, Len(attempts) > 0,
           NEW s \in AttemptStatus, NEW f \in FailureTypes \cup {"none"},
           attempts' = Updated(Len(attempts), s, f)
    PROVE  /\ Len(attempts') = Len(attempts)
           /\ \A i \in 1..Len(attempts) : attempts'[i].no = i
           /\ attempts'[Len(attempts)].status = s
           /\ \A i \in 1..Len(attempts) - 1 : attempts'[i] = attempts[i]
<1>1. attempts \in Seq(Rows) /\ Len(attempts) \in Nat
  BY RowTypes DEF TypeOK, StoreTypeOK
<1>2. /\ Len(attempts') = Len(attempts)
      /\ \A i \in 1..Len(attempts) :
            /\ attempts'[i].no = attempts[i].no
            /\ attempts[i].no = Len(attempts) => attempts'[i].status = s
            /\ attempts[i].no # Len(attempts) => attempts'[i] = attempts[i]
  BY <1>1, UpdatedRows
<1>3. QED
  BY <1>1, <1>2 DEF NumberedInOrder

\* A build closes the last attempt, which was running.
LEMMA BuildCloses ==
    ASSUME TypeOK, SerialInv, NEW c \in Callers, Build(c)
    PROVE  /\ Owns(c, "running")
           /\ pc'[c] = "diagnose" /\ no'[c] = no[c]
           /\ result'[c].status \in {"failed", "built", "target_state"}
           /\ \E f \in FailureTypes \cup {"none"} :
                 attempts' = Updated(Len(attempts), result'[c].status, f)
<1>1. pc[c] = "build" /\ pc'[c] = "diagnose" /\ no'[c] = no[c]
  BY DEF Build, At, GoTo, TypeOK, LocalTypeOK
<1>2. Owns(c, "running")
  BY <1>1 DEF SerialInv, Held
<1>3. PICK o \in BuildOutcomes, ineffective \in BOOLEAN :
          /\ attempts' = Updated(no[c], o.status, o.failure)
          /\ result' = [result EXCEPT ![c] =
                [status |-> o.status, failure |-> o.failure,
                 diagnosis |-> "none", ineffective |-> ineffective]]
  BY DEF Build
<1>4. result'[c].status = o.status
  BY <1>3 DEF TypeOK, LocalTypeOK
<1>5. o.status \in {"failed", "built", "target_state"}
  BY DEF BuildOutcomes
<1>6. o.failure \in FailureTypes \cup {"none"}
  BY BuiltTypes
<1>7. QED
  BY <1>1, <1>2, <1>3, <1>4, <1>5, <1>6 DEF Owns

\* The diagnosis writes the last row with the status it has.
LEMMA DiagnoseKeeps ==
    ASSUME TypeOK, SerialInv, NEW c \in Callers, Diagnose(c)
    PROVE  /\ Owns(c, result[c].status)
           /\ pc'[c] = "record" /\ no'[c] = no[c]
           /\ result'[c].status = result[c].status
           /\ result[c].status \in AttemptStatus
           /\ \E f \in FailureTypes \cup {"none"} :
                 attempts' = Updated(Len(attempts), result[c].status, f)
<1>1. pc[c] = "diagnose" /\ pc'[c] = "record" /\ no'[c] = no[c]
  BY DEF Diagnose, At, GoTo, TypeOK, LocalTypeOK
<1>2. Owns(c, result[c].status)
  BY <1>1 DEF SerialInv, Held
<1>3. PICK f \in FailureTypes \cup {"none"}, e \in FailureTypes \cup {"none"} :
          Diagnosed(c, f, e)
  BY DiagnosedTypes
<1>4. /\ attempts' = Updated(no[c], result[c].status, f)
      /\ result' = [result EXCEPT ![c].failure = f, ![c].diagnosis = e]
  BY <1>3 DEF Diagnosed
<1>5. result[c] \in Results
  BY DEF TypeOK, LocalTypeOK
<1>6. result'[c].status = result[c].status /\ result[c].status \in AttemptStatus
  BY <1>4, <1>5 DEF TypeOK, LocalTypeOK, Results
<1>7. QED
  BY <1>1, <1>2, <1>4, <1>6 DEF Owns

\* A caller that is about to seed has room for one more attempt.
LEMMA SeedWithinBudget ==
    ASSUME NEW c, Callers = {c}, TypeOK, OverrunInv, SeedAttempt(c)
    PROVE  Len(attempts) < MaxAttempts
<1>1. c \in Committed
  BY SeedSpends DEF OverrunInv
<1>2. Committed = {c}
  BY <1>1 DEF Committed
<1>3. Cardinality(Committed) = 1 /\ Cardinality(Callers) = 1
  BY <1>2, FS_Singleton
<1>4. Len(attempts) \in Nat /\ MaxAttempts \in Nat
  BY RowTypes, MaxAttemptsPositive DEF TypeOK, StoreTypeOK
<1>5. QED
  BY <1>3, <1>4 DEF OverrunInv, OverrunBounded

LEMMA SerialStep ==
    ASSUME NEW c, Callers = {c}, TypeOK, RunsInv, SerialInv, Step(c)
    PROVE  SerialInv'
<1>0. Len(attempts) \in Nat /\ NumberedInOrder
  BY RowTypes DEF TypeOK, StoreTypeOK, SerialInv
<1>1. CASE SeedAttempt(c)
  <2>1. NumberedInOrder'
    BY <1>0, <1>1, SeedOpens DEF NumberedInOrder
  <2>2. \A i \in 1..Len(attempts') - 1 : attempts'[i].status \notin Success
    BY <1>0, <1>1, SeedOpens DEF Undone
  <2>3. Held(c)'
    BY <1>0, <1>1, SeedOpens DEF Held, Owns
  <2>4. QED
    BY <2>1, <2>2, <2>3 DEF SerialInv
<1>2. CASE Build(c)
  <2>1. PICK f \in FailureTypes \cup {"none"} :
            attempts' = Updated(Len(attempts), result'[c].status, f)
    BY <1>2, BuildCloses
  <2>2. /\ Owns(c, "running") /\ pc'[c] = "diagnose" /\ no'[c] = no[c]
        /\ result'[c].status \in AttemptStatus
    BY <1>2, BuildCloses DEF AttemptStatus
  <2>3. /\ Len(attempts') = Len(attempts) /\ Len(attempts) > 0
        /\ \A i \in 1..Len(attempts) : attempts'[i].no = i
        /\ attempts'[Len(attempts)].status = result'[c].status
        /\ \A i \in 1..Len(attempts) - 1 : attempts'[i] = attempts[i]
    BY <1>0, <2>1, <2>2, LastUpdated DEF Owns
  <2>4. NumberedInOrder' /\ \A i \in 1..Len(attempts') - 1 : attempts'[i].status \notin Success
    BY <1>0, <2>3 DEF NumberedInOrder, SerialInv
  <2>5. Held(c)'
    BY <2>2, <2>3 DEF Held, Owns
  <2>6. QED
    BY <2>4, <2>5 DEF SerialInv
<1>3. CASE Diagnose(c)
  <2>1. PICK f \in FailureTypes \cup {"none"} :
            attempts' = Updated(Len(attempts), result[c].status, f)
    BY <1>3, DiagnoseKeeps
  <2>2. /\ Owns(c, result[c].status) /\ pc'[c] = "record" /\ no'[c] = no[c]
        /\ result'[c].status = result[c].status /\ result[c].status \in AttemptStatus
    BY <1>3, DiagnoseKeeps
  <2>3. /\ Len(attempts') = Len(attempts) /\ Len(attempts) > 0
        /\ \A i \in 1..Len(attempts) : attempts'[i].no = i
        /\ attempts'[Len(attempts)].status = result[c].status
        /\ \A i \in 1..Len(attempts) - 1 : attempts'[i] = attempts[i]
    BY <1>0, <2>1, <2>2, LastUpdated DEF Owns
  <2>4. NumberedInOrder' /\ \A i \in 1..Len(attempts') - 1 : attempts'[i].status \notin Success
    BY <1>0, <2>3 DEF NumberedInOrder, SerialInv
  <2>5. Held(c)'
    BY <2>2, <2>3 DEF Held, Owns
  <2>6. QED
    BY <2>4, <2>5 DEF SerialInv
<1>4. CASE ~SeedAttempt(c) /\ ~Build(c) /\ ~Diagnose(c)
  <2>1. UNCHANGED attempts
    BY <1>4, AttemptWrites
  <2>2. Held(c)'
    BY <1>4, <2>1, HeldQuietly
  <2>3. QED
    BY <2>1, <2>2 DEF SerialInv, NumberedInOrder
<1>5. QED
  BY <1>1, <1>2, <1>3, <1>4

----------------------------------------------------------------------------
(* The theorems *)

LEMMA SerialInvariant ==
    ASSUME NEW c, Callers = {c}
    PROVE  Spec => [](TypeOK /\ OverrunInv /\ SerialInv)
<1>1. Init => SerialInv
  BY DEF Init, SerialInv, NumberedInOrder, Held
<1>2. TypeOK /\ OverrunInv /\ SerialInv /\ [Next]_vars => SerialInv'
  <2> SUFFICES ASSUME TypeOK, OverrunInv, SerialInv, [Next]_vars PROVE SerialInv'
    OBVIOUS
  <2>1. CASE Next
    <3>1. Step(c)
      BY <2>1 DEF Next, Step
    <3>2. QED
      BY <3>1, SerialStep DEF OverrunInv
  <2>2. CASE UNCHANGED vars
    BY <2>2 DEF vars, store, local, SerialInv, NumberedInOrder, Held, Owns, Undone
  <2>3. QED
    BY <2>1, <2>2
<1>3. Callers # {}
  OBVIOUS
<1>4. Spec => []OverrunInv
  BY <1>3, OverrunInvariant
<1>5. QED
  BY <1>1, <1>2, <1>4, Typing, PTL DEF Spec

\* next_attempt_no counts the rows: it numbers the attempts of a caller that
\* has the task to itself 1, 2, 3, ..., although an aborted attempt leaves
\* its row behind.
THEOREM Numbering == ASSUME NEW c, Callers = {c} PROVE Spec => []NumberedInOrder
<1>1. SerialInv => NumberedInOrder
  BY DEF SerialInv
<1>2. QED
  BY <1>1, SerialInvariant, PTL

\* The validator of a caller that has the task to itself gets the attempts
\* before this one, and neither this one nor a later one, as their history.
THEOREM EarlierHistory == ASSUME NEW c, Callers = {c} PROVE Spec => []HistoryIsEarlier
<1>1. TypeOK /\ SerialInv => HistoryIsEarlier
  <2> SUFFICES ASSUME TypeOK, SerialInv, NEW d \in Callers, pc[d] = "validate"
               PROVE  /\ \A i \in LatestRows : attempts[i].no = no[d]
                      /\ \A j \in 1..Len(attempts) - 1 : attempts[j].no < no[d]
    BY DEF HistoryIsEarlier
  <2>1. Len(attempts) \in Nat /\ NumberedInOrder
    BY RowTypes DEF TypeOK, StoreTypeOK, SerialInv
  <2>2. Len(attempts) > 0 /\ no[d] = Len(attempts)
    BY DEF SerialInv, Held, Owns
  <2>3. ASSUME NEW i \in LatestRows PROVE attempts[i].no = no[d]
    <3>1. i = Len(attempts)
      BY <2>1, LastRow
    <3>2. QED
      BY <2>1, <2>2, <3>1 DEF NumberedInOrder
  <2>4. ASSUME NEW j \in 1..Len(attempts) - 1 PROVE attempts[j].no < no[d]
    BY <2>1, <2>2 DEF NumberedInOrder
  <2>5. QED
    BY <2>3, <2>4
<1>2. QED
  BY <1>1, SerialInvariant, PTL

\* The statuses of the rows, as the ledger sees them.
statuses == [i \in 1..Len(attempts) |-> attempts[i].status]

LEMMA LedgerStep ==
    ASSUME NEW c, Callers = {c}, TypeOK, OverrunInv, SerialInv, Step(c)
    PROVE  Ledger!Next \/ statuses' = statuses
<1>0. Len(attempts) \in Nat /\ NumberedInOrder
  BY RowTypes DEF TypeOK, StoreTypeOK, SerialInv
<1>1. statuses \in Seq(AttemptStatus) /\ Len(statuses) = Len(attempts)
  BY <1>0, RowTypes DEF statuses, TypeOK, StoreTypeOK
<1>2. CASE SeedAttempt(c)
  <2>1. Len(attempts) < MaxAttempts
    BY <1>2, SeedWithinBudget
  <2>2. /\ Undone /\ Len(attempts') = Len(attempts) + 1
        /\ \A i \in 1..Len(attempts) : attempts'[i] = attempts[i]
        /\ attempts'[Len(attempts) + 1].status = "running"
    BY <1>2, SeedOpens DEF OverrunInv
  <2>3. statuses' = Append(statuses, "running")
    BY <1>0, <1>1, <2>2 DEF statuses
  <2>4. \A i \in 1..Len(statuses) : statuses[i] \notin {"built", "target_state"}
    BY <1>1, <2>2 DEF statuses, Undone, Success
  <2>5. QED
    BY <1>1, <2>1, <2>3, <2>4 DEF Ledger!Next, Ledger!Open, statuses
<1>3. CASE Build(c)
  <2>1. PICK f \in FailureTypes \cup {"none"} :
            attempts' = Updated(Len(attempts), result'[c].status, f)
    BY <1>3, BuildCloses DEF OverrunInv
  <2>2. Owns(c, "running") /\ result'[c].status \in {"failed", "built", "target_state"}
    BY <1>3, BuildCloses DEF OverrunInv
  <2>3. /\ Len(attempts') = Len(attempts) /\ Len(attempts) > 0
        /\ attempts'[Len(attempts)].status = result'[c].status
        /\ \A i \in 1..Len(attempts) - 1 : attempts'[i] = attempts[i]
    BY SMTT(30), <1>0, <2>1, <2>2, LastUpdated DEF Owns, AttemptStatus
  <2>4. statuses' = [statuses EXCEPT ![Len(statuses)] = result'[c].status]
    <3>1. statuses' = [i \in 1..Len(attempts) |-> attempts'[i].status]
      BY <2>3 DEF statuses
    <3>2. \A i \in 1..Len(attempts) : i = Len(attempts) \/ i \in 1..Len(attempts) - 1
      BY <1>0
    <3>3. \A i \in 1..Len(attempts) : attempts'[i].status =
              IF i = Len(attempts) THEN result'[c].status ELSE attempts[i].status
      BY <2>3, <3>2
    <3>4. [statuses EXCEPT ![Len(attempts)] = result'[c].status] =
              [i \in 1..Len(attempts) |->
                  IF i = Len(attempts) THEN result'[c].status ELSE attempts[i].status]
      BY DEF statuses
    <3>5. QED
      BY <1>1, <3>1, <3>3, <3>4
  <2>5. statuses # <<>> /\ statuses[Len(statuses)] = "running"
    BY <1>0, <1>1, <2>2 DEF statuses, Owns
  <2>6. QED
    BY <2>2, <2>4, <2>5 DEF Ledger!Next, Ledger!Close, Ledger!Closed, statuses
<1>4. CASE Diagnose(c)
  <2>1. PICK f \in FailureTypes \cup {"none"} :
            attempts' = Updated(Len(attempts), result[c].status, f)
    BY <1>4, DiagnoseKeeps
  <2>2. Owns(c, result[c].status) /\ result[c].status \in AttemptStatus
    BY <1>4, DiagnoseKeeps
  <2>3. /\ Len(attempts') = Len(attempts) /\ Len(attempts) > 0
        /\ attempts'[Len(attempts)].status = attempts[Len(attempts)].status
        /\ \A i \in 1..Len(attempts) - 1 : attempts'[i] = attempts[i]
    BY <1>0, <2>1, <2>2, LastUpdated DEF Owns
  <2>4. QED
    BY <1>0, <2>3 DEF statuses
<1>5. CASE ~SeedAttempt(c) /\ ~Build(c) /\ ~Diagnose(c)
  BY <1>5, AttemptWrites DEF statuses
<1>6. QED
  BY <1>2, <1>3, <1>4, <1>5

\* The attempts of a caller that has the task to itself keep the promises of
\* the ledger: opened one at a time and within the budget, never after a
\* success, and closed once.
THEOREM LedgerImplemented == ASSUME NEW c, Callers = {c} PROVE Spec => LedgerKept
<1>1. Init => Ledger!Init
  BY DEF Init, Ledger!Init
<1>2. TypeOK /\ OverrunInv /\ SerialInv /\ [Next]_vars => [Ledger!Next]_statuses
  <2> SUFFICES ASSUME TypeOK, OverrunInv, SerialInv, [Next]_vars
               PROVE  Ledger!Next \/ statuses' = statuses
    OBVIOUS
  <2>1. CASE Next
    <3>1. Step(c)
      BY <2>1 DEF Next, Step
    <3>2. QED
      BY <3>1, LedgerStep
  <2>2. CASE UNCHANGED vars
    BY <2>2 DEF vars, store, statuses
  <2>3. QED
    BY <2>1, <2>2
<1>3. QED
  BY <1>1, <1>2, SerialInvariant, PTL DEF Spec, LedgerKept, Ledger!Spec, statuses

----------------------------------------------------------------------------
(* What the task row shows *)

\* Until the attempt is finished the task says that it runs.
ShownInv ==
    /\ TaskShowsItsAttempt
    /\ \A c \in Callers : pc[c] \in {"build", "diagnose", "record", "validate", "finish"} =>
          task = [status |-> "running", current |-> no[c]]

\* The steps that write the task row, and what they write.
LEMMA TaskWrites ==
    ASSUME TypeOK, NEW c \in Callers, Step(c)
    PROVE  \/ UNCHANGED task
           \/ /\ task'.current = 0
              /\ pc'[c] \in {"idle", "load"}
           \/ MarkRunning(c)
           \/ FinishAttempt(c)
<1> USE DEF TypeOK, LocalTypeOK, GoTo, Ended
<1>1. CASE StartAnalyze(c) \/ StartRun(c) \/ Abort(c)
  BY <1>1 DEF StartAnalyze, StartRun, Abort, Started, store
<1>2. CASE FetchSource(c) \/ FailSource(c) \/ WriteConstraintReport(c)
  BY <1>2 DEF FetchSource, FailSource, WriteConstraintReport
<1>3. CASE RecordSourceFailure(c) \/ PublishAnalysis(c)
  BY <1>3 DEF RecordSourceFailure, PublishAnalysis
<1>4. CASE RunTask(c)
  BY <1>4 DEF RunTask, CheckTerminal, CheckBudget, DecideRetry, store
<1>5. CASE LoadInputs(c) \/ TakeNumber(c) \/ LookupRow(c) \/ SeedAttempt(c)
  BY <1>5 DEF LoadInputs, TakeNumber, LookupRow, SeedAttempt, store
<1>6. CASE Build(c) \/ Diagnose(c) \/ WriteFailureRecord(c) \/ Validate(c)
  BY <1>6 DEF Build, Diagnose, WriteFailureRecord, Validate
<1>7. QED
  BY <1>1, <1>2, <1>3, <1>4, <1>5, <1>6 DEF Step, Proceed, Analyze, RunAttempt

\* A caller inside an attempt got there by marking the task as running, and
\* keeps its number.
LEMMA InsideStep ==
    ASSUME TypeOK, NEW c \in Callers, Step(c),
           pc'[c] \in {"build", "diagnose", "record", "validate", "finish"}
    PROVE  /\ no'[c] = no[c]
           /\ \/ MarkRunning(c)
              \/ /\ pc[c] \in {"build", "diagnose", "record", "validate"}
                 /\ UNCHANGED task
<1> USE DEF TypeOK, LocalTypeOK, GoTo, Ended, Locations, At
<1>1. CASE StartAnalyze(c) \/ StartRun(c) \/ Abort(c)
  BY <1>1 DEF StartAnalyze, StartRun, Abort, Started
<1>2. CASE Analyze(c)
  BY <1>2 DEF Analyze, FetchSource, FailSource, RecordSourceFailure, WriteConstraintReport,
              PublishAnalysis
<1>3. CASE RunTask(c)
  BY <1>3 DEF RunTask, CheckTerminal, CheckBudget, DecideRetry
<1>4. CASE LoadInputs(c) \/ TakeNumber(c) \/ LookupRow(c) \/ SeedAttempt(c) \/ MarkRunning(c)
  BY <1>4 DEF LoadInputs, TakeNumber, LookupRow, SeedAttempt, MarkRunning
<1>5. CASE Build(c) \/ Diagnose(c)
  BY <1>5 DEF Build, Diagnose
<1>6. CASE WriteFailureRecord(c) \/ Validate(c) \/ FinishAttempt(c)
  BY <1>6 DEF WriteFailureRecord, Validate, FinishAttempt
<1>7. QED
  BY <1>1, <1>2, <1>3, <1>4, <1>5, <1>6 DEF Step, Proceed, RunAttempt

\* What a step of the only caller leaves of the rows it does not own.
LEMMA EarlierRowsKept ==
    ASSUME NEW c, Callers = {c}, TypeOK, RunsInv, SerialInv, Step(c)
    PROVE  \/ UNCHANGED attempts
           \/ /\ SeedAttempt(c)
              /\ Len(attempts') = Len(attempts) + 1
              /\ \A i \in 1..Len(attempts) : attempts'[i] = attempts[i]
           \/ /\ pc[c] \in {"build", "diagnose"}
              /\ no[c] = Len(attempts)
              /\ Len(attempts') = Len(attempts)
              /\ \A i \in 1..Len(attempts) - 1 : attempts'[i] = attempts[i]
<1>1. CASE SeedAttempt(c)
  BY <1>1, SeedOpens
<1>2. ASSUME Build(c) \/ Diagnose(c), NEW s \in AttemptStatus, NEW f \in FailureTypes \cup {"none"},
             attempts' = Updated(no[c], s, f)
      PROVE  /\ pc[c] \in {"build", "diagnose"} /\ no[c] = Len(attempts)
             /\ Len(attempts') = Len(attempts)
             /\ \A i \in 1..Len(attempts) - 1 : attempts'[i] = attempts[i]
  <2>1. pc[c] \in {"build", "diagnose"}
    BY <1>2 DEF Build, Diagnose, At
  <2>2. Len(attempts) > 0 /\ no[c] = Len(attempts)
    BY <2>1 DEF SerialInv, Held, Owns
  <2>3. QED
    BY <1>2, <2>1, <2>2, LastUpdated DEF SerialInv
<1>3. QED
  BY <1>1, <1>2, AttemptWrites

LEMMA ShownStep ==
    ASSUME NEW c, Callers = {c}, TypeOK, RunsInv, SerialInv, ShownInv, Step(c)
    PROVE  ShownInv'
<1>0. /\ Len(attempts) \in Nat /\ task.current \in Nat /\ no[c] \in Nat
      /\ task \in [status : TaskStatus, current : Nat]
  BY RowTypes DEF TypeOK, StoreTypeOK, LocalTypeOK
<1>1. ASSUME NEW d \in Callers,
             pc'[d] \in {"build", "diagnose", "record", "validate", "finish"}
      PROVE  task' = [status |-> "running", current |-> no'[d]]
  <2>1. d = c
    OBVIOUS
  <2>2. CASE MarkRunning(c)
    BY <2>1, <2>2 DEF MarkRunning
  <2>3. CASE pc[c] \in {"build", "diagnose", "record", "validate"} /\ UNCHANGED task
    BY <1>1, <2>1, <2>3, InsideStep DEF ShownInv
  <2>4. QED
    BY <1>1, <2>1, <2>2, <2>3, InsideStep
<1>2. TaskShowsItsAttempt'
  <2>1. CASE MarkRunning(c)
    <3>1. Len(attempts) > 0 /\ no[c] = Len(attempts) /\ UNCHANGED attempts
      BY <2>1 DEF MarkRunning, At, SerialInv, Held, Owns
    <3>2. task' = [status |-> "running", current |-> no[c]]
      BY <2>1 DEF MarkRunning
    <3>3. QED
      BY <1>0, <3>1, <3>2 DEF TaskShowsItsAttempt
  <2>2. CASE FinishAttempt(c)
    <3>1. /\ no[c] = Len(attempts) /\ UNCHANGED attempts
          /\ attempts[Len(attempts)].status = result[c].status
      BY <2>2 DEF FinishAttempt, At, SerialInv, Held, Owns
    <3>2. task' = [status |-> result[c].status, current |-> no[c]]
      BY <2>2 DEF FinishAttempt
    <3>3. QED
      BY <1>0, <3>1, <3>2 DEF TaskShowsItsAttempt
  <2>3. CASE task'.current = 0
    BY <2>3 DEF TaskShowsItsAttempt
  <2>4. CASE UNCHANGED task
    <3>1. CASE UNCHANGED attempts
      BY <2>4, <3>1 DEF ShownInv, TaskShowsItsAttempt
    <3>2. CASE /\ Len(attempts') = Len(attempts) + 1
               /\ \A i \in 1..Len(attempts) : attempts'[i] = attempts[i]
      BY <1>0, <2>4, <3>2 DEF ShownInv, TaskShowsItsAttempt
    <3>3. CASE /\ pc[c] \in {"build", "diagnose"}
               /\ no[c] = Len(attempts)
               /\ Len(attempts') = Len(attempts)
      <4>1. task.status = "running" /\ task.current = Len(attempts)
        BY <3>3 DEF ShownInv
      <4>2. QED
        BY <1>0, <2>4, <3>3, <4>1 DEF TaskShowsItsAttempt
    <3>4. QED
      BY <3>1, <3>2, <3>3, EarlierRowsKept
  <2>5. QED
    BY <2>1, <2>2, <2>3, <2>4, TaskWrites
<1>3. QED
  BY <1>1, <1>2 DEF ShownInv

\* The task row of a caller that has the task to itself never points past the
\* attempts, and once it is not running it has the status of the attempt it
\* points at: after retries, a re-analysis, and deaths between two writes.
THEOREM TaskShown == ASSUME NEW c, Callers = {c} PROVE Spec => []TaskShowsItsAttempt
<1>1. Init => ShownInv
  BY DEF Init, ShownInv, TaskShowsItsAttempt
<1>2. TypeOK /\ OverrunInv /\ SerialInv /\ ShownInv /\ [Next]_vars => ShownInv'
  <2> SUFFICES ASSUME TypeOK, OverrunInv, SerialInv, ShownInv, [Next]_vars PROVE ShownInv'
    OBVIOUS
  <2>1. CASE Next
    <3>1. Step(c)
      BY <2>1 DEF Next, Step
    <3>2. QED
      BY <3>1, ShownStep DEF OverrunInv
  <2>2. CASE UNCHANGED vars
    BY <2>2 DEF vars, store, local, ShownInv, TaskShowsItsAttempt
  <2>3. QED
    BY <2>1, <2>2
<1>3. ShownInv => TaskShowsItsAttempt
  BY DEF ShownInv
<1>4. QED
  BY <1>1, <1>2, <1>3, SerialInvariant, PTL DEF Spec

----------------------------------------------------------------------------
(* Going on after an attempt *)

\* The policy lets the task go on after attempt i, or its program died.
Settled(i) ==
    \/ attempts[i].status = "running"
    \/ ~Stops(i, RecordOf(attempts[i].no, attempts[i].failure))

BeforeSeed ==
    {"check_budget", "load", "fetch", "report", "publish", "number", "lookup", "seed"}

\* What a run found out when it looked still holds when it seeds, and the
\* record it decides on is its own.
SettledInv ==
    /\ \A i \in 1..Len(attempts) - 1 : Settled(i)
    /\ \A c \in Callers :
          /\ pc[c] \in {"validate", "finish", "decide"} => no[c] \in DOMAIN records
          /\ cmd[c] = "run" /\ pc[c] \in BeforeSeed => \A i \in 1..Len(attempts) : Settled(i)

\* The files of an attempt are written by its own caller.
LEMMA FilesKept ==
    ASSUME TypeOK, NEW c \in Callers, Step(c)
    PROVE  \/ UNCHANGED <<records, reports>>
           \/ WriteFailureRecord(c)
           \/ Validate(c)
<1>1. CASE StartAnalyze(c) \/ StartRun(c) \/ Abort(c)
  BY <1>1 DEF StartAnalyze, StartRun, Abort, Started, store
<1>2. CASE Analyze(c)
  BY <1>2 DEF Analyze, FetchSource, FailSource, RecordSourceFailure, WriteConstraintReport,
              PublishAnalysis
<1>3. CASE RunTask(c)
  BY <1>3 DEF RunTask, CheckTerminal, CheckBudget, DecideRetry, store
<1>4. CASE LoadInputs(c) \/ TakeNumber(c) \/ LookupRow(c) \/ SeedAttempt(c) \/ MarkRunning(c)
           \/ FinishAttempt(c)
  BY <1>4 DEF LoadInputs, TakeNumber, LookupRow, SeedAttempt, MarkRunning, FinishAttempt, store
<1>5. CASE Build(c) \/ Diagnose(c)
  BY <1>5 DEF Build, Diagnose
<1>6. QED
  BY <1>1, <1>2, <1>3, <1>4, <1>5 DEF Step, Proceed, RunAttempt

\* What a decision reads of a row stays as long as no file of its number is
\* written.
LEMMA RowReadsStay ==
    ASSUME NEW m, NEW f,
           \/ UNCHANGED <<records, reports>>
           \/ \E n, x : n # m /\ records' = Written(records, n, x) /\ UNCHANGED reports
           \/ \E n, x : n # m /\ reports' = Written(reports, n, x) /\ UNCHANGED records
    PROVE  RecordOf(m, f)' = RecordOf(m, f) /\ ValidationOf(m)' = ValidationOf(m)
<1>1. /\ m \in DOMAIN records' <=> m \in DOMAIN records
      /\ m \in DOMAIN records => records'[m] = records[m]
  BY DEF Written
<1>2. /\ m \in DOMAIN reports' <=> m \in DOMAIN reports
      /\ m \in DOMAIN reports => reports'[m] = reports[m]
  BY DEF Written
<1>3. RecordOf(m, f)' = RecordOf(m, f)
  BY <1>1 DEF RecordOf
<1>4. QED
  BY <1>2, <1>3 DEF ValidationOf

\* A row that stays as it is, and whose files do, stays settled.
LEMMA SettledStays ==
    ASSUME NEW i, Settled(i), attempts'[i] = attempts[i],
           \/ UNCHANGED <<records, reports>>
           \/ \E n, x : n # attempts[i].no /\ records' = Written(records, n, x)
                        /\ UNCHANGED reports
           \/ \E n, x : n # attempts[i].no /\ reports' = Written(reports, n, x)
                        /\ UNCHANGED records
    PROVE  Settled(i)'
<1> DEFINE m == attempts[i].no
           f == attempts[i].failure
<1>1. ASSUME NEW k, NEW g, k = m
      PROVE  RecordOf(k, g)' = RecordOf(k, g) /\ ValidationOf(k)' = ValidationOf(k)
  BY <1>1, RowReadsStay
<1>2. /\ RecordOf(m, f)' = RecordOf(m, f)
      /\ ValidationOf(m)' = ValidationOf(m)
  BY <1>1
<1>3. QED
  BY <1>2 DEF Settled, Stops

\* A run that passes the terminal check may go on after the latest attempt.
LEMMA PassedCheck ==
    ASSUME TypeOK, SerialInv, SettledInv, NEW c \in Callers, CheckTerminal(c),
           pc'[c] = "check_budget"
    PROVE  \A i \in 1..Len(attempts) : Settled(i)
<1>1. Len(attempts) \in Nat
  BY RowTypes DEF TypeOK, StoreTypeOK
<1>2. \/ attempts = <<>>
      \/ \E i \in LatestRows : Settled(i)
  BY DEF CheckTerminal, Ended, GoTo, Settled, TypeOK, LocalTypeOK
<1>3. ASSUME NEW i \in LatestRows, Settled(i) PROVE Settled(Len(attempts))
  BY <1>3, LastRow DEF SerialInv
<1>4. QED
  BY <1>1, <1>2, <1>3 DEF SettledInv

\* So may a run that the policy advised to retry.
LEMMA AdvisedRetry ==
    ASSUME TypeOK, SerialInv, SettledInv, NEW c \in Callers, DecideRetry(c), pc'[c] = "load"
    PROVE  \A i \in 1..Len(attempts) : Settled(i)
<1>1. Len(attempts) \in Nat
  BY RowTypes DEF TypeOK, StoreTypeOK
<1>2. pc[c] = "decide" /\ RetryAdvised(c)
  BY DEF DecideRetry, Ended, GoTo, At, TypeOK, LocalTypeOK
<1>3. /\ no[c] = Len(attempts) /\ Len(attempts) > 0
      /\ no[c] \in DOMAIN records
      /\ attempts[Len(attempts)].no = Len(attempts)
  BY <1>1, <1>2 DEF SerialInv, Held, Owns, SettledInv, NumberedInOrder
<1>4. \A j \in LatestRows : attempts[j].no = no[c] /\ j = Len(attempts)
  BY <1>3, LastRow DEF SerialInv
<1>5. Retries(Len(attempts), RecordOf(no[c], result[c].failure))
  BY <1>2, <1>4 DEF RetryAdvised
<1>6. RecordOf(no[c], result[c].failure) = RecordOf(no[c], attempts[Len(attempts)].failure)
  BY <1>3 DEF RecordOf
<1>7. Settled(Len(attempts))
  BY <1>3, <1>5, <1>6 DEF Settled, Stops, Retries, PolicyStops
<1>8. QED
  BY <1>1, <1>7 DEF SettledInv

\* How a run comes to be on its way to a seed.
LEMMA BeforeSeedStep ==
    ASSUME TypeOK, NEW c \in Callers, Step(c), cmd'[c] = "run", pc'[c] \in BeforeSeed
    PROVE  /\ UNCHANGED <<attempts, records, reports>>
           /\ \/ cmd[c] = "run" /\ pc[c] \in BeforeSeed
              \/ CheckTerminal(c) /\ pc'[c] = "check_budget"
              \/ DecideRetry(c) /\ pc'[c] = "load"
<1> USE DEF TypeOK, LocalTypeOK, GoTo, Ended, At, BeforeSeed
<1>1. CASE StartAnalyze(c) \/ StartRun(c) \/ Abort(c)
  BY <1>1 DEF StartAnalyze, StartRun, Abort, Started
<1>2. CASE Analyze(c)
  BY <1>2 DEF Analyze, FetchSource, FailSource, RecordSourceFailure, WriteConstraintReport,
              PublishAnalysis
<1>3. CASE RunTask(c)
  BY <1>3 DEF RunTask, CheckTerminal, CheckBudget, DecideRetry, store
<1>4. CASE LoadInputs(c) \/ TakeNumber(c) \/ LookupRow(c) \/ SeedAttempt(c) \/ MarkRunning(c)
  BY <1>4 DEF LoadInputs, TakeNumber, LookupRow, SeedAttempt, MarkRunning, store
<1>5. CASE Build(c) \/ Diagnose(c)
  BY <1>5 DEF Build, Diagnose
<1>6. CASE WriteFailureRecord(c) \/ Validate(c) \/ FinishAttempt(c)
  BY <1>6 DEF WriteFailureRecord, Validate, FinishAttempt
<1>7. QED
  BY <1>1, <1>2, <1>3, <1>4, <1>5, <1>6 DEF Step, Proceed, RunAttempt

\* A caller that validates, finishes or decides has written its record.
LEMMA RecordKept ==
    ASSUME TypeOK, NEW c \in Callers, Step(c), pc'[c] \in {"validate", "finish", "decide"}
    PROVE  /\ no'[c] = no[c]
           /\ DOMAIN records \subseteq DOMAIN records'
           /\ pc[c] \in {"validate", "finish", "decide"} \/ no[c] \in DOMAIN records'
<1> USE DEF TypeOK, LocalTypeOK, GoTo, Ended, Locations, At
<1>1. CASE StartAnalyze(c) \/ StartRun(c) \/ Abort(c)
  BY <1>1 DEF StartAnalyze, StartRun, Abort, Started
<1>2. CASE Analyze(c)
  BY <1>2 DEF Analyze, FetchSource, FailSource, RecordSourceFailure, WriteConstraintReport,
              PublishAnalysis
<1>3. CASE RunTask(c)
  BY <1>3 DEF RunTask, CheckTerminal, CheckBudget, DecideRetry
<1>4. CASE LoadInputs(c) \/ TakeNumber(c) \/ LookupRow(c) \/ SeedAttempt(c) \/ MarkRunning(c)
  BY <1>4 DEF LoadInputs, TakeNumber, LookupRow, SeedAttempt, MarkRunning
<1>5. CASE Build(c) \/ Diagnose(c)
  BY <1>5 DEF Build, Diagnose
<1>6. CASE WriteFailureRecord(c)
  BY <1>6 DEF WriteFailureRecord, Written
<1>7. CASE Validate(c) \/ FinishAttempt(c)
  BY <1>7 DEF Validate, FinishAttempt
<1>8. QED
  BY <1>1, <1>2, <1>3, <1>4, <1>5, <1>6, <1>7 DEF Step, Proceed, RunAttempt

\* A step settles no row anew and unsettles none but the caller's own.
LEMMA EarlierStaySettled ==
    ASSUME NEW c, Callers = {c}, TypeOK, RunsInv, SerialInv, SettledInv, Step(c)
    PROVE  \A i \in 1..Len(attempts') - 1 : Settled(i)'
<1>0. Len(attempts) \in Nat /\ NumberedInOrder
  BY RowTypes DEF TypeOK, StoreTypeOK, SerialInv
<1>1. CASE SeedAttempt(c)
  <2>1. /\ Len(attempts') = Len(attempts) + 1
        /\ \A i \in 1..Len(attempts) : attempts'[i] = attempts[i]
    BY <1>1, SeedOpens
  <2>2. UNCHANGED <<records, reports>>
    BY <1>1 DEF SeedAttempt
  <2>3. cmd[c] = "run" /\ pc[c] \in BeforeSeed
    BY <1>1, SeedStep DEF RunsInv, BeforeSeed
  <2>4. \A i \in 1..Len(attempts) : Settled(i)
    BY <2>3 DEF SettledInv
  <2>5. QED
    BY <1>0, <2>1, <2>2, <2>4, SettledStays
<1>2. CASE WriteFailureRecord(c) \/ Validate(c)
  <2>1. UNCHANGED attempts /\ no[c] = Len(attempts)
    BY <1>2 DEF WriteFailureRecord, Validate, At, SerialInv, Held, Owns
  <2>2. \/ \E x : records' = Written(records, no[c], x) /\ UNCHANGED reports
        \/ \E x : reports' = Written(reports, no[c], x) /\ UNCHANGED records
    BY <1>2 DEF WriteFailureRecord, Validate
  <2>3. ASSUME NEW i \in 1..Len(attempts) - 1 PROVE Settled(i)'
    <3>1. attempts[i].no # no[c] /\ Settled(i) /\ attempts'[i] = attempts[i]
      BY <1>0, <2>1 DEF NumberedInOrder, SettledInv
    <3>2. QED
      BY <2>2, <3>1, SettledStays
  <2>4. QED
    BY <2>1, <2>3
<1>3. CASE ~SeedAttempt(c) /\ ~WriteFailureRecord(c) /\ ~Validate(c)
  <2>1. UNCHANGED <<records, reports>>
    BY <1>3, FilesKept
  <2>2. /\ Len(attempts') = Len(attempts)
        /\ \A i \in 1..Len(attempts) - 1 : attempts'[i] = attempts[i]
    BY <1>3, EarlierRowsKept
  <2>3. ASSUME NEW i \in 1..Len(attempts) - 1 PROVE Settled(i)'
    BY <2>1, <2>2, SettledStays DEF SettledInv
  <2>4. QED
    BY <2>2, <2>3
<1>4. QED
  BY <1>1, <1>2, <1>3

LEMMA SettledStep ==
    ASSUME NEW c, Callers = {c}, TypeOK, RunsInv, SerialInv, SettledInv, Step(c)
    PROVE  SettledInv'
<1>1. \A i \in 1..Len(attempts') - 1 : Settled(i)'
  BY EarlierStaySettled
<1>2. ASSUME pc'[c] \in {"validate", "finish", "decide"} PROVE no'[c] \in DOMAIN records'
  BY <1>2, RecordKept DEF SettledInv
<1>3. ASSUME cmd'[c] = "run", pc'[c] \in BeforeSeed
      PROVE  \A i \in 1..Len(attempts') : Settled(i)'
  <2>1. UNCHANGED <<attempts, records, reports>>
    BY <1>3, BeforeSeedStep
  <2>2. \A i \in 1..Len(attempts) : Settled(i)
    BY <1>3, BeforeSeedStep, PassedCheck, AdvisedRetry DEF SettledInv
  <2>3. QED
    BY <2>1, <2>2, SettledStays
<1>4. QED
  BY <1>1, <1>2, <1>3 DEF SettledInv

\* A caller that has the task to itself goes on only where the policy lets it:
\* whatever is re-read after the attempt, also by a later run that found the
\* task as a dead one left it, no attempt follows one on which the policy stops.
THEOREM PolicyFollowed == ASSUME NEW c, Callers = {c} PROVE Spec => []RetriesFollowPolicy
<1>1. Init => SettledInv
  BY DEF Init, SettledInv
<1>2. TypeOK /\ OverrunInv /\ SerialInv /\ SettledInv /\ [Next]_vars => SettledInv'
  <2> SUFFICES ASSUME TypeOK, OverrunInv, SerialInv, SettledInv, [Next]_vars
               PROVE  SettledInv'
    OBVIOUS
  <2>1. CASE Next
    <3>1. Step(c)
      BY <2>1 DEF Next, Step
    <3>2. QED
      BY <3>1, SettledStep DEF OverrunInv
  <2>2. CASE UNCHANGED vars
    BY <2>2, SettledStays DEF vars, store, local, SettledInv
  <2>3. QED
    BY <2>1, <2>2
<1>3. SettledInv => RetriesFollowPolicy
  BY DEF SettledInv, Settled, RetriesFollowPolicy
<1>4. QED
  BY <1>1, <1>2, <1>3, SerialInvariant, PTL DEF Spec

=============================================================================
