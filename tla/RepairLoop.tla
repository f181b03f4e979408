------------------------------ MODULE RepairLoop ------------------------------
(***************************************************************************)
(* What the attempts of one task learn from each other: the plan of each   *)
(* under the memory and the agent's last decision, the patch it rewrites,  *)
(* the failure its build is filed under, the reflection and the attempt    *)
(* that go into the memory, and the decision on the next one.              *)
(*                                                                         *)
(* TaskRunner models the same command write by write and leaves the        *)
(* content open; here an attempt takes seven steps, a death of the process *)
(* falls between two of them, and the content is what it is about: a death *)
(* may leave a row without a plan, or a plan without the patch.  The build *)
(* is a choice among BuildAnswers, the failures BuildFlow and the          *)
(* classifier can end in.  The memory starts with what other tasks left.   *)
(***************************************************************************)
EXTENDS DecisionPolicy, Memory

CONSTANTS
    MaxAttempts,   \* tasks.max_attempts
    Patches,       \* the patches a task may be about, as the analysis sees them
    BuildAnswers,  \* outcomes of a build, after classification
    Memories,      \* what the memory may hold when the task starts
    MaxCrashes     \* bound on the deaths of the process

ASSUME LoopBudget == MaxAttempts \in Nat \ {0}
ASSUME LoopCrashes == MaxCrashes \in Nat

\* The JSON documents hold lists, and the recipes count attempts.
ASSUME MemoriesAreLists ==
    \A m \in Memories :
        /\ m.failures \in Seq(Range(m.failures))
        /\ m.recipes \in Seq(Range(m.recipes))
        /\ \A e \in Range(m.recipes) :
              /\ DOMAIN e = {"id", "recipe", "rules", "prims",
                             "attempts", "successes", "failures"}
              /\ {e.attempts, e.successes, e.failures} \subseteq Nat

\* No classifier knows the type that _maybe_mark_unresolved_kpatch_constraint
\* gives.
ASSUME AnswersAreClassified ==
    BuildAnswers \subseteq
        [status : AttemptStatus \ {"running"},
         type   : (FailureTypes \ {"kpatch_constraint_unresolved"}) \cup {"none"},
         sign   : STRING]

Shapes == {"full", "shrunk", "guarded"}

\* risks and viable: the constraint report.  guardIntent: the repair intent
\* recommends a guard.  drops: what removing section-sensitive hunks takes out
\* of the patch.  guards: some hunk can be kept as a guard.  class: of the
\* rewritten patch, by shape.
PatchFacts ==
    [risks : SUBSET DOMAIN RiskRules, viable : BOOLEAN, guardIntent : BOOLEAN,
     drops : {"nothing", "little", "much"}, guards : BOOLEAN,
     class : [Shapes -> {"guard", "state", "neither"}]]

ASSUME PatchesKnown == Patches \subseteq PatchFacts

VARIABLES
    patch,      \* the patch of the task
    memory,     \* the shared memory
    used,       \* attempts rows; the number of the latest attempt
    rows,       \* their statuses
    plans,      \* rewrite_plan.json, by number
    texts,      \* rewritten.patch and what it was compared to find, by number
    records,    \* failure_record.json, by number
    decision,   \* the last decision in agent_workflow_trace.json
    at,         \* where the command stands
    crashes     \* deaths of the process so far

loopVars == <<patch, memory, used, rows, plans, texts, records, decision, at, crashes>>

Task == "this"

NoSign == "none"

Answer(status, type, sign) == [status |-> status, type |-> type, sign |-> sign]

Decided(n) == n \in DOMAIN records

LoopTypeOK ==
    /\ patch \in Patches
    /\ used \in 0..MaxAttempts
    /\ rows \in [1..used -> AttemptStatus]
    /\ DOMAIN plans \subseteq 1..used
    /\ \A n \in DOMAIN plans : plans[n].recipe \in Recipes
    /\ DOMAIN texts \subseteq DOMAIN plans
    /\ \A n \in DOMAIN texts : texts[n].shape \in Shapes
    /\ DOMAIN records \subseteq DOMAIN texts
    /\ \A n \in DOMAIN records : records[n].type \in FailureTypes \cup {"none"}
    /\ at \in {"idle", "seed", "plan", "rewrite", "build", "reflect", "remember", "decide"}
    /\ crashes \in 0..MaxCrashes

LoopInit ==
    /\ patch \in Patches
    /\ memory \in Memories
    /\ used = 0
    /\ rows = <<>>
    /\ plans = <<>>
    /\ texts = <<>>
    /\ records = <<>>
    /\ decision = NoDecision
    /\ at = "idle"
    /\ crashes = 0

Filed(file, n, content) ==
    [m \in DOMAIN file \cup {n} |-> IF m = n THEN content ELSE file[m]]

----------------------------------------------------------------------------
(* The run command up to its first attempt *)

\* _terminal_status_payload looks at the latest attempt unless it was cut
\* short, and records the stop it finds.
Stopped ==
    /\ used > 0
    /\ rows[used] # "running"
    /\ PolicyStops(rows[used], records[used].type, records[used].ineffective)

StopAgain ==
    /\ at = "idle"
    /\ Stopped
    /\ decision' = [terminal |-> TRUE, needs |-> {}]
    /\ UNCHANGED <<patch, memory, used, rows, plans, texts, records, at, crashes>>

\* Mutant: the budget is not looked at.
StartCommandUnbudgeted ==
    /\ at = "idle"
    /\ ~Stopped
    /\ at' = "seed"
    /\ UNCHANGED <<patch, memory, used, rows, plans, texts, records, decision, crashes>>

StartCommand ==
    /\ at = "idle"
    /\ ~Stopped
    /\ used < MaxAttempts
    /\ at' = "seed"
    /\ UNCHANGED <<patch, memory, used, rows, plans, texts, records, decision, crashes>>

----------------------------------------------------------------------------
(* One attempt *)

\* RewriteExecutor.execute: two recipes change the text of the patch, and only
\* where there is something to change.
Rewritten(recipe) ==
    CASE recipe = "section_change_avoidance_rewrite" /\ patch.drops # "nothing" -> "shrunk"
      [] recipe = "semantic_guard_rewrite" /\ patch.guards -> "guarded"
      [] OTHER -> "full"

\* build_route_effectiveness_report: the same changed lines as the attempt
\* before, or nearly.  An attempt that left no text counts as none: what follows
\* it is reported as a first attempt.  (A text that a death cut off differs.)
Alike(a, b) == a = b \/ (patch.drops = "little" /\ {a, b} = {"full", "shrunk"})

Ineffective(n, shape) == n - 1 \in DOMAIN texts /\ Alike(shape, texts[n - 1].shape)

PreviousRecipe(n) == IF n - 1 \in DOMAIN plans THEN {plans[n - 1].recipe} ELSE {}

\* The hints of the memory, then those of the last decision.
PlanningHints(n) ==
    MergeDecision(Hints(memory, patch.risks, Task), decision, PreviousRecipe(n))

\* The row comes first, so that a failure is one of this attempt.
SeedAttempt ==
    /\ at = "seed"
    /\ used' = used + 1
    /\ rows' = Append(rows, "running")
    /\ at' = "plan"
    /\ UNCHANGED <<patch, memory, plans, texts, records, decision, crashes>>

FilePlan(p) ==
    plans' = Filed(plans, used, [recipe |-> p.recipe, prims |-> p.prims, rules |-> p.rules])

PlanAttempt ==
    /\ at = "plan"
    /\ FilePlan(Plan(patch.risks, patch.viable, patch.guardIntent, PlanningHints(used)))
    /\ at' = "rewrite"
    /\ UNCHANGED <<patch, memory, used, rows, texts, records, decision, crashes>>

FileText(shape) ==
    texts' = Filed(texts, used, [shape |-> shape, ineffective |-> Ineffective(used, shape)])

RewriteAttempt ==
    /\ at = "rewrite"
    /\ FileText(Rewritten(plans[used].recipe))
    /\ at' = "build"
    /\ UNCHANGED <<patch, memory, used, rows, plans, records, decision, crashes>>

\* _section_constraint_signature.
Signature(record) ==
    IF record.type \in {"kpatch_constraint", "kpatch_constraint_unresolved"}
    THEN record.sign ELSE NoSign

\* Mutant: an attempt that changed nothing counts like any other.
UnresolvedWhateverItChanged(n, type, sign) ==
    LET earlier == {Signature(records[m]) : m \in DOMAIN records} \ {NoSign}
    IN /\ type = "kpatch_constraint"
       /\ n >= MaxAttempts
       /\ earlier = {sign}
       /\ Cardinality({plans[m].recipe : m \in DOMAIN plans}) > 1

\* _maybe_mark_unresolved_kpatch_constraint: the last attempt met the same
\* constraint as every earlier one that met any, and two recipes were tried.
Unresolved(n, type, sign) ==
    LET earlier == {Signature(records[m]) : m \in DOMAIN records} \ {NoSign}
    IN /\ type = "kpatch_constraint"
       /\ n >= MaxAttempts
       /\ ~texts[n].ineffective
       /\ earlier = {sign}
       /\ Cardinality({plans[m].recipe : m \in DOMAIN plans}) > 1

\* Build, classify, save the row and write failure_record.json.
BuildAttempt ==
    /\ at = "build"
    /\ \E a \in BuildAnswers :
         LET type == IF Unresolved(used, a.type, a.sign)
                     THEN "kpatch_constraint_unresolved" ELSE a.type
         IN /\ rows' = [rows EXCEPT ![used] = a.status]
            /\ records' = Filed(records, used,
                            [type |-> type, sign |-> a.sign,
                             ineffective |-> texts[used].ineffective])
            /\ at' = IF type = "none" THEN "remember" ELSE "reflect"
    /\ UNCHANGED <<patch, memory, used, plans, texts, decision, crashes>>

\* What _retry_routes_for_failure will find in the text of the entry.
Cue(n) ==
    IF records[n].type # "kpatch_constraint" THEN "none"
    ELSE IF patch.class[texts[n].shape] = "guard" THEN "guard"
    ELSE CASE records[n].sign \in {"section a", "section b"} -> "section"
           [] records[n].sign = "fentry" -> "fentry"
           [] records[n].sign = "difference" -> "difference"
           [] OTHER -> "none"

\* generate_reflection, save_reflection.
Reflect ==
    /\ at = "reflect"
    /\ memory' = RecordReflection(memory, Task, used, records[used].type,
                                  plans[used].recipe, Cue(used))
    /\ at' = "remember"
    /\ UNCHANGED <<patch, used, rows, plans, texts, records, decision, crashes>>

\* After the validation: a built module counts as a success unless the
\* semantic guard objected to it.
Remember ==
    /\ at = "remember"
    /\ \E guardFailed \in (IF rows[used] = "built" THEN BOOLEAN ELSE {FALSE}) :
         memory' = RecordAttempt(memory, Task, plans[used], records[used].type, Cue(used),
                                 rows[used] = "built" /\ ~guardFailed)
    /\ at' = "decide"
    /\ UNCHANGED <<patch, used, rows, plans, texts, records, decision, crashes>>

\* _retry_decision: a finished task is not even decided on; a retry the budget
\* has no room for is turned into a stop.
DecideNext ==
    /\ at = "decide"
    /\ LET r == records[used]
           retry == PolicyRetries(rows[used], r.type, r.ineffective)
           needs == IF retry THEN Requirements(r.type, r.ineffective) ELSE {}
       IN /\ decision' =
               IF PolicyReports(rows[used]) THEN decision
               ELSE [terminal |-> \/ PolicyStops(rows[used], r.type, r.ineffective)
                                  \/ retry /\ used >= MaxAttempts,
                     needs |-> needs]
          /\ at' = IF retry /\ used < MaxAttempts THEN "seed" ELSE "idle"
    /\ UNCHANGED <<patch, memory, used, rows, plans, texts, records, crashes>>

\* The process dies; the next command starts from what is on disk.
Crash ==
    /\ at # "idle"
    /\ crashes < MaxCrashes
    /\ crashes' = crashes + 1
    /\ at' = "idle"
    /\ UNCHANGED <<patch, memory, used, rows, plans, texts, records, decision>>

LoopNext ==
    \/ StopAgain \/ StartCommand
    \/ SeedAttempt \/ PlanAttempt \/ RewriteAttempt \/ BuildAttempt \/ Reflect \/ Remember \/ DecideNext
    \/ Crash

LoopSpec == LoopInit /\ [][LoopNext]_loopVars

----------------------------------------------------------------------------
(* Properties *)

\* A constraint is given up as unresolved when the budget is spent, another
\* attempt met the same one, two recipes were planned, and not only their names
\* differ: so do two of the patches, except when the attempt before
\* the last died before its patch was written.  Then the last one is taken for a
\* first attempt, and patches that are all alike do for giving up
\* (_maybe_mark_unresolved_kpatch_constraint, build_route_effectiveness_report).
UnresolvedIsEarned ==
    \A n \in DOMAIN records :
        records[n].type = "kpatch_constraint_unresolved" =>
            /\ n = MaxAttempts
            /\ \E m \in DOMAIN records \ {n} : Signature(records[m]) = records[n].sign
            /\ \E m \in DOMAIN plans : plans[m].recipe # plans[n].recipe
            /\ \/ n - 1 \notin DOMAIN texts
               \/ \E m \in DOMAIN texts : ~Alike(texts[m].shape, texts[n].shape)

\* An attempt does not repeat the recipe of the attempt before it once the
\* memory holds a failure of that one, however the failures, the boosts they
\* earn other routes and the deaths of the process fell.  (Older recipes may
\* return: some reports have two candidates only.)  What other tasks left can
\* outweigh this: a recipe that always worked for them, among candidates that
\* always failed them, is taken again at once.  The starting memories of the
\* runs hold too little for that.
RetryTakesAnotherRoute ==
    [][\A n \in DOMAIN plans' \ DOMAIN plans :
          (/\ n - 1 \in DOMAIN plans
           /\ \E i \in DOMAIN memory.failures :
                 /\ memory.failures[i].task = Task
                 /\ memory.failures[i].recipe = plans[n - 1].recipe)
             => plans'[n].recipe # plans[n - 1].recipe
      ]_loopVars

\* A failed attempt that comes to its decision is in the memory under its own
\* task and recipe, whatever ids the reflections of other tasks have taken
\* (DualMemory.record_reflection, FailureMemory.record).
FailuresRemembered ==
    (at = "decide" /\ records[used].type # "none") =>
        \E i \in DOMAIN memory.failures :
            /\ memory.failures[i].task = Task
            /\ memory.failures[i].type = records[used].type
            /\ memory.failures[i].recipe = plans[used].recipe

=============================================================================
