------------------------------ MODULE Validation ------------------------------
(***************************************************************************)
(* Validator.run, for attempts that are validated at the same time on one  *)
(* machine: the static precheck, the tests that put the module into the    *)
(* running kernel and take it out again, the smoke test, the semantic      *)
(* guard, the comparison with earlier attempts, and the status all that    *)
(* is folded into.                                                         *)
(*                                                                         *)
(* What outlives a validation is the kernel: a module whose removal failed *)
(* or never came stays loaded.  insmod, the livepatch switch, rmmod and    *)
(* the smoke script are external and may fail whenever they are called.    *)
(* Module names carry task and attempt, so loads never collide.            *)
(***************************************************************************)
EXTENDS DecisionPolicy, FiniteSets

CONSTANTS
    Subjects,    \* the attempts being validated
    Setups,      \* the configurations considered
    Cases        \* what the attempts may be, as functions on Subjects

Tests == {"load", "unload", "smoke", "guard", "regression"}

\* verify.yaml, or nothing; script: the smoke test script exists.
SetupSpace ==
    [present : BOOLEAN, profile : {"dev", "standard", "strict"}, on : SUBSET Tests,
     script : BOOLEAN]

\* The attempt, its module file, its patch, its risk and the attempts before.
CaseSpace ==
    [status : AttemptStatus \ {"running"}, module : BOOLEAN, precheck : BOOLEAN,
     changes : BOOLEAN, high : BOOLEAN, history : {"none", "other", "same failure"}]

ASSUME SetupsKnown == Setups \subseteq SetupSpace
ASSUME CasesKnown ==
    /\ Cases \subseteq [Subjects -> CaseSpace]
    /\ \A c \in Cases : \A a \in Subjects :
          c[a].status = "built" => c[a].history # "same failure"

VARIABLES
    setup,
    case,
    kernel,    \* the subjects whose module is loaded
    items,     \* the results so far, by subject
    verdict,   \* ValidationReport.status, once written
    stage      \* where each validation stands

validationVars == <<setup, case, kernel, items, verdict, stage>>

Results == {"pending", "skipped", "passed", "failed"}

Parts == Tests \cup {"selftest"}

Stages == {"idle", "load", "unload", "smoke", "conclude", "done", "dead"}

\* _resolve_verify_switches.
On(a, test) ==
    \/ setup.present /\ setup.profile = "strict"
    \/ setup.present /\ test \in setup.on
    \/ ~setup.present /\ test = "guard"
    \/ test = "guard" /\ case[a].high /\ (setup.present => setup.profile = "standard")

\* Only a built module is tested, and only under a verify configuration.
Dynamic(a) == setup.present /\ case[a].status = "built"

Nothing == [p \in Parts |-> "pending"]

ValidationInit ==
    /\ setup \in Setups
    /\ case \in Cases
    /\ kernel = {}
    /\ items = [a \in Subjects |-> Nothing]
    /\ verdict = [a \in Subjects |-> "pending"]
    /\ stage = [a \in Subjects |-> "idle"]

Go(a, s) == stage' = [stage EXCEPT ![a] = s]

Result(a, part, r) == items' = [items EXCEPT ![a][part] = r]

\* Without a module, or on a target that has the fix already, nothing is run.
SkipTests(a) ==
    /\ stage[a] = "idle"
    /\ ~Dynamic(a)
    /\ items' = [items EXCEPT ![a] =
                   IF setup.present /\ case[a].status = "target_state"
                   THEN [p \in Parts |-> IF p = "guard" THEN "pending" ELSE "skipped"]
                   ELSE Nothing]
    /\ Go(a, "conclude")
    /\ UNCHANGED <<setup, case, kernel, verdict>>

Selftest(a) ==
    /\ stage[a] = "idle"
    /\ Dynamic(a)
    /\ Result(a, "selftest", IF case[a].module THEN "passed" ELSE "failed")
    /\ Go(a, "load")
    /\ UNCHANGED <<setup, case, kernel, verdict>>

Load(a) ==
    /\ stage[a] = "load"
    /\ \/ /\ On(a, "load") /\ case[a].module
          /\ \/ Result(a, "load", "passed") /\ kernel' = kernel \cup {a}
             \/ Result(a, "load", "failed") /\ UNCHANGED kernel
       \/ /\ On(a, "load") /\ ~case[a].module
          /\ UNCHANGED <<items, kernel>>
       \/ /\ ~On(a, "load")
          /\ Result(a, "load", "skipped") /\ UNCHANGED kernel
    /\ Go(a, "unload")
    /\ UNCHANGED <<setup, case, verdict>>

Loaded(a) == items[a]["load"] = "passed"

\* Switch the livepatch off, wait for the transition, rmmod: each may fail and
\* leave the module where it is.
Unload(a) ==
    /\ stage[a] = "unload"
    /\ \/ /\ On(a, "unload") /\ Loaded(a)
          /\ \/ Result(a, "unload", "passed") /\ kernel' = kernel \ {a}
             \/ Result(a, "unload", "failed") /\ UNCHANGED kernel
       \/ /\ On(a, "unload") /\ ~Loaded(a)
          /\ UNCHANGED <<items, kernel>>
       \/ /\ ~On(a, "unload")
          /\ Result(a, "unload", "skipped") /\ UNCHANGED kernel
    /\ Go(a, "smoke")
    /\ UNCHANGED <<setup, case, verdict>>

\* The smoke test comes after the unload: unless that is switched off, the
\* module is out of the kernel by then.
Smoke(a) ==
    /\ stage[a] = "smoke"
    /\ \/ /\ On(a, "smoke") /\ Loaded(a) /\ setup.script
          /\ \E r \in {"passed", "failed"} : Result(a, "smoke", r)
       \/ /\ On(a, "smoke") /\ ~(Loaded(a) /\ setup.script)
          /\ UNCHANGED items
       \/ /\ ~On(a, "smoke")
          /\ Result(a, "smoke", "skipped")
    /\ Go(a, "conclude")
    /\ UNCHANGED <<setup, case, kernel, verdict>>

----------------------------------------------------------------------------
(* The conclusion *)

\* Mutant: the static precheck is left to the report.
GuardUnchecked(a) ==
    IF ~On(a, "guard") THEN "skipped"
    ELSE IF case[a].status # "built" THEN "pending"
    ELSE IF \/ ~case[a].module \/ ~case[a].changes
            \/ "failed" \in {items[a]["load"], items[a]["smoke"]}
         THEN "failed" ELSE "passed"

\* SemanticGuard.run.  It is handed the regression result before the
\* regression has run, so that never counts.
Guard(a) ==
    CASE ~On(a, "guard")           -> "skipped"
      [] On(a, "guard") /\ ~case[a].precheck -> "failed"
      [] On(a, "guard") /\ case[a].precheck /\ case[a].status # "built" -> "pending"
      [] OTHER ->
           IF \/ ~case[a].module \/ ~case[a].changes
              \/ "failed" \in {items[a]["load"], items[a]["smoke"]}
           THEN "failed" ELSE "passed"

\* RegressionTester.run.
Regression(a, guard) ==
    IF ~On(a, "regression") \/ case[a].history = "none" THEN "skipped"
    ELSE IF case[a].status = "built" /\ guard = "passed" THEN "passed"
    ELSE IF case[a].history = "same failure" THEN "failed"
    ELSE "skipped"

Optional == {"unload", "smoke", "regression", "guard"}

\* Mutant: a failed unload is not the patch's fault.
OverallStatusForgiving(i) ==
    IF \E p \in Parts \ {"unload"} : i[p] = "failed" THEN "failed"
    ELSE IF \/ /\ i["load"] = "passed" /\ i["selftest"] = "passed"
               /\ \A p \in Optional \ {"unload"} : i[p] \in {"passed", "skipped"}
            \/ i["guard"] = "passed" /\ i["load"] = "passed"
    THEN "passed"
    ELSE IF \E p \in Parts : i[p] = "passed" THEN "partial"
    ELSE "pending"

\* Mutant: one test that could not run leaves the whole open.
OverallStatusOpen(i) ==
    IF \E p \in Parts : i[p] = "failed" THEN "failed"
    ELSE IF \E p \in Parts : i[p] = "pending" THEN "pending"
    ELSE IF i["load"] = "passed" THEN "passed"
    ELSE "partial"

\* Mutant: where nothing ran, the status is that of the single tests.
OverallStatusSkipped(i) ==
    IF \E p \in Parts : i[p] = "failed" THEN "failed"
    ELSE IF i["load"] = "passed" THEN "passed"
    ELSE IF \E p \in Parts : i[p] = "passed" THEN "partial"
    ELSE "skipped"

\* _overall_status; the static precheck is no part of it.
OverallStatus(i) ==
    IF \E p \in Parts : i[p] = "failed" THEN "failed"
    ELSE IF \/ /\ i["load"] = "passed" /\ i["selftest"] = "passed"
               /\ \A p \in Optional : i[p] \in {"passed", "skipped"}
            \/ i["guard"] = "passed" /\ i["load"] = "passed"
    THEN "passed"
    ELSE IF \E p \in Parts : i[p] = "passed" THEN "partial"
    ELSE "pending"

Conclude(a) ==
    /\ stage[a] = "conclude"
    /\ LET i == [items[a] EXCEPT !["guard"] = Guard(a),
                                 !["regression"] = Regression(a, Guard(a))]
       IN /\ items' = [items EXCEPT ![a] = i]
          /\ verdict' = [verdict EXCEPT ![a] = OverallStatus(i)]
    /\ Go(a, "done")
    /\ UNCHANGED <<setup, case, kernel>>

\* The process dies with the validation; nobody takes its module out.
Die(a) ==
    /\ stage[a] \notin {"done", "dead"}
    /\ Go(a, "dead")
    /\ UNCHANGED <<setup, case, kernel, items, verdict>>

ValidationNext ==
    \E a \in Subjects :
        \/ SkipTests(a) \/ Selftest(a) \/ Load(a) \/ Unload(a) \/ Smoke(a)
        \/ Conclude(a) \/ Die(a)

ValidationSpec == ValidationInit /\ [][ValidationNext]_validationVars

----------------------------------------------------------------------------
(* Properties *)

ValidationTypeOK ==
    /\ setup \in Setups
    /\ case \in Cases
    /\ kernel \subseteq Subjects
    /\ items \in [Subjects -> [Parts -> Results]]
    /\ verdict \in [Subjects -> ValidationStatus]
    /\ stage \in [Subjects -> Stages]

\* A validation that came to its end and left its module in the kernel says so:
\* it failed, or the unload test is switched off (LoadTester.unload,
\* _overall_status).
LeftoversShow ==
    \A a \in kernel : stage[a] = "done" => verdict[a] = "failed" \/ ~On(a, "unload")

\* The validator only gives the outcomes the pipeline's model of it promises.
OutcomesAsPromised ==
    \A a \in Subjects :
        stage[a] = "done" => verdict[a] \in ValidationOutcomes(case[a].status)

\* "passed" stands for a module that exists, was loaded and removed again, a
\* smoke test that ran if it could, and, with the guard on, a patch that passed
\* its precheck, whichever of the two ways to "passed" was taken.
PassedMeansTested ==
    \A a \in Subjects :
        (stage[a] = "done" /\ verdict[a] = "passed") =>
            /\ case[a].status = "built" /\ case[a].module
            /\ items[a]["load"] = "passed"
            /\ On(a, "unload") => items[a]["unload"] = "passed" /\ a \notin kernel
            /\ (On(a, "smoke") /\ setup.script) => items[a]["smoke"] = "passed"
            /\ On(a, "guard") => case[a].precheck /\ case[a].changes

=============================================================================
