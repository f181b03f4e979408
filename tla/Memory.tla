-------------------------------- MODULE Memory --------------------------------
(***************************************************************************)
(* DualMemory: what the attempts of all tasks leave behind in              *)
(* failure_memory.json and recipe_memory.json, and the hints the planner   *)
(* gets out of it.  The memory is a record of the two lists; every         *)
(* operation returns the lists it writes back.                             *)
(*                                                                         *)
(* The text of an entry is abstracted to its cue: the phrase among those   *)
(* _retry_routes_for_failure searches for that it finds first.  Pure       *)
(* operators; the interleaving of two writers is in SharedMemory.          *)
(***************************************************************************)
EXTENDS Planning

EmptyMemory == [failures |-> <<>>, recipes |-> <<>>]

Cues == {"guard", "section", "fentry", "difference", "none"}

----------------------------------------------------------------------------
(* Writing *)

\* The id a reflection goes by.  It names the attempt by its number and not
\* the task, though all tasks share the memory.
ReflectionId(no, type) == <<no, type>>

NoId == <<>>

Failure(id, task, type, recipe, cue) ==
    [id |-> id, task |-> task, type |-> type, recipe |-> recipe, cue |-> cue]

\* record_reflection: a failure entry unless one has this id, and a recipe
\* entry that counts one failure however often it is written.
RecordReflection(mem, task, no, type, recipe, cue) ==
    LET id == ReflectionId(no, type)
        known  == \E i \in DOMAIN mem.failures : mem.failures[i].id = id
        counted == \E i \in DOMAIN mem.recipes :
                      mem.recipes[i].id = id /\ mem.recipes[i].recipe = recipe
    IN [failures |-> IF known THEN mem.failures
                     ELSE Append(mem.failures, Failure(id, task, type, recipe, cue)),
        recipes  |-> IF counted THEN mem.recipes
                     ELSE Append(mem.recipes,
                                 [id |-> id, recipe |-> recipe, rules |-> {type},
                                  prims |-> {}, attempts |-> 1, successes |-> 0,
                                  failures |-> 1])]

\* RecipeMemory.record: one entry per recipe, rules and primitives.
CountRecipe(recipes, plan, success) ==
    LET same == {i \in DOMAIN recipes : /\ recipes[i].recipe = plan.recipe
                                        /\ recipes[i].rules = plan.rules
                                        /\ recipes[i].prims = plan.prims}
        first == {i \in same : \A j \in same : i <= j}
        won == IF success THEN 1 ELSE 0
        More(e) == [e EXCEPT !.attempts = @ + 1, !.successes = @ + won,
                             !.failures = @ + 1 - won]
        new == [id |-> NoId, recipe |-> plan.recipe, rules |-> plan.rules,
                prims |-> plan.prims, attempts |-> 0, successes |-> 0, failures |-> 0]
    IN IF first = {} THEN Append(recipes, More(new))
       ELSE [recipes EXCEPT ![CHOOSE i \in first : TRUE] = More(@)]

\* Mutant: a failure type the memory has already seen is not stored again.
RecordAttemptOncePerType(mem, task, plan, type, cue, success) ==
    [failures |-> IF \/ type = "none"
                     \/ \E i \in DOMAIN mem.failures : mem.failures[i].type = type
                  THEN mem.failures
                  ELSE Append(mem.failures, Failure(NoId, task, type, plan.recipe, cue)),
     recipes  |-> CountRecipe(mem.recipes, plan, success)]

\* record_attempt: an attempt that did not fail leaves no failure entry.
RecordAttempt(mem, task, plan, type, cue, success) ==
    [failures |-> IF type = "none" THEN mem.failures
                  ELSE Append(mem.failures, Failure(NoId, task, type, plan.recipe, cue)),
     recipes  |-> CountRecipe(mem.recipes, plan, success)]

----------------------------------------------------------------------------
(* Reading: build_ranking_hints *)

\* _retry_routes_for_failure.
RetryRoutes(type, cue) ==
    IF type # "kpatch_constraint" THEN <<>>
    ELSE CASE cue = "guard" ->
                <<"semantic_guard_rewrite", "section_change_avoidance_rewrite",
                  "smpl_primary_rewrite">>
           [] cue = "section" ->
                <<"section_change_avoidance_rewrite", "smpl_primary_rewrite",
                  "state_preserving_wrap", "shadow_variable_wrap">>
           [] cue = "fentry" -> <<"callback_livepatch_wrap", "smpl_primary_rewrite">>
           [] cue = "difference" -> <<"shadow_variable_wrap", "state_preserving_wrap">>
           [] OTHER -> <<"smpl_primary_rewrite", "minimal_livepatch_wrap">>

WithoutRepeats(seq) ==
    LET kept[n \in 0..Len(seq)] ==
          IF n = 0 THEN <<>>
          ELSE IF seq[n] \in Range(kept[n - 1]) THEN kept[n - 1]
               ELSE Append(kept[n - 1], seq[n])
    IN kept[Len(seq)]

\* The routes for all failures of a task, in the order of the list.
RoutesAfter(failures, task) ==
    LET routes[n \in 0..Len(failures)] ==
          IF n = 0 THEN <<>>
          ELSE routes[n - 1] \o IF failures[n].task = task
                                THEN RetryRoutes(failures[n].type, failures[n].cue)
                                ELSE <<>>
    IN routes[Len(failures)]

\* The counts of the relevant entry with the most attempts, the last of equals.
RecipeStats(recipes, risks) ==
    [r \in Recipes |->
       LET found == {i \in DOMAIN recipes :
                       /\ recipes[i].recipe = r
                       /\ risks = {} \/ recipes[i].rules \cap risks # {}}
           most  == {i \in found : \A j \in found : recipes[j].attempts <= recipes[i].attempts}
       IN IF found = {} THEN NoHints.stats[r]
          ELSE LET e == recipes[Max(most)]
               IN [attempts |-> e.attempts, successes |-> e.successes,
                   failures |-> e.failures]]

\* Mutant: nothing is avoided.
HintsForgiving(mem, risks, task) ==
    [NoHints EXCEPT !.stats = RecipeStats(mem.recipes, risks)]

Hints(mem, risks, task) ==
    LET own == {i \in DOMAIN mem.failures : mem.failures[i].task = task}
        relevant == {i \in DOMAIN mem.failures : risks = {} \/ mem.failures[i].type \in risks}
                    \cup own
        extra == WithoutRepeats(RoutesAfter(mem.failures, task))
    IN [stats    |-> RecipeStats(mem.recipes, risks),
        pressure |-> [i \in relevant |-> mem.failures[i].type],
        avoid    |-> {mem.failures[i].recipe : i \in own},
        boost    |-> Range(extra),
        extra    |-> extra]

----------------------------------------------------------------------------
(* merge_agent_policy_hints: the latest decision on the task               *)

NoDecision == [terminal |-> FALSE, needs |-> {}]

\* DecisionPolicy.decide, strategy_requirements, for a failure it retries.
Requirements(type, ineffective) ==
    IF type \in {"dependency_gap", "patch_apply_failed"} THEN {}
    ELSE IF ineffective THEN {"another recipe", "another shape"}
    ELSE {"another recipe", "section", "guard", "smpl"}

RequiredRoutes(needs) ==
    (IF "section" \in needs THEN <<"section_change_avoidance_rewrite">> ELSE <<>>)
    \o (IF "guard" \in needs THEN <<"semantic_guard_rewrite">> ELSE <<>>)
    \o (IF "smpl" \in needs THEN <<"smpl_primary_rewrite">> ELSE <<>>)

\* The list of strategies the decision disables is always empty: it looks for
\* keys the effectiveness report does not have.
MergeDecision(hints, decision, previous) ==
    IF decision.terminal THEN hints
    ELSE [hints EXCEPT
            !.avoid = @ \cup IF "another recipe" \in decision.needs THEN previous ELSE {},
            !.boost = @ \cup Range(RequiredRoutes(decision.needs)),
            !.extra = WithoutRepeats(@ \o RequiredRoutes(decision.needs))]

=============================================================================
