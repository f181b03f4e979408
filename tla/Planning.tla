------------------------------- MODULE Planning -------------------------------
(***************************************************************************)
(* Which recipe the next attempt takes: the constraint report of the       *)
(* analysis, the candidate routes JointPlanner derives from it, and the    *)
(* order CandidateRanker puts them in under the hints of the memory.       *)
(*                                                                         *)
(* A patch is abstracted to the risk rules it matches.  Estimates are      *)
(* integers: thousandths before the planner rounds them, hundredths after, *)
(* and scores count ten-thousandths, the digits the ranker keeps.  Pure    *)
(* operators: RepairLoop EXTENDS this module.                              *)
(***************************************************************************)
EXTENDS Integers, SequencesExt, FiniteSetsExt

----------------------------------------------------------------------------
(* The constraint report *)

Rule(high, needs) == [high |-> high, needs |-> needs]

\* rules/risk_rules, and the item that stands in when no rule matches a patch
\* that is no plain diff either.
RiskRules ==
    [global_data_change         |-> Rule(FALSE, {"wrapper", "shadow_variable"}),
     header_abi_change          |-> Rule(TRUE,  {"wrapper", "shadow_variable"}),
     init_code_change           |-> Rule(TRUE,  {"wrapper"}),
     inline_side_effect         |-> Rule(FALSE, {"wrapper"}),
     no_fentry_target           |-> Rule(TRUE,  {"wrapper", "callback"}),
     static_local_change        |-> Rule(TRUE,  {"wrapper", "shadow_variable"}),
     struct_layout_change       |-> Rule(TRUE,  {"wrapper", "shadow_variable"}),
     unsupported_section_change |-> Rule(TRUE,  {"wrapper"}),
     unknown_patchability       |-> Rule(FALSE, {"wrapper"})]

\* RiskRuleRegistry.evaluate: viable is direct_apply_ready.
Items(matched, viable) ==
    IF matched = {} /\ ~viable THEN {"unknown_patchability"} ELSE matched

Needs(risks) == UNION {RiskRules[t].needs : t \in risks}

HighRisks(risks) == Cardinality({t \in risks : RiskRules[t].high})

\* _candidate_routes; the first one is the preferred route.
CandidateRoutes(risks, viable) ==
    LET callback == "callback" \in Needs(risks)
        shadow   == "shadow_variable" \in Needs(risks)
        special  == (IF callback /\ shadow THEN <<"callback_shadow_wrap">>
                     ELSE IF callback THEN <<"callback_livepatch_wrap">> ELSE <<>>)
                 \o (IF risks \cap {"struct_layout_change", "header_abi_change"} # {}
                     THEN <<"state_preserving_wrap">> ELSE <<>>)
                 \o (IF shadow THEN <<"shadow_variable_wrap">> ELSE <<>>)
    IN IF risks = {} THEN <<"direct_apply_patch">>
       ELSE special \o <<"minimal_livepatch_wrap">>
                    \o (IF viable THEN <<"direct_apply_patch">> ELSE <<>>)

PreferredRoute(risks, viable) == CandidateRoutes(risks, viable)[1]

----------------------------------------------------------------------------
(* The routes the planner can execute *)

Route(needs, scaffold) == [needs |-> needs, scaffold |-> scaffold]

\* _resolve_route_spec, by recipe name.
Routes ==
    [semantic_guard_rewrite   |-> Route({"semantic_guard"}, FALSE),
     direct_apply_patch       |-> Route({"direct_apply"}, FALSE),
     callback_shadow_wrap     |-> Route({"wrapper", "callback", "shadow_variable"}, TRUE),
     callback_livepatch_wrap  |-> Route({"wrapper", "callback"}, TRUE),
     shadow_variable_wrap     |-> Route({"wrapper", "shadow_variable"}, TRUE),
     state_preserving_wrap    |->
        Route({"wrapper", "shadow_variable", "state_preserving"}, TRUE),
     smpl_primary_rewrite     |-> Route({"smpl", "wrapper"}, FALSE),
     section_change_avoidance_rewrite |->
        Route({"smpl", "section_change_avoidance"}, FALSE),
     minimal_livepatch_wrap   |-> Route({"wrapper"}, FALSE)]

Recipes == DOMAIN Routes

RouteInput(recipe, preferred, blocking, prims) ==
    [recipe |-> recipe, preferred |-> preferred, blocking |-> blocking,
     prims |-> prims \cup Routes[recipe].needs]

\* The hints of the constraint report.  The preferred one carries all the
\* primitives the risks ask for, so its candidate may differ from the plain
\* candidate of the same route.
HintedInputs(risks, viable) ==
    IF risks = {}
    THEN <<RouteInput("direct_apply_patch", TRUE, {}, {})>>
    ELSE <<RouteInput(PreferredRoute(risks, viable), TRUE, risks, Needs(risks))>>
         \o (IF viable THEN <<RouteInput("direct_apply_patch", FALSE, risks, {})>>
             ELSE <<>>)

\* _derive_candidate_route_names.
DerivedRoutes(risks, viable, guardIntent) ==
    CandidateRoutes(risks, viable)
    \o (IF guardIntent THEN <<"semantic_guard_rewrite">> ELSE <<>>)
    \o <<"direct_apply_patch">>
    \o (IF viable THEN <<>> ELSE <<"minimal_livepatch_wrap">>)
    \o (IF "callback" \in Needs(risks) THEN <<"callback_livepatch_wrap">> ELSE <<>>)
    \o (IF "shadow_variable" \in Needs(risks) THEN <<"shadow_variable_wrap">> ELSE <<>>)
    \o (IF risks # {} THEN <<"smpl_primary_rewrite">> ELSE <<>>)
    \o (IF "unsupported_section_change" \in risks
        THEN <<"section_change_avoidance_rewrite">> ELSE <<>>)
    \o <<"minimal_livepatch_wrap">>

DerivedInputs(risks, viable, guardIntent) ==
    LET names == DerivedRoutes(risks, viable, guardIntent)
    IN [i \in DOMAIN names |->
          RouteInput(names[i],
                     \/ names[i] = PreferredRoute(risks, viable)
                     \/ guardIntent /\ names[i] = "semantic_guard_rewrite",
                     risks, {})]

\* Routes that the memory and the agent's decision add.
ExtraInputs(risks, extra) ==
    [i \in DOMAIN extra |->
       RouteInput(extra[i], FALSE,
                  IF risks = {} THEN {"kpatch_constraint"} ELSE risks, {})]

\* Of several inputs with one recipe and one set of primitives the first, each
\* at its place.
Distinct(inputs) ==
    [i \in {i \in DOMAIN inputs :
              \A j \in 1..(i - 1) : \/ inputs[j].recipe # inputs[i].recipe
                                   \/ inputs[j].prims # inputs[i].prims} |-> inputs[i]]

Candidates(risks, viable, guardIntent, extra) ==
    Distinct(HintedInputs(risks, viable)
             \o DerivedInputs(risks, viable, guardIntent)
             \o ExtraInputs(risks, extra))

----------------------------------------------------------------------------
(* _estimate_candidate_metrics *)

\* Risk, its growth with the number of risks, drift, its growth with the
\* number of blocking risks, build cost.
Wrapping ==
    [minimal_livepatch_wrap           |-> <<160, 70, 120, 30, 200>>,
     callback_livepatch_wrap          |-> <<180, 70, 140, 30, 240>>,
     callback_shadow_wrap             |-> <<200, 80, 160, 40, 300>>,
     shadow_variable_wrap             |-> <<220, 80, 160, 30, 280>>,
     state_preserving_wrap            |-> <<170, 60, 120, 25, 240>>,
     section_change_avoidance_rewrite |-> <<140, 40, 180, 40, 260>>,
     smpl_primary_rewrite             |-> <<200, 70, 100, 20, 220>>]

BaseEstimate(x, high) ==
    LET b == Cardinality(x.blocking) IN
    CASE x.recipe = "semantic_guard_rewrite" ->
           IF x.preferred THEN <<30, 40, 60>> ELSE <<120, 80, 120>>
      [] x.recipe = "direct_apply_patch" ->
           <<IF x.preferred /\ b = 0 THEN 80 ELSE 320 + 50 * b,
             IF x.preferred THEN 40 ELSE 100, 80>>
      [] OTHER ->
           LET w == Wrapping[x.recipe]
           IN <<w[1] + w[2] * Max({high, b}), w[3] + w[4] * b, w[5]>>

Weight(condition, w) == IF condition THEN w ELSE 0

\* Two-digit rounding of thousandths; a half goes up here, and in the program
\* wherever binary floating point takes it.
Rounded(x) == (x + 5) \div 10

\* Primitives the preferred route asks for beyond the common ones.
Special(route) == Routes[route].needs \ {"direct_apply", "wrapper"}

\* All rules in the forbidden list forbid something, so a report with a rule
\* but unknown_patchability makes direct application costlier.
Estimate(x, risks, viable) ==
    LET base    == BaseEstimate(x, HighRisks(risks))
        direct  == x.recipe = "direct_apply_patch"
        has(p)  == p \in x.prims
        forbids == direct /\ risks \ {"unknown_patchability"} # {}
        route   == PreferredRoute(risks, viable)
        missing == Cardinality(Special(route) \ x.prims)
        matched == IF x.recipe = route THEN Cardinality(Special(route) \cap x.prims)
                   ELSE 0
        cost    == base[3] + Weight(has("callback"), 40) + Weight(has("shadow_variable"), 50)
                     + Weight(has("state_preserving"), 20) + Weight(has("smpl"), 30)
                     + Weight(Routes[x.recipe].scaffold, 50)
        drift1  == base[2] + Weight(has("callback"), 20) + Weight(has("shadow_variable"), 30)
                     + Weight(has("section_change_avoidance"), 30) + Weight(forbids, 40)
        drift2  == (IF x.preferred /\ ~direct THEN Max({30, drift1 - 10}) ELSE drift1)
                     + 30 * missing
        risk1   == (IF has("section_change_avoidance") THEN Max({50, base[1] - 40})
                    ELSE base[1]) + Weight(forbids, 80)
        risk2   == (IF x.preferred /\ ~direct THEN Max({40, risk1 - 30}) ELSE risk1)
                     + Weight(~x.preferred, 30) + 70 * missing
    IN [risk  |-> Min({85, Rounded(IF matched > 0 THEN Max({40, risk2 - 50 * matched})
                                   ELSE risk2)}),
        drift |-> Min({60, Rounded(IF matched > 0 THEN Max({30, drift2 - 20 * matched})
                                   ELSE drift2)}),
        cost  |-> Min({80, Rounded(cost)})]

----------------------------------------------------------------------------
(* CandidateRanker.rank *)

\* What the memory and the agent tell the planner: success and failure counts
\* per recipe, the types of the failures there were, recipes to avoid and to boost.
NoHints ==
    [stats |-> [r \in Recipes |-> [attempts |-> 0, successes |-> 0, failures |-> 0]],
     pressure |-> <<>>, avoid |-> {}, boost |-> {}, extra |-> <<>>]

RuleHits(x) ==
    IF x.blocking # {} THEN x.blocking
    ELSE IF x.recipe = "direct_apply_patch" THEN {"direct_apply_path"}
    ELSE {"constraint_review"}

\* weight * n / of, rounded; nothing was tried when of = 0.
Share(weight, n, of) == IF of = 0 THEN 0 ELSE (2 * weight * n + of) \div (2 * of)

Score(x, e, hints) ==
    LET s == hints.stats[x.recipe]
        p == Cardinality({i \in DOMAIN hints.pressure : hints.pressure[i] \in RuleHits(x)})
    IN 42 * (100 - e.risk) + 18 * (100 - e.drift) + 14 * (100 - e.cost)
         + Share(2000, s.successes, s.attempts) - Share(1600, s.failures, s.attempts)
         - 120 * Min({5, p})
         - Weight(x.recipe \in hints.avoid, 3500)
         + Weight(x.recipe \in hints.boost, 2400)

\* The sort key: the higher score, then the lower estimates.
Better(a, b) ==
    \/ a.score > b.score
    \/ /\ a.score = b.score
       /\ \/ a.risk < b.risk
          \/ a.risk = b.risk /\ a.drift < b.drift
          \/ a.risk = b.risk /\ a.drift = b.drift /\ a.cost < b.cost

Ranked(x, e, hints) ==
    [recipe |-> x.recipe, prims |-> x.prims, rules |-> RuleHits(x),
     score |-> Score(x, e, hints), risk |-> e.risk, drift |-> e.drift, cost |-> e.cost]

\* The first of the best candidates.
First(ranked) ==
    ranked[CHOOSE i \in DOMAIN ranked :
              \A j \in DOMAIN ranked \ {i} :
                 Better(ranked[i], ranked[j]) \/ (i < j /\ ~Better(ranked[j], ranked[i]))]

\* JointPlanner.plan.
RankAll(inputs, risks, viable, hints) ==
    [i \in DOMAIN inputs |-> Ranked(inputs[i], Estimate(inputs[i], risks, viable), hints)]

Plan(risks, viable, guardIntent, hints) ==
    First(RankAll(Candidates(risks, viable, guardIntent, hints.extra), risks, viable, hints))

=============================================================================
