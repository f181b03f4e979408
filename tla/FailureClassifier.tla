-------------------------- MODULE FailureClassifier --------------------------
(***************************************************************************)
(* How a failed build gets its failure type.  Three lists of text rules    *)
(* look at overlapping pieces of text, in an order of their own each, and  *)
(* the first rule that matches wins:                                       *)
(*                                                                         *)
(*   - the apply precheck looks at what git said;                          *)
(*   - the builder looks at the output of kpatch-build, and when that      *)
(*     tells nothing at the log kpatch-build leaves in the home directory; *)
(*   - the rule classifier looks at the whole build log, with the type the *)
(*     builder found as its default.                                       *)
(*                                                                         *)
(* A model classifier may replace the last.  Text is abstracted to the set *)
(* of rules it satisfies: a sign is the name of a phrase the rules search  *)
(* for.  Pure operators, used by BuildFlow.                                *)
(***************************************************************************)
EXTENDS Naturals, Sequences, SequencesExt

\* Phrases of kpatch-build and of the compiler.
OutputSigns ==
    {"rejects", "tools", "modpost", "mcount", "bundle", "relacalls", "fentry",
     "section"}

\* Phrases the builder itself writes into the log before it runs anything.
FlowSigns ==
    {"no builder", "no tree", "no config", "no vmlinux", "patched", "disabled",
     "wrong arch", "no cache", "not applied", "switched"}

\* The least of some numbers, as a set of at most one.
Earliest(numbers) == {i \in numbers : \A j \in numbers : i <= j}

\* The type of the first rule whose sign occurs.
FirstMatch(rules, signs, default) ==
    LET first == Earliest({i \in DOMAIN rules : rules[i][1] \in signs})
    IN IF first = {} THEN default ELSE rules[CHOOSE i \in first : TRUE][2]

----------------------------------------------------------------------------
(* The builder's own look at the output of the command *)

CommandRules ==
    << <<"rejects",   "patch_apply_failed">>,
       <<"tools",     "build_env_missing">>,
       <<"modpost",   "dependency_gap">>,
       <<"mcount",    "kpatch_constraint">>,
       <<"bundle",    "kpatch_symbol_bundle_constraint">>,
       <<"fentry",    "kpatch_constraint">>,
       <<"section",   "kpatch_constraint">> >>

ClassifyCommandFailure(signs) == FirstMatch(CommandRules, signs, "compile_failed")

----------------------------------------------------------------------------
(* RuleFailureClassifier.classify_build_log *)

\* Rules that apply whether or not the build was executed, first of all.
ProbeRules ==
    << <<"no builder", "build_env_missing">>,
       <<"no tree",    "kernel_src_missing">>,
       <<"no config",  "kernel_config_missing">>,
       <<"no vmlinux", "vmlinux_missing">> >>

\* Rules for a log without a command.
NotExecutedRules ==
    << <<"patched",     "target_already_patched">>,
       <<"disabled",    "feature_not_enabled">>,
       <<"wrong arch",  "target_arch_mismatch">>,
       <<"no cache",    "build_cache_incomplete">>,
       <<"not applied", "patch_apply_failed">> >>

\* Rules on the lines after the command, in the log of an executed build.
OutputRules ==
    << <<"tools",     "build_env_missing">>,
       <<"modpost",   "dependency_gap">>,
       <<"mcount",    "kpatch_constraint">>,
       <<"bundle",    "kpatch_symbol_bundle_constraint">>,
       <<"relacalls", "kpatch_constraint">>,
       <<"fentry",    "kpatch_constraint">>,
       <<"section",   "kpatch_constraint">> >>

\* Mutant: the type the builder found is no default.
ClassifyWithoutHint(hint, executed, signs) ==
    FirstMatch(ProbeRules \o (IF executed THEN <<>> ELSE NotExecutedRules)
                 \o OutputRules, signs, "compile_failed")

ClassifyBuildLog(hint, executed, signs) ==
    FirstMatch(ProbeRules \o (IF executed THEN <<>> ELSE NotExecutedRules)
                 \o OutputRules, signs, hint)

----------------------------------------------------------------------------
(* LLMFailureClassifier: the rules first, then the model's answer          *)

KnownFailureTypes ==
    {"unknown", "compile_failed", "build_env_missing", "kernel_src_missing",
     "kernel_config_missing", "vmlinux_missing", "target_already_patched",
     "feature_not_enabled", "target_arch_mismatch", "build_cache_incomplete",
     "patch_apply_failed", "dependency_gap", "kpatch_constraint",
     "kpatch_symbol_bundle_constraint",
     "kpatch_section_symbol_offset_constraint", "unsupported_livepatch",
     "unfixable_by_livepatch"}

\* _record_from_llm: a type outside the list is not believed.
FromModel(answer, ruleType) ==
    IF answer \in KnownFailureTypes THEN answer
    ELSE IF ruleType # "unknown" THEN ruleType ELSE "compile_failed"

\* The types a failed build can be filed under; no client, an unknown mode,
\* an HTTP or a schema error all fall back on the rules.
Classifications(useModel, answers, ruleType) ==
    {ruleType} \cup IF useModel THEN {FromModel(a, ruleType) : a \in answers} ELSE {}

=============================================================================
