----------------------------- MODULE MCRepairLoop -----------------------------
(* RepairLoop for TLC. *)
EXTENDS RepairLoop

\* One report per kind of preferred route: none needed, a plain wrapper,
\* state, state with a callback, and sections kpatch cannot change.
SomeRisks ==
    {{}, {"inline_side_effect"},
     {"struct_layout_change", "global_data_change"},
     {"no_fentry_target", "global_data_change"}, {"unsupported_section_change"}}

Class(full) == [full |-> full, shrunk |-> "neither", guarded |-> "guard"]

\* What shrinking would take out of the patch, and the class of the patch.
SomeTexts ==
    {<<"nothing", Class("guard")>>, <<"nothing", Class("state")>>,
     <<"little", Class("neither")>>, <<"much", Class("state")>>}

SomePatches ==
    {[risks |-> r, viable |-> TRUE, guardIntent |-> g[1], guards |-> g[2],
      drops |-> t[1], class |-> t[2]] :
        r \in SomeRisks, t \in SomeTexts,
        g \in {<<FALSE, FALSE>>, <<TRUE, FALSE>>, <<TRUE, TRUE>>}}

SomeAnswers ==
    {Answer("built", "none", NoSign),
     Answer("target_state", "target_already_patched", NoSign),
     Answer("failed", "build_env_missing", NoSign),
     Answer("failed", "patch_apply_failed", NoSign),
     Answer("failed", "kpatch_constraint", "section a"),
     Answer("failed", "kpatch_constraint", "section b"),
     Answer("failed", "kpatch_constraint", "fentry")}

\* Another task's first attempt failed on a constraint.
SomeMemories ==
    {RecordReflection(EmptyMemory, "other", 1, "kpatch_constraint",
                      "minimal_livepatch_wrap", "section")}

=============================================================================
