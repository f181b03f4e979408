------------------------------ MODULE BuildFlow ------------------------------
(***************************************************************************)
(* BuildOrchestrator._execute_local_build: one build of one attempt, from  *)
(* the probe of the machine to the record it returns.  The builder picks a *)
(* kernel tree, checks that the patch applies to it, moves to another tree *)
(* when it does not, makes trees of its own (a reversed copy, a writable   *)
(* copy) and runs kpatch-build in the one it ended on.                     *)
(*                                                                         *)
(* State that outlives a build: the configured trees, and the trees an     *)
(* attempt made and did not remove.  The rest are the locals of the call.  *)
(* Git, cp and kpatch-build are external: what they answer is a choice     *)
(* within what the tree in question allows.  Removing a tree succeeds.     *)
(***************************************************************************)
EXTENDS FailureClassifier, Naturals, FiniteSets

CONSTANT Slots      \* build_source_priority: the names of the slots, in order

SlotSet == ToSet(Slots)

ASSUME SlotsKnown ==
    Slots \in Seq({"clean_kernel_src_dir", "vendor_kernel_src_dir", "stable_kernel_src_dir",
                   "prepared_kernel_src_dir", "kernel_src_dir", "kernel_devel_dir",
                   "patched_kernel_src_dir"})

VARIABLES
    conf,       \* the switches of build.yaml
    trees,      \* the tree behind each slot
    made,       \* trees below attempts/NNN/sources, by name
    damaged,    \* slots a killed kpatch-build may have left patched
    flow        \* the locals of the running call

buildVars == <<conf, trees, made, damaged, flow>>

Switches == {"auto_switch", "auto_reverse", "auto_writable", "cleanup"}

\* A kernel tree, as the patch at hand sees it.
Trees == [patch : {"applies", "contained", "conflicts"}, writable : BOOLEAN]

NoTree == [patch |-> "none", writable |-> FALSE]

Own == {"reverse_unpatched", "writable_build"}

TreeNames == SlotSet \cup Own

NoName == "none"

\* What a tree in this place is expected to hold.
ExpectedState(name) ==
    CASE name \in {"clean_kernel_src_dir", "vendor_kernel_src_dir",
                   "stable_kernel_src_dir", "reverse_unpatched"} -> "unpatched"
      [] name \in {"prepared_kernel_src_dir", "kernel_src_dir"} -> "likely_patched"
      [] name = "patched_kernel_src_dir" -> "patched"
      [] name = "writable_build" -> "attempt_writable_copy"
      [] OTHER -> "unknown"

Tree(name) == IF name \in SlotSet THEN trees[name] ELSE made[name]

\* The first configured tree that exists, is not excluded and is expected to
\* be in one of these states.
SelectSource(exclude, states) ==
    LET first == Earliest({i \in DOMAIN Slots : /\ Slots[i] \notin exclude
                                                /\ ExpectedState(Slots[i]) \in states
                                                /\ trees[Slots[i]] # NoTree})
    IN IF first = {} THEN NoName ELSE Slots[CHOOSE i \in first : TRUE]

AnyState == {"unpatched", "likely_patched", "patched", "unknown"}

----------------------------------------------------------------------------
(* The record a build returns, and the precheck of one tree *)

Records ==
    [status : {"built", "failed", "target_state"},
     failure : KnownFailureTypes \cup {"none"},
     executed : BOOLEAN, signs : SUBSET (OutputSigns \cup FlowSigns)]

NoPrecheck == [ok |-> FALSE, failure |-> "none", source |-> NoName]

\* Mutant: a patch git objects to is one the tree already has.
PrecheckPatchHasty(name) ==
    [ok      |-> Tree(name).patch = "applies",
     failure |-> IF Tree(name).patch = "applies" THEN "none" ELSE "target_already_patched",
     source  |-> name]

\* git apply --check, and a look at the tree's files when it objects.
PrecheckPatch(name) ==
    LET p == Tree(name).patch IN
    [ok      |-> p = "applies",
     failure |-> CASE p = "applies"   -> "none"
                   [] p = "contained" -> "target_already_patched"
                   [] OTHER           -> "patch_apply_failed",
     source  |-> name]

\* The phrase of the precheck that the classifier will find in the log.
PrecheckSigns(pre) ==
    CASE pre.failure = "target_already_patched" -> {"patched"}
      [] pre.failure = "patch_apply_failed"     -> {"not applied"}
      [] OTHER -> {}

Idle ==
    [pc |-> "idle", selected |-> NoName, direct |-> FALSE, generated |-> NoName,
     primary |-> NoPrecheck, precheck |-> NoPrecheck, signs |-> {},
     first |-> NoName, base |-> NoName, filed |-> "none",
     record |-> [status |-> "failed", failure |-> "none", executed |-> FALSE, signs |-> {}]]

\* _cleanup_generated_source_tree, of the one tree the call remembers.
Cleanup(name) ==
    IF name # NoName /\ "cleanup" \in conf
    THEN made' = [made EXCEPT ![name] = NoTree]
    ELSE UNCHANGED made

Return(status, failure, executed, signs) ==
    flow' = [flow EXCEPT !.pc = "returned",
                         !.record = [status |-> status, failure |-> failure,
                                     executed |-> executed,
                                     signs |-> flow.signs \cup signs]]

Goto(pc) == flow' = [flow EXCEPT !.pc = pc]

\* The build goes on with this tree: _override_selected_source, which keeps
\* the mutability the probe measured on the first one.
MoveTo(name, pc, signs) ==
    LET pre == PrecheckPatch(name)
    IN flow' = [flow EXCEPT !.pc = pc, !.selected = name, !.base = name,
                            !.precheck = pre,
                            !.signs = @ \cup signs \cup PrecheckSigns(pre)]

----------------------------------------------------------------------------
(* The steps of the call, in order *)

\* A new attempt directory holds no tree.
StartBuild ==
    /\ flow.pc \in {"idle", "returned"}
    /\ flow' = [Idle EXCEPT !.pc = "probe"]
    /\ made' = [n \in Own |-> NoTree]
    /\ UNCHANGED <<conf, trees, damaged>>

\* The machine lacks something: the first thing missing names the failure.
ProbeFails ==
    /\ flow.pc = "probe"
    /\ \/ Return("failed", "build_env_missing", FALSE, {"no builder"})
       \/ /\ SelectSource({}, AnyState) = NoName
          /\ Return("failed", "kernel_src_missing", FALSE, {"no tree"})
       \/ /\ SelectSource({}, AnyState) # NoName
          /\ \/ Return("failed", "kernel_config_missing", FALSE, {"no config"})
             \/ Return("failed", "vmlinux_missing", FALSE, {"no vmlinux"})
    /\ UNCHANGED <<conf, trees, made, damaged>>

Probe ==
    /\ flow.pc = "probe"
    /\ LET s == SelectSource({}, AnyState)
       IN /\ s # NoName
          /\ flow' = [flow EXCEPT !.pc = "coverage", !.selected = s, !.first = s,
                                  !.direct = trees[s].writable]
    /\ UNCHANGED <<conf, trees, made, damaged>>

\* Files of another architecture, or that the configuration of this tree
\* leaves out, end the build before git looks at the patch.
CheckCoverage ==
    /\ flow.pc = "coverage"
    /\ \/ Return("failed", "target_arch_mismatch", FALSE, {"wrong arch"})
       \/ Return("failed", "feature_not_enabled", FALSE, {"disabled"})
       \/ Goto("precheck")
    /\ UNCHANGED <<conf, trees, made, damaged>>

\* Without git the precheck is a failure of the environment, which no other
\* tree can mend.
PrecheckWithoutGit ==
    /\ flow.pc = "precheck"
    /\ Return("failed", "build_env_missing", FALSE, {"not applied"})
    /\ UNCHANGED <<conf, trees, made, damaged>>

Precheck ==
    /\ flow.pc = "precheck"
    /\ MoveTo(flow.selected, "patched?", {})
    /\ UNCHANGED <<conf, trees, made, damaged>>

\* The tree already contains the patch: prefer one that should not, take any
\* other one else.
FallbackSource ==
    LET clean == SelectSource({flow.selected}, {"unpatched"})
    IN IF clean # NoName THEN clean ELSE SelectSource({flow.selected}, AnyState)

SwitchPatchedTree ==
    /\ flow.pc = "patched?"
    /\ IF flow.precheck.failure = "target_already_patched" /\ "auto_switch" \in conf
       THEN LET pre  == PrecheckPatch(FallbackSource)
            IN flow' = IF FallbackSource = NoName
                       THEN [flow EXCEPT !.pc = "conflicts?", !.primary = flow.precheck]
                       ELSE [flow EXCEPT !.pc = "conflicts?", !.primary = flow.precheck,
                                         !.selected = FallbackSource,
                                         !.base = FallbackSource, !.precheck = pre,
                                         !.signs = @ \cup {"switched"} \cup PrecheckSigns(pre)]
       ELSE Goto("conflicts?")
    /\ UNCHANGED <<conf, trees, made, damaged>>

\* The patch conflicts with a tree that may well be patched already: try one
\* that should not be.
SwitchConflictingTree ==
    /\ flow.pc = "conflicts?"
    /\ LET s == SelectSource({flow.selected}, {"unpatched"}) IN
       IF /\ flow.precheck.failure = "patch_apply_failed"
          /\ "auto_switch" \in conf
          /\ ExpectedState(flow.precheck.source) # "unpatched"
          /\ s # NoName
       THEN MoveTo(s, "reverse?", {})
       ELSE Goto("reverse?")
    /\ UNCHANGED <<conf, trees, made, damaged>>

\* The precheck whose tree is worth reversing: that of the first tree that
\* contained the patch, the last one else.
ReverseCandidate ==
    IF flow.primary # NoPrecheck THEN flow.primary ELSE flow.precheck

TriesReverse ==
    /\ ~flow.precheck.ok
    /\ "auto_reverse" \in conf
    /\ ReverseCandidate.failure \in {"target_already_patched", "patch_apply_failed"}

\* _prepare_reverse_source_tree: a copy of the tree with the task's original
\* patch taken out; whether the rewritten patch applies to it is not settled
\* by that.
ReversedTrees == [patch : {"applies", "conflicts"}, writable : {TRUE}]

\* A failed reversal removes the copy unless the configuration keeps trees.
Remains ==
    {NoTree} \cup IF "cleanup" \in conf THEN {}
                  ELSE {[Tree(ReverseCandidate.source) EXCEPT !.writable = TRUE]}

ReverseTree ==
    /\ flow.pc = "reverse?"
    /\ TriesReverse
    /\ \/ \E t \in Remains :
            /\ made' = [made EXCEPT !["reverse_unpatched"] = t]
            /\ Goto("verdict")
       \/ \E t \in ReversedTrees :
            LET pre == [ok      |-> t.patch = "applies",
                        failure |-> IF t.patch = "applies" THEN "none"
                                    ELSE "patch_apply_failed",
                        source  |-> "reverse_unpatched"]
            IN /\ made' = [made EXCEPT !["reverse_unpatched"] = t]
               /\ flow' = [flow EXCEPT !.pc = "verdict",
                                       !.selected = "reverse_unpatched",
                                       !.generated = "reverse_unpatched",
                                       !.base = ReverseCandidate.source,
                                       !.precheck = pre,
                                       !.signs = @ \cup PrecheckSigns(pre)]
    /\ UNCHANGED <<conf, trees, damaged>>

NoReverseTree ==
    /\ flow.pc = "reverse?"
    /\ ~TriesReverse
    /\ Goto("verdict")
    /\ UNCHANGED <<conf, trees, made, damaged>>

\* A first tree that contained the patch decides, whatever became of the
\* trees tried after it.
Collapses ==
    /\ flow.primary # NoPrecheck
    /\ flow.precheck.failure # "target_already_patched"

\* Mutant: a tree the builder made stays behind when the patch is refused.
RefusePatchAndKeep ==
    /\ flow.pc = "verdict"
    /\ ~flow.precheck.ok
    /\ IF Collapses \/ flow.precheck.failure = "target_already_patched"
       THEN Return("target_state", "target_already_patched", FALSE, {})
       ELSE Return("failed", flow.precheck.failure, FALSE, {"not applied"})
    /\ UNCHANGED <<conf, trees, made, damaged>>

RefusePatch ==
    /\ flow.pc = "verdict"
    /\ ~flow.precheck.ok
    /\ IF Collapses \/ flow.precheck.failure = "target_already_patched"
       THEN Return("target_state", "target_already_patched", FALSE, {})
       ELSE Return("failed", flow.precheck.failure, FALSE, {"not applied"})
    /\ Cleanup(flow.generated)
    /\ UNCHANGED <<conf, trees, damaged>>

\* Another tree may be configured in another way.
RecheckCoverage ==
    /\ flow.pc = "verdict"
    /\ flow.precheck.ok
    /\ \/ /\ flow.base # flow.first
          /\ Return("failed", "feature_not_enabled", FALSE, {"disabled"})
          /\ Cleanup(flow.generated)
       \/ Goto("writable?") /\ UNCHANGED made
    /\ UNCHANGED <<conf, trees, damaged>>

NeedsWritableTree == ~flow.direct /\ "auto_writable" \in conf

\* _prepare_writable_build_source_tree: an overlay or a copy of the tree the
\* build is on, if there is room for it and it can be written to.
WritableTree ==
    /\ flow.pc = "writable?"
    /\ NeedsWritableTree
    /\ made' = [made EXCEPT !["writable_build"] =
                  [Tree(flow.selected) EXCEPT !.writable = TRUE]]
    /\ flow' = [flow EXCEPT !.pc = "cache", !.selected = "writable_build",
                            !.generated = "writable_build"]
    /\ UNCHANGED <<conf, trees, damaged>>

\* The half-made copy is removed by the callee; nothing else is.
NoWritableTree ==
    /\ flow.pc = "writable?"
    /\ NeedsWritableTree
    /\ Return("failed", "build_env_missing", FALSE, {})
    /\ UNCHANGED <<conf, trees, made, damaged>>

BuildDirectly ==
    /\ flow.pc = "writable?"
    /\ ~NeedsWritableTree
    /\ Goto("cache")
    /\ UNCHANGED <<conf, trees, made, damaged>>

\* A module target needs the results of an earlier full build in the tree.
MissingCache ==
    /\ flow.pc = "cache"
    /\ Return("failed", "build_cache_incomplete", FALSE, {"no cache"})
    /\ Cleanup(flow.generated)
    /\ UNCHANGED <<conf, trees, damaged>>

CacheReady ==
    /\ flow.pc = "cache"
    /\ Goto("run")
    /\ UNCHANGED <<conf, trees, made, damaged>>

\* What the last lines of ~/.kpatch/build.log say: the log of whichever build
\* of this user wrote last.
HomeLogs == {{}} \cup {{sign} : sign \in OutputSigns}

Outputs == HomeLogs \cup {{"section", "relacalls"}, {"bundle", "tools"}}

\* kpatch-build left a module in attempts/NNN/output.
BuildSucceeds ==
    /\ flow.pc = "run"
    /\ Return("built", "none", TRUE, {})
    /\ Cleanup(flow.generated)
    /\ UNCHANGED <<conf, trees, damaged>>

\* It reported success and left nothing.
BuildLeavesNoModule ==
    /\ flow.pc = "run"
    /\ \E out \in Outputs : Return("failed", "compile_failed", TRUE, out)
    /\ Cleanup(flow.generated)
    /\ UNCHANGED <<conf, trees, damaged>>

\* The home log is quoted in any case and looked at when the output tells
\* nothing.
FailureOf(out, log) ==
    LET f == ClassifyCommandFailure(out)
    IN IF f = "compile_failed" THEN ClassifyCommandFailure(out \cup log) ELSE f

BuildFails ==
    /\ flow.pc = "run"
    /\ \E out \in Outputs, log \in HomeLogs :
         Return("failed", FailureOf(out, log), TRUE, out \cup log)
    /\ Cleanup(flow.generated)
    /\ UNCHANGED <<conf, trees, damaged>>

\* After build_timeout_sec the process groups get SIGTERM and, three seconds
\* later, SIGKILL.  kpatch-build patches the tree it builds in and undoes that
\* on exit, so a killed one may leave the tree patched.  The type starts as
\* compile_failed; only the home log can change it.
BuildTimesOut ==
    /\ flow.pc = "run"
    /\ \E out \in Outputs, log \in HomeLogs, quoted \in BOOLEAN :
         /\ quoted \/ log = {}
         /\ Return("failed", IF quoted THEN ClassifyCommandFailure(out \cup log)
                             ELSE "compile_failed", TRUE, out \cup log)
    /\ Cleanup(flow.generated)
    /\ \E left \in BOOLEAN :
         IF left /\ flow.selected \in SlotSet /\ trees[flow.selected].writable
         THEN /\ trees' = [trees EXCEPT ![flow.selected].patch = "contained"]
              /\ damaged' = damaged \cup {flow.selected}
         ELSE UNCHANGED <<trees, damaged>>
    /\ UNCHANGED conf

----------------------------------------------------------------------------
(* The caller *)

\* What the model may answer, when there is one: a type the policy stops at, or
\* nothing the program knows.
ModelAnswers == {"unfixable_by_livepatch", "no such type"}

RuleType(record) == ClassifyBuildLog(record.failure, record.executed, record.signs)

\* The attempt keeps the builder's type, and a failed one is filed under the
\* type the classifier reads out of the log.
FileFailure ==
    /\ flow.pc = "returned"
    /\ flow.record.status = "failed" /\ flow.filed = "none"
    /\ \E type \in Classifications(TRUE, ModelAnswers, RuleType(flow.record)) :
          flow' = [flow EXCEPT !.filed = type]
    /\ UNCHANGED <<conf, trees, made, damaged>>

BuildInit ==
    /\ conf \in {Switches} \cup {Switches \ {x} : x \in Switches}
    /\ trees \in [SlotSet -> Trees \cup {NoTree}]
    /\ made = [n \in Own |-> NoTree]
    /\ damaged = {}
    /\ flow = Idle

BuildStep ==
    \/ ProbeFails \/ Probe \/ CheckCoverage
    \/ PrecheckWithoutGit \/ Precheck
    \/ SwitchPatchedTree \/ SwitchConflictingTree
    \/ ReverseTree \/ NoReverseTree
    \/ RefusePatch \/ RecheckCoverage
    \/ WritableTree \/ NoWritableTree \/ BuildDirectly
    \/ MissingCache \/ CacheReady
    \/ BuildSucceeds \/ BuildLeavesNoModule \/ BuildFails \/ BuildTimesOut

BuildNext == StartBuild \/ BuildStep \/ FileFailure

BuildSpec == BuildInit /\ [][BuildNext]_buildVars

----------------------------------------------------------------------------
(* Properties *)

BuildTypeOK ==
    /\ conf \subseteq Switches
    /\ trees \in [SlotSet -> Trees \cup {NoTree}]
    /\ made \in [Own -> Trees \cup {NoTree}]
    /\ damaged \subseteq SlotSet
    /\ flow.record \in Records
    /\ flow.filed \in KnownFailureTypes \cup {"none"}

Returned == flow.pc = "returned"

\* Whichever way a build ends, a reversed copy and a writable copy it made are
\* gone, if the configuration says so and the first tree was writable
\* (_cleanup_generated_source_tree on every return of _execute_local_build).
GeneratedTreesCleaned ==
    (Returned /\ "cleanup" \in conf /\ flow.direct) =>
        \A n \in Own : made[n] = NoTree

\* A build that ends with the verdict that the target is patched already found
\* a configured tree that is, whatever trees it tried and made on its way:
\* neither a conflict nor a failed reversal ends that way.
VerdictBlamesTree ==
    (Returned /\ flow.record.failure = "target_already_patched") =>
        \E s \in SlotSet : trees[s].patch = "contained"

\* The classifier reads the type of a refused build out of its log again, which
\* also quotes the trees tried and left before.  It overrules the builder only
\* where git objected to some tree on the way, or was missing, and then only
\* with what git says: no other check that ends a build is ever taken for
\* another one.
OverruledOnlyByApply ==
    LET r == flow.record IN
    (Returned /\ r.status = "failed" /\ ~r.executed /\ RuleType(r) # r.failure) =>
        \/ "patched" \in r.signs /\ RuleType(r) = "target_already_patched"
        \/ "not applied" \in r.signs /\ RuleType(r) = "patch_apply_failed"

=============================================================================
