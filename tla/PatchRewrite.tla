----------------------------- MODULE PatchRewrite -----------------------------
(***************************************************************************)
(* RewriteExecutor.execute: the two recipes that change the text of a      *)
(* patch, hunk by hunk.                                                    *)
(*                                                                         *)
(* SectionChangeAvoidance drops the hunks kpatch may choke on and then     *)
(* takes back those the kept ones depend on, pass after pass, file by      *)
(* file.  SemanticGuardRewriter keeps the hunks that are guards.  A patch  *)
(* of which nothing is left is not rewritten at all.                       *)
(*                                                                         *)
(* A hunk is what the heuristics on its text found: whether it carries a   *)
(* risky line, sits in a function, is made of statements, is a guard, adds *)
(* a macro the guard recipe replaces, and the identifiers its changed      *)
(* lines define and all its lines mention.                                 *)
(***************************************************************************)
EXTENDS Naturals, Sequences, FiniteSets

CONSTANTS
    Identifiers,
    Patches          \* the patches considered: sequences of files of hunks

Hunks ==
    [risky : BOOLEAN, local : BOOLEAN, statements : BOOLEAN, guard : BOOLEAN,
     warns : BOOLEAN, defs : SUBSET Identifiers, refs : SUBSET Identifiers]

ASSUME PatchesAreFiles == Patches \subseteq Seq(Seq(Hunks))

VARIABLES
    patch,     \* the patch, file by file
    recipe,    \* plan.selected_recipe
    file,      \* the file whose hunks are being selected
    kept,      \* the hunks kept so far, by file
    report     \* the report of the recipe, or NoReport

rewriteVars == <<patch, recipe, file, kept, report>>

TextRecipes == {"section_change_avoidance_rewrite", "semantic_guard_rewrite", "other"}

NoReport == [effective |-> FALSE, gap |-> FALSE, written |-> FALSE]

Reports == [effective : BOOLEAN, gap : BOOLEAN, written : BOOLEAN]

Files == DOMAIN patch

HunksOf(f) == DOMAIN patch[f]

\* _hunk_decision.
KeptAtFirst(h) == ~h.risky /\ (h.local \/ h.statements)

FirstKept(f) ==
    {i \in HunksOf(f) :
        IF recipe = "section_change_avoidance_rewrite" THEN KeptAtFirst(patch[f][i])
        ELSE IF recipe = "semantic_guard_rewrite" THEN patch[f][i].guard
        ELSE TRUE}

Mentioned(f, hunks) == UNION {patch[f][i].refs : i \in hunks}

\* Dropped hunks that define what these mention.
RequiredBy(f, hunks) ==
    {i \in HunksOf(f) \ hunks : patch[f][i].defs \cap Mentioned(f, hunks) # {}}

\* _unresolved_dependencies, over all files.
Unresolved ==
    \E f \in Files : RequiredBy(f, kept[f]) # {}

RewriteInit ==
    /\ patch \in Patches
    /\ recipe \in TextRecipes
    /\ file = 1
    /\ kept = [f \in Files |-> FirstKept(f)]
    /\ report = NoReport

\* Mutant: one pass is enough.
KeepRequiredOnce ==
    /\ ~report.written
    /\ recipe = "section_change_avoidance_rewrite"
    /\ file \in Files
    /\ RequiredBy(file, kept[file]) # {}
    /\ kept' = [kept EXCEPT ![file] = @ \cup RequiredBy(file, @)]
    /\ file' = file + 1
    /\ UNCHANGED <<patch, recipe, report>>

\* One pass of _preserve_required_dependencies: what the kept hunks mention is
\* collected before the pass takes any hunk back.
KeepRequired ==
    /\ ~report.written
    /\ recipe = "section_change_avoidance_rewrite"
    /\ file \in Files
    /\ RequiredBy(file, kept[file]) # {}
    /\ kept' = [kept EXCEPT ![file] = @ \cup RequiredBy(file, @)]
    /\ UNCHANGED <<patch, recipe, file, report>>

\* The pass that changes nothing ends the file.
NextFile ==
    /\ ~report.written
    /\ file \in Files
    /\ \/ recipe # "section_change_avoidance_rewrite"
       \/ RequiredBy(file, kept[file]) = {}
    /\ file' = file + 1
    /\ UNCHANGED <<patch, recipe, kept, report>>

NothingKept == \A f \in Files : kept[f] = {}

Whole(f) == kept[f] = HunksOf(f)

\* _rewrite_call_sensitive_guard: WARN_ON and its like become plain tests.
Altered ==
    /\ recipe = "semantic_guard_rewrite"
    /\ \E f \in Files : \E i \in kept[f] : patch[f][i].warns

\* The changed lines differ from those of the patch.
Effective == ~NothingKept /\ (Altered \/ \E f \in Files : ~Whole(f))

\* rewritten.patch and the report of the recipe.
WritePatch ==
    /\ ~report.written
    /\ file \notin Files
    /\ kept' = IF NothingKept THEN [f \in Files |-> HunksOf(f)] ELSE kept
    /\ report' = [effective |-> Effective,
                  gap       |-> Unresolved /\ recipe = "section_change_avoidance_rewrite",
                  written   |-> TRUE]
    /\ UNCHANGED <<patch, recipe, file>>

RewriteNext == KeepRequired \/ NextFile \/ WritePatch

RewriteSpec == RewriteInit /\ [][RewriteNext]_rewriteVars

----------------------------------------------------------------------------
(* Properties *)

RewriteTypeOK ==
    /\ patch \in Patches
    /\ recipe \in TextRecipes
    /\ file \in 1..(Len(patch) + 1)
    /\ DOMAIN kept = Files
    /\ \A f \in Files : kept[f] \subseteq HunksOf(f)
    /\ report \in Reports

\* Within a file the hunks S leave no kept one without what it mentions.
SelfContained(f, S) == FirstKept(f) \subseteq S /\ RequiredBy(f, S) = {}

Shrunk == report.written /\ recipe = "section_change_avoidance_rewrite"

\* The shrunk patch is the smallest part of the patch that holds every hunk
\* judged safe and, file by file, what its hunks depend on: nothing risky is
\* kept that no kept hunk leads to, however long the chain, and nothing needed
\* is dropped (SectionChangeAvoidance.rewrite).
ShrunkToLeast ==
    (Shrunk /\ report.effective) =>
        \A f \in Files :
            /\ SelfContained(f, kept[f])
            /\ \A S \in SUBSET HunksOf(f) : SelfContained(f, S) => kept[f] \subseteq S

\* The report never shows a dependency gap: its unresolved dependencies are
\* computed after the passes that leave none.  The advice that
\* _constraint_next_action would give on a gap is never given (services.py).
GapNeverReported == ~report.gap

=============================================================================
