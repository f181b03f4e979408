-------------------------------- MODULE MCHost --------------------------------
(* HostRuns for TLC. *)
EXTENDS HostRuns, TLC

\* A tree expected to be clean, one expected to be patched, and a baseline.
ThreeSlots ==
    <<"clean_kernel_src_dir", "prepared_kernel_src_dir", "stable_kernel_src_dir">>

\* Two files.  In the first, three hunks that may need one another in turn; a
\* hunk mentions what it defines.  In the second, a guard or an unremarkable one.
Hunk(risky, guard, defs, refs) ==
    [risky |-> risky, local |-> TRUE, statements |-> TRUE, guard |-> guard,
     warns |-> guard, defs |-> defs, refs |-> refs]

SomeHunks ==
    {Hunk(r, FALSE, d, d \cup m) :
        r \in BOOLEAN, d \in {{}, {"a"}, {"b"}}, m \in SUBSET {"a", "b"}}

SomePatches ==
    {<<<<x, y, z>>, <<IF x.defs = {} THEN Hunk(TRUE, TRUE, {}, {"a"})
                      ELSE Hunk(FALSE, FALSE, {}, {})>>>> :
        x \in {h \in SomeHunks : ~h.risky}, y \in {h \in SomeHunks : h.risky},
        z \in SomeHunks}

\* Every test on, one of them off, no configuration, no script, two profiles.
AllOn == [present |-> TRUE, profile |-> "standard", on |-> Tests, script |-> TRUE]

SomeSetups ==
    {AllOn, [AllOn EXCEPT !.present = FALSE], [AllOn EXCEPT !.script = FALSE],
     [AllOn EXCEPT !.profile = "strict", !.on = {}],
     [AllOn EXCEPT !.profile = "dev", !.on = {"load"}]}
    \cup {[AllOn EXCEPT !.on = Tests \ {t}] : t \in Tests}

\* One attempt of any kind beside one that built.
Plain ==
    [status |-> "built", module |-> TRUE, precheck |-> TRUE, changes |-> TRUE,
     high |-> FALSE, history |-> "none"]

SomeCases ==
    {("any" :> c @@ "other" :> Plain) :
        c \in {c \in CaseSpace : IF c.status = "built" THEN c.history # "same failure"
                                 ELSE ~c.module}}

\* A failure and a success of one recipe, and a failure of another.
Plan1(recipeName) == [recipe |-> recipeName, rules |-> {}, prims |-> {}]

SomeOutcome ==
    [w \in {"w1", "w2", "w3"} |->
       CASE w = "w1" -> [plan |-> Plan1("minimal_livepatch_wrap"),
                         type |-> "kpatch_constraint", success |-> FALSE]
         [] w = "w2" -> [plan |-> Plan1("minimal_livepatch_wrap"),
                         type |-> "none", success |-> TRUE]
         [] w = "w3" -> [plan |-> Plan1("smpl_primary_rewrite"),
                         type |-> "patch_apply_failed", success |-> FALSE]]

\* Every way of asking, and a list of slots with a clean tree or without.
SomePriorities ==
    {<<"clean_kernel_src_dir", "kernel_src_dir">>, <<"kernel_src_dir", "vendor_kernel_src_dir">>}

\* Two commits of the target's series; a stable one of another series in the
\* mirror beside an upstream one; one only the text names, for no kernel; two
\* upstream ones; a stable one named as a file and then as a page, and an upstream
\* one named as a file.  The cache is empty, out of date, torn, or wrong and old.
FileAt(host, ref) == [ref EXCEPT !.file = host]

World(nvd, cvelist, text, other, targeted, mirror, left, age) ==
    [nvd |-> nvd, cvelist |-> cvelist, text |-> text,
     series |-> [c \in Commits |-> IF c \in other THEN "other" ELSE "target"],
     targeted |-> targeted, mirror |-> mirror, left |-> [text |-> left, age |-> age]]

SomeWorlds ==
    {World(<<>>, <<StableRef("c1"), StableRef("c2")>>, NoCommit, {}, TRUE, {}, "none", "none"),
     World(<<>>, <<StableRef("c2"), UpstreamRef("c3")>>, NoCommit, {"c2"}, TRUE, {"c2"},
           "whole", "stale"),
     World(<<>>, <<>>, "c3", {"c2"}, FALSE, {}, "torn", "stale"),
     World(<<UpstreamRef("c2")>>, <<UpstreamRef("c1")>>, NoCommit, {"c2"}, TRUE, {"c1"},
           "other", "old"),
     World(<<FileAt("github", StableRef("c1"))>>,
           <<StableRef("c1"), FileAt("kernel.org", UpstreamRef("c2"))>>, NoCommit, {}, TRUE, {},
           "none", "none")}

\* A directory under one option or two, and files in it: of their own, in a
\* composite, in a composite under an option, listed twice, in two composites.
SomeGates == {<<Obj("A", {"d"})>>, <<Obj("A", {"d"}), Obj("B", {"d"})>>}

SomeMakefiles ==
    {<<Obj("C", {"x"}), Obj("B", {"y"})>>,
     <<Part("w", "y", {"x"}), Obj("C", {"w"}), Obj("m", {"y"})>>,
     <<Part("w", "C", {"x"}), Obj("m", {"w"}), Obj("y", {"y"})>>,
     <<Obj("B", {"x"}), Obj("C", {"x"})>>,
     <<Part("v", "y", {"x"}), Part("w", "y", {"x"}), Obj("B", {"v"}), Obj("C", {"w"})>>}

\* What depends on what; b is not where the tree could build it.
SomeHomes ==
    [m \in {"x", "y", "w", "a", "b", "c"} |->
       CASE m = "b" -> NoTarget [] m \in {"x", "y", "w"} -> <<"d", m>> [] OTHER -> <<m>>]

Depends(x, w, y, a) == "x" :> x @@ "w" :> w @@ "y" :> y @@ "a" :> a @@ "b" :> <<"c">> @@ "c" :> <<>>

SomeDepends ==
    {Depends(<<"y", "a">>, <<"a", "c">>, <<"c">>, <<"c">>),
     Depends(<<>>, <<"c", "a">>, <<"a", "c">>, <<"b">>)}

SomeKernels ==
    {[make |-> <<>> :> g @@ <<"d">> :> k, config |-> c, bools |-> b, depends |-> d,
      home |-> SomeHomes] :
        g \in SomeGates, k \in SomeMakefiles, d \in SomeDepends, b \in {{}, {"B"}},
        c \in [{"A", "B", "C"} -> {"y", "m", "n"}]}

BoolsNotModules == {k \in SomeKernels : \A o \in k.bools : k.config[o] # "m"}

Touched(n) == [dirs |-> <<"d">>, name |-> n, c |-> TRUE, arch |-> "any"]

SomeTouched ==
    {<<Touched("x")>>, <<Touched("x"), Touched("y")>>, <<Touched("y"), Touched("x")>>,
     <<[Touched("x") EXCEPT !.c = FALSE], Touched("y")>>,
     <<Touched("x"), [Touched("y") EXCEPT !.arch = "other"]>>}

\* Everything is answered; the targets are not worked out, or not expanded; there
\* is no modinfo; it does not find one module, and fails for another once.
Survey(auto, expand, silent) == [auto |-> auto, expand |-> expand, silent |-> silent]

Queries(targets, what, names) == [search : targets, what : what, of : names]

InD == {<<"d", m>> : m \in {"x", "y", "w"}}

SomeSurveys ==
    {Survey(TRUE, TRUE, {}), Survey(FALSE, TRUE, {}), Survey(TRUE, FALSE, {}),
     Survey(TRUE, TRUE, Queries(InD, {"depends", "path"}, DOMAIN SomeHomes)),
     Survey(TRUE, TRUE, Queries(InD, {"path"}, {"y"})
                        \cup Queries({<<"d", "x">>, <<"d", "w">>}, {"depends"}, {"a"}))}

\* Two CVEs whose task has the same number, and one of its own.
TaskNumber == "2023-1" :> "p-1" @@ "2024-1" :> "p-1" @@ "2024-2" :> "p-2"

SomeBatches == {<<"2024-1", "2023-1">>, <<"2024-2">>}

Finding(low, modules, lines) ==
    [route |-> low, risks |-> IF low THEN 0 ELSE 1, constrained |-> ~low,
     modules |-> modules, vmlinux |-> FALSE, disabled |-> modules = 0, baseline |-> low,
     expectedOff |-> FALSE,
     shape |-> [lines |-> lines, files |-> 1, functions |-> 1, markers |-> {}, guard |-> TRUE]]

SomeFindings == {Finding(TRUE, 1, 10), Finding(FALSE, 0, 60)}

PlainLine ==
    [full |-> TRUE, update |-> TRUE, includeKnown |-> FALSE, onlyCandidates |-> FALSE,
     onlyModules |-> FALSE, onlyHigh |-> FALSE, prepare |-> FALSE, maxRuns |-> 2]

SomeLines ==
    {PlainLine,
     [PlainLine EXCEPT !.onlyCandidates = TRUE, !.onlyModules = TRUE, !.prepare = TRUE],
     [PlainLine EXCEPT !.includeKnown = TRUE, !.onlyModules = TRUE, !.maxRuns = 1],
     [PlainLine EXCEPT !.full = FALSE, !.onlyHigh = TRUE]}

SomePools == {[positive |-> {"2023-1"}, constrained |-> {"2024-1"}]}

SomeLeftovers == {NoTask, Built("passed", "fits"), Failed("failed", "kpatch_constraint")}

\* The default upload, one over the old files, one of the code only, one that
\* wipes, one that is only tried; a preview, an installation, a registration.
DefaultUpload ==
    [kind |-> "upload", frontend |-> TRUE, clean |-> TRUE, wipe |-> FALSE,
     prepare |-> TRUE, force |-> FALSE, install |-> TRUE, smoke |-> TRUE]

Installer == [kind |-> "install", dry |-> FALSE, pip |-> TRUE, service |-> TRUE]

SomePlans ==
    {DefaultUpload,
     [DefaultUpload EXCEPT !.clean = FALSE, !.wipe = TRUE, !.prepare = FALSE],
     [DefaultUpload EXCEPT !.frontend = FALSE, !.install = FALSE, !.smoke = FALSE],
     [DefaultUpload EXCEPT !.wipe = TRUE, !.force = TRUE, !.frontend = FALSE, !.install = FALSE],
     Installer,
     [Installer EXCEPT !.dry = TRUE],
     [Installer EXCEPT !.pip = FALSE, !.service = FALSE]}

=============================================================================
