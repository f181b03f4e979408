----------------------------- MODULE BuildTargets -----------------------------
(***************************************************************************)
(* What a build of a patch has to build: BuildOrchestrator reads the       *)
(* Makefiles and the .config of the tree to tell whether the files a patch *)
(* touches are compiled at all, and into which modules; modinfo adds the   *)
(* modules those depend on, as far as it is there and answers.             *)
(* config_repair names the options to turn on.                             *)
(* BuildFlow takes the verdict as a free choice (CheckCoverage).           *)
(*                                                                         *)
(* A Makefile is the sequence of its logical lines; a line gives its items *)
(* to obj-, or its members to a composite object, under a gate: "y", "m"   *)
(* or the name of an option.  A name stands for the object, for the module *)
(* made from it and for a directory.                                       *)
(***************************************************************************)
EXTENDS Naturals, Sequences, SequencesExt, FiniteSetsExt

CONSTANTS
    Kernels,     \* trees, see KernelType
    TouchedSets, \* sequences of files a patch may touch, see FileType
    Surveys,     \* what a build gets to know of its targets, see SurveyType
    MaxDepth     \* how deep modinfo is followed

Obj(gate, items) == [of |-> "obj", gate |-> gate, items |-> items]
Part(whole, gate, items) == [of |-> whole, gate |-> gate, items |-> items]

NoTarget == <<>>
Vmlinux == <<"vmlinux">>

\* dirs: the directories on the way; only .c files take part; arch: whose
\* directory under arch/ the file is in, if any.
FileType(f) ==
    /\ f.dirs \in Seq(STRING) /\ f.name \in STRING /\ f.c \in BOOLEAN
    /\ f.arch \in {"any", "this", "other"}

\* make: the lines by directory; config: what .config says; bools: options that
\* cannot be "m"; depends: the modules each module needs, by name; home: where
\* the installed module comes from.
LineType(options) ==
    [of : STRING, gate : {"y", "m"} \cup options, items : SUBSET STRING]

KernelType(k) ==
    /\ DOMAIN k = {"make", "config", "bools", "depends", "home"}
    /\ \A d \in DOMAIN k.make : k.make[d] \in Seq(LineType(DOMAIN k.config))
    /\ \A o \in DOMAIN k.config : k.config[o] \in {"y", "m", "n"}
    /\ k.bools \subseteq DOMAIN k.config
    /\ DOMAIN k.depends \subseteq STRING
    /\ \A m \in DOMAIN k.depends : k.depends[m] \in Seq(DOMAIN k.depends)
    /\ k.home \in [DOMAIN k.depends -> Seq(STRING)]

\* A module that is installed from the tree has the place of its object there,
\* and no other object that can be a module has its name.
HomesMade(k) ==
    /\ "vmlinux" \notin DOMAIN k.depends
    /\ \A m \in DOMAIN k.home : k.home[m] # NoTarget => Last(k.home[m]) = m
    /\ \A d \in DOMAIN k.make : \A l \in ToSet(k.make[d]) :
          l.of = "obj" /\ l.gate # "y" =>
             \A m \in l.items \cap DOMAIN k.home : k.home[m] = Append(d, m)

\* auto, expand: auto_build_targets and auto_expand_module_dependencies of
\* build.yaml; silent: the queries that fail or time out, each of one module
\* (of), in the search for what one target depends on (search).  Where there is
\* no modinfo, all are.
SurveyType(s) ==
    /\ DOMAIN s = {"auto", "expand", "silent"}
    /\ s.auto \in BOOLEAN /\ s.expand \in BOOLEAN
    /\ s.silent \subseteq [search : Seq(STRING), what : {"depends", "path"}, of : STRING]

ASSUME KernelsTyped == \A k \in Kernels : KernelType(k)
ASSUME KernelsInstalled == \A k \in Kernels : HomesMade(k)
ASSUME FilesTyped ==
    \A t \in TouchedSets : t \in Seq(ToSet(t)) /\ \A i \in DOMAIN t : FileType(t[i])
ASSUME SurveysTyped == \A s \in Surveys : SurveyType(s)
ASSUME DepthBounded == MaxDepth \in Nat

VARIABLES
    tree,       \* the kernel tree the build is about
    touched,    \* the files of the patch
    survey,     \* what the build at hand gets to know
    goal        \* how far the decision is, and what came of it

targetVars == <<tree, touched, survey, goal>>

----------------------------------------------------------------------------
(* Reading the Makefiles *)

Lines(dir) == IF dir \in DOMAIN tree.make THEN tree.make[dir] ELSE <<>>

GateValue(gate) == IF gate \in {"y", "m"} THEN gate ELSE tree.config[gate]

\* The lines that give an item to obj-.
ObjLines(dir, item) == {l \in ToSet(Lines(dir)) : l.of = "obj" /\ item \in l.items}

\* What a line says counts.
IsOn(l) == GateValue(l.gate) # "n"

\* Which of these lines comes first.
EarliestOf(dir, lines) == Lines(dir)[Min({i \in DOMAIN Lines(dir) : Lines(dir)[i] \in lines})]

\* Mutant: the first line decides, on or off.
FirstOnOnly(dir, item) ==
    LET lines == ObjLines(dir, item)
        first == EarliestOf(dir, lines)
    IN IF lines = {} THEN "unlisted"
       ELSE IF IsOn(first) THEN GateValue(first.gate) ELSE "off"

\* _match_directory_gate, _find_final_kbuild_target_detail: the first line that
\* is on decides.
FirstOn(dir, item) ==
    LET lines == ObjLines(dir, item)
        on == {l \in lines : IsOn(l)}
    IN IF lines = {} THEN "unlisted"
       ELSE IF on = {} THEN "off"
       ELSE GateValue(EarliestOf(dir, on).gate)

\* _directory_gate_state: a directory no line names is taken for one that is on.
DirectoryOff(dirs) == \E n \in 1..Len(dirs) : FirstOn(SubSeq(dirs, 1, n - 1), dirs[n]) = "off"

\* _find_composite_object: the first composite that lists the object, whatever
\* the gate of that line.
FinalObject(f) ==
    LET lines == {l \in ToSet(Lines(f.dirs)) : l.of # "obj" /\ f.name \in l.items}
    IN IF lines = {} THEN f.name ELSE EarliestOf(f.dirs, lines).of

\* _resolve_build_target_detail.
Detail(f) ==
    LET state == FirstOn(f.dirs, FinalObject(f))
    IN CASE ~f.c -> Vmlinux
         [] f.c /\ (DirectoryOff(f.dirs) \/ state = "off") -> NoTarget
         [] f.c /\ ~DirectoryOff(f.dirs) /\ state = "m" -> Append(f.dirs, FinalObject(f))
         [] OTHER -> Vmlinux

Disabled == {i \in DOMAIN touched : Detail(touched[i]) = NoTarget}

----------------------------------------------------------------------------
(* Dependencies of modules *)

Joined(list, target) == IF Contains(list, target) THEN list ELSE Append(list, target)

JoinedAll(list, more) ==
    LET joined[n \in 0..Len(more)] ==
          IF n = 0 THEN list ELSE Joined(joined[n - 1], more[n])
    IN joined[Len(more)]

DependsOn(name) == IF name \in DOMAIN tree.depends THEN tree.depends[name] ELSE <<>>

\* What modinfo says in the search for what a target depends on.
Silent(what, name, target) ==
    [search |-> target, what |-> what, of |-> name] \in survey.silent

NamesGiven(name, target) ==
    IF Silent("depends", name, target) THEN <<>> ELSE DependsOn(name)

\* _module_target_from_modinfo.
PlaceGiven(name, target) ==
    IF Silent("path", name, target) THEN NoTarget ELSE tree.home[name]

\* How far a search is: the modules it has come by, the targets it has found.
Walks == [seen : SUBSET STRING, list : Seq(Seq(STRING))]

\* One more module whose own dependencies are in the list by now.
Found(w, name, target) ==
    IF PlaceGiven(name, target) \in {NoTarget, target} THEN w
    ELSE [w EXCEPT !.list = Joined(@, PlaceGiven(name, target))]

\* The next name, if the search has not come by it; below: what becomes of a
\* search that goes on from a name.
Visited(u, name, below, target) ==
    IF name \in u.seen THEN u
    ELSE Found(below[name][[u EXCEPT !.seen = @ \cup {name}]], name, target)

\* The names one after the other.
Through(names, w, below, target) ==
    LET walk[i \in 0..Len(names)] ==
          IF i = 0 THEN w ELSE Visited(walk[i - 1], names[i], below, target)
    IN walk[Len(names)]

\* The search from each name: where modinfo is followed no further, and a level up.
NotFurther == [m \in STRING |-> [w \in Walks |-> w]]

OneFurther(below, target) ==
    [m \in STRING |-> [w \in Walks |-> Through(NamesGiven(m, target), w, below, target)]]

\* _module_dependency_targets: each module once, after those it is known to need.
\* visit counts the levels that are left.
DependencyTargets(target) ==
    LET visit[left \in 0..(MaxDepth + 1)] ==
          IF left = 0 THEN NotFurther ELSE OneFurther(visit[left - 1], target)
        root == Last(target)
    IN visit[MaxDepth + 1][root][[seen |-> {root}, list |-> <<>>]].list

\* Mutant: dependencies are added after the modules that need them.
ExpandAfter(targets) ==
    LET all[n \in 0..Len(targets)] ==
          IF n = 0 THEN <<>>
          ELSE JoinedAll(Joined(all[n - 1], targets[n]), DependencyTargets(targets[n]))
    IN all[Len(targets)]

\* _expand_module_dependency_targets: each target after those it depends on.
AfterNeeded(list, target) == Joined(JoinedAll(list, DependencyTargets(target)), target)

Expand(targets) ==
    LET all[n \in 0..Len(targets)] ==
          IF n = 0 THEN <<>> ELSE AfterNeeded(all[n - 1], targets[n])
    IN all[Len(targets)]

Expanded(targets) == IF survey.expand THEN Expand(targets) ELSE targets

\* The modules the touched files end up in.
WithModule(list, detail) == IF detail \in {Vmlinux, NoTarget} THEN list ELSE Joined(list, detail)

Modules(details) ==
    LET named[n \in 0..Len(details)] ==
          IF n = 0 THEN <<>> ELSE WithModule(named[n - 1], details[n])
    IN named[Len(details)]

\* _infer_build_targets: vmlinux whenever some file is not known to be in a
\* module, or there is no file; no target, for all there is, where the targets
\* are not to be worked out.
InferTargets ==
    LET details == [i \in 1..Len(touched) |-> Detail(touched[i])]
        modules == Modules(details)
    IN IF survey.auto
       THEN (IF Vmlinux \in ToSet(details) \/ modules = <<>> THEN <<Vmlinux>> ELSE <<>>)
            \o Expanded(modules)
       ELSE <<>>

----------------------------------------------------------------------------
(* infer_minimal_config_delta *)

OptionsOf(lines) == {l.gate : l \in lines} \cap DOMAIN tree.config

\* The options of each gate on the way to a file, also those that are on already.
GateKeys(f) ==
    {OptionsOf(ObjLines(SubSeq(f.dirs, 1, n - 1), f.dirs[n])) : n \in 1..Len(f.dirs)}
    \cup {OptionsOf(ObjLines(f.dirs, FinalObject(f)))}

ConfigKeys(f) == UNION GateKeys(f)

----------------------------------------------------------------------------
(* The steps *)

FirstGoal == [pc |-> "arch", targets |-> <<>>, mended |-> FALSE]

TargetsInit ==
    /\ tree \in Kernels
    /\ touched \in TouchedSets
    /\ survey \in Surveys
    /\ goal = FirstGoal

CheckArch ==
    /\ goal.pc = "arch"
    /\ goal' = [goal EXCEPT !.pc =
                  IF \E i \in DOMAIN touched : touched[i].arch = "other"
                  THEN "target_arch_mismatch" ELSE "enabled?"]
    /\ UNCHANGED <<tree, touched, survey>>

CheckEnabled ==
    /\ goal.pc = "enabled?"
    /\ goal' = [goal EXCEPT !.pc = IF Disabled # {} THEN "feature_not_enabled" ELSE "infer"]
    /\ UNCHANGED <<tree, touched, survey>>

Infer ==
    /\ goal.pc = "infer"
    /\ goal' = [goal EXCEPT !.pc = "inferred", !.targets = InferTargets]
    /\ UNCHANGED <<tree, touched, survey>>

\* Someone merges the fragment that the screening writes and builds the kernel
\* again; kconfig drops an "m" for an option that can only be on or off.  The
\* next build asks modinfo anew.
MergeFragment ==
    /\ goal.pc = "feature_not_enabled" /\ ~goal.mended
    /\ LET keys == UNION {ConfigKeys(f) : f \in ToSet(touched)}
       IN tree' = [tree EXCEPT !.config =
                     [o \in DOMAIN @ |-> IF o \in keys \ tree.bools THEN "m" ELSE @[o]]]
    /\ goal' = [goal EXCEPT !.pc = "arch", !.mended = TRUE]
    /\ survey' \in Surveys
    /\ UNCHANGED touched

TargetsNext == CheckArch \/ CheckEnabled \/ Infer \/ MergeFragment

TargetsSpec == TargetsInit /\ [][TargetsNext]_targetVars

----------------------------------------------------------------------------
(* Properties *)

TargetsTypeOK ==
    /\ goal.pc \in {"arch", "enabled?", "infer", "inferred",
                    "target_arch_mismatch", "feature_not_enabled"}
    /\ goal.targets \in Seq(Seq(STRING)) /\ goal.mended \in BOOLEAN
    /\ KernelType(tree) /\ SurveyType(survey)

\* What kbuild makes of a file, whatever the order of the lines: the objects it
\* ends up in are itself, where obj- lists it, and the composites that take it.
Homes(f) ==
    {o \in ({f.name} \cup {l.of : l \in ToSet(Lines(f.dirs))}) \ {"obj"} :
        /\ ObjLines(f.dirs, o) # {}
        /\ \/ o = f.name
           \/ \E l \in ToSet(Lines(f.dirs)) :
                 l.of = o /\ f.name \in l.items /\ IsOn(l)}

\* "y" in one line beats "m" in another.
HomeState(f, o) ==
    LET states == {GateValue(l.gate) : l \in ObjLines(f.dirs, o)}
    IN IF "y" \in states THEN "y" ELSE IF "m" \in states THEN "m" ELSE "n"

Reached(f) ==
    \A n \in 1..Len(f.dirs) :
        LET lines == ObjLines(SubSeq(f.dirs, 1, n - 1), f.dirs[n])
        IN lines = {} \/ \E l \in lines : IsOn(l)

\* What the search through the lines takes for granted: an object has one home,
\* and its lines do not build that both in and as a module.
Plainly(f) ==
    /\ \A k, l \in ToSet(Lines(f.dirs)) : f.name \in k.items \cap l.items => k.of = l.of
    /\ \A k, l \in ObjLines(f.dirs, FinalObject(f)) :
          IsOn(k) /\ IsOn(l) => GateValue(k.gate) = GateValue(l.gate)

Compiled(f) == Reached(f) /\ \E o \in Homes(f) : HomeState(f, o) # "n"

\* A build is given up for want of an option only where kbuild leaves a file out;
\* and never once the options the screening names are on, except where none of
\* some gate can be "m" (_collect_disabled_patch_target_files,
\* infer_minimal_config_delta).
GivenUpForAnOption ==
    goal.pc = "feature_not_enabled" =>
        \A i \in Disabled :
            /\ Plainly(touched[i]) => ~Compiled(touched[i])
            /\ goal.mended => \E keys \in GateKeys(touched[i]) :
                                keys # {} /\ keys \subseteq tree.bools

\* The modules some chain of n dependencies starts from.
NeedOneOf(ms) == {m \in DOMAIN tree.depends : ToSet(tree.depends[m]) \cap ms # {}}

Tall ==
    LET tall[n \in 0..(MaxDepth + 2)] ==
          IF n = 0 THEN DOMAIN tree.depends ELSE NeedOneOf(tall[n - 1])
    IN tall

\* What modinfo says of a module whenever it is asked.
Answers(what, m) == \A q \in survey.silent : q.what = what => q.of # m

\* A build that goes on makes whatever kbuild puts a touched file into, unless
\* its targets are not to be worked out; and, where they are expanded, a module
\* after those it depends on, as far as modinfo told what the one needs and where
\* the other is, and no chain of dependencies is longer than modinfo is followed
\* (_infer_build_targets, _expand_module_dependency_targets).
TargetsCoverThePatch ==
    goal.pc = "inferred" =>
        /\ survey.auto =>
              \A f \in ToSet(touched) : \A o \in Homes(f) :
                 (f.c /\ Plainly(f) /\ Reached(f)) =>
                    CASE HomeState(f, o) = "y" -> Vmlinux \in ToSet(goal.targets)
                      [] HomeState(f, o) = "m" -> Append(f.dirs, o) \in ToSet(goal.targets)
                      [] OTHER -> FALSE
        /\ (survey.expand /\ \A t \in ToSet(goal.targets) : Last(t) \notin Tall[MaxDepth + 2]) =>
              \A i, j \in DOMAIN goal.targets :
                 (/\ Last(goal.targets[j]) \in DOMAIN tree.depends
                  /\ Last(goal.targets[i]) \in ToSet(tree.depends[Last(goal.targets[j])])
                  /\ Answers("depends", Last(goal.targets[j]))
                  /\ Answers("path", Last(goal.targets[i])))
                    => i < j

=============================================================================
