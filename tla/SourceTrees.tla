----------------------------- MODULE SourceTrees ------------------------------
(***************************************************************************)
(* The kernel trees all tasks build from, and build.yaml that names them:  *)
(* prepare-build-tree, prepare-stable-baseline and the preflight with      *)
(* which every attempt makes sure of a stable baseline.                    *)
(*                                                                         *)
(* A preparation is a list of steps on a directory; any of them may raise, *)
(* and the process may die before any of them.  A later run that finds a   *)
(* Makefile and scripts/setlocalversion reuses what is there.  No lock     *)
(* keeps two runs from the same directory or from build.yaml, which is     *)
(* read, truncated and written as a whole.                                 *)
(***************************************************************************)
EXTENDS Naturals, SequencesExt

CONSTANTS
    Jobs,         \* the commands and attempts
    Baselines,    \* the stable baselines asked for: a ref and its directory
    Requests,     \* what they may ask for: a subset of RequestSpace
    Priorities    \* what build_source_priority may be at first

Prepared == "prepared"

NoDir == "none"

ASSUME PreparedIsNoBaseline == Prepared \notin Baselines /\ NoDir \notin Baselines

\* A list that has the clean tree has it first: so do the default one, the one
\* in config/build.yaml and the one an upload writes.
ASSUME PrioritiesKnown ==
    \A p \in Priorities :
        /\ p \in Seq(Range(p))
        /\ Contains(p, "clean_kernel_src_dir") => p[1] = "clean_kernel_src_dir"

Directories == {Prepared} \cup Baselines

RequestSpace ==
    [kind : {"prepare"}, dir : {Prepared}, force : BOOLEAN, warm : BOOLEAN, write : BOOLEAN]
    \cup [kind : {"baseline"}, dir : Baselines, force : BOOLEAN, warm : {FALSE}, write : BOOLEAN]
    \cup [kind : {"attempt"}, dir : Baselines, force : {FALSE}, warm : {FALSE}, write : {TRUE}]

ASSUME RequestsKnown == Requests \subseteq RequestSpace

VARIABLES
    dirs,       \* what each directory holds
    settings,   \* build.yaml
    service,    \* stable_kernel_src_dir in the memory of the service
    job,        \* the jobs
    lost,       \* directories no later reuse can make whole
    raced       \* writers of build.yaml overlapped, or one died writing

treeVars == <<dirs, settings, service, job, lost, raced>>

\* edited: setlocalversion was adapted; sources: all files are there.
Contents == {"dir", "makefile", "script", "sources", "overlay", "edited", "manifest"}

SlotOf(dir) ==
    IF dir = Prepared THEN "prepared_kernel_src_dir" ELSE "stable_kernel_src_dir"

Empty ==
    [broken |-> FALSE, others |-> FALSE, priority |-> <<>>,
     path |-> [s \in {SlotOf(d) : d \in Directories} |-> NoDir]]

NoRequest == [kind |-> "none", dir |-> NoDir, force |-> FALSE, warm |-> FALSE, write |-> FALSE]

Statuses == {"idle", "going", "done", "reused", "failed"}

TreesInit ==
    /\ dirs = [d \in Directories |-> {}]
    /\ \E p \in Priorities : settings = [Empty EXCEPT !.priority = p, !.others = TRUE]
    /\ service = NoDir
    /\ job = [j \in Jobs |-> [ask |-> NoRequest, todo |-> <<>>, held |-> Empty, status |-> "idle"]]
    /\ lost = {}
    /\ raced = FALSE

----------------------------------------------------------------------------
(* What a job does, step by step *)

Save(ask) == IF ask.write THEN <<"read", "truncate", "write">> ELSE <<>>

Warm(ask) == IF ask.warm THEN <<"warm">> ELSE <<>>

\* A new tree.  The prepared one is registered at the very end, a baseline
\* before its manifest.
NewSteps(ask) ==
    IF ask.kind = "prepare"
    THEN <<"unpack", "complete", "overlay", "config", "edit">> \o Warm(ask)
         \o <<"manifest">> \o Save(ask)
    ELSE <<"unpack", "complete", "config", "cache", "edit">> \o Save(ask)
         \o <<"manifest">>

\* Mutant: what is reused was adapted when it was made.
ReuseStepsUnedited(ask) ==
    IF ask.kind = "prepare" THEN Save(ask) \o Warm(ask)
    ELSE <<"config", "cache">> \o Save(ask)

ReuseSteps(ask) ==
    IF ask.kind = "prepare" THEN <<"edit">> \o Save(ask) \o Warm(ask)
    ELSE <<"edit", "config", "cache">> \o Save(ask)

\* _looks_like_prepared_tree.
LooksPrepared(d) == {"makefile", "script"} \subseteq dirs[d]

Going(j) == job[j].status = "going"

At(j, step) == Going(j) /\ Head(job[j].todo) = step

\* The job has done its first step.  An attempt that is through tells the
\* service where its baseline is.
Advance(j, held) ==
    LET rest == Tail(job[j].todo) IN
    /\ job' = [job EXCEPT ![j].todo = rest, ![j].held = held,
                          ![j].status = IF rest = <<>> THEN "done" ELSE "going"]
    /\ service' = IF rest = <<>> /\ job[j].ask.kind = "attempt"
                  THEN job[j].ask.dir ELSE service

Shared(d) == \E j \in Jobs : Going(j) /\ job[j].ask.dir = d

\* _ensure_stable_baseline_preflight takes whatever baseline the service knows,
\* for whichever fix it was prepared.
ReuseService(j, ask) ==
    /\ ask.kind = "attempt" /\ service # NoDir
    /\ "makefile" \in dirs[service]
    /\ job' = [job EXCEPT ![j].ask = ask, ![j].status = "reused"]
    /\ UNCHANGED <<dirs, settings, service, lost, raced>>

StartJob(j, ask) ==
    /\ ask.kind = "attempt" /\ service # NoDir => "makefile" \notin dirs[service]
    /\ LET steps == IF "dir" \notin dirs[ask.dir] THEN NewSteps(ask)
                    ELSE IF ask.force THEN <<"remove">> \o NewSteps(ask)
                    ELSE IF LooksPrepared(ask.dir) THEN ReuseSteps(ask)
                    ELSE <<>>
       IN job' = [job EXCEPT ![j].ask = ask, ![j].todo = steps,
                             ![j].status = IF steps = <<>> THEN "failed" ELSE "going"]
    /\ lost' = IF Shared(ask.dir) THEN lost \cup {ask.dir} ELSE lost
    /\ UNCHANGED <<dirs, settings, service, raced>>

Begin(j) ==
    /\ job[j].status = "idle"
    /\ \E ask \in Requests : ReuseService(j, ask) \/ StartJob(j, ask)

\* shutil.rmtree, when it succeeds.
RemoveTree(j) ==
    /\ At(j, "remove")
    /\ dirs' = [dirs EXCEPT ![job[j].ask.dir] = {}]
    /\ lost' = IF \E i \in Jobs \ {j} : Going(i) /\ job[i].ask.dir = job[j].ask.dir
               THEN lost ELSE lost \ {job[j].ask.dir}
    /\ Advance(j, job[j].held)
    /\ UNCHANGED <<settings, raced>>

\* git worktree add, the snapshot, or the tree out of the source package: the
\* first files to arrive may be the ones a reuse looks at.  What somebody else
\* put there in the meantime stays, or goes for the snapshot.
Unpack(j) ==
    /\ At(j, "unpack")
    /\ LET d == job[j].ask.dir IN
       dirs' = [dirs EXCEPT ![d] = IF @ = {} \/ d # Prepared
                                   THEN {"dir", "makefile", "script"} ELSE @]
    /\ Advance(j, job[j].held)
    /\ UNCHANGED <<settings, lost, raced>>

\* What a step adds to the tree.
Added(step, d) ==
    CASE step = "complete" -> {"sources"}
      [] step = "overlay"     -> {"overlay"}
      [] step = "edit"        -> IF "script" \in dirs[d] THEN {"edited"} ELSE {}
      [] step = "manifest"    -> {"manifest"}
      [] OTHER                -> {}

\* The configuration, the cache and the warm-up are steps that may fail; what
\* they add, no property asks for.
WorkOnTree(j) ==
    /\ \E step \in {"complete", "overlay", "config", "cache", "edit", "warm", "manifest"} :
         /\ At(j, step)
         /\ dirs[job[j].ask.dir] # {}
         /\ dirs' = [dirs EXCEPT ![job[j].ask.dir] = @ \cup Added(step, job[j].ask.dir)]
    /\ Advance(j, job[j].held)
    /\ UNCHANGED <<settings, lost, raced>>

----------------------------------------------------------------------------
(* build.yaml *)

\* A new slot goes behind the first of these that is listed, else to the front.
Anchors(slot) ==
    IF slot = "prepared_kernel_src_dir" THEN <<"clean_kernel_src_dir">>
    ELSE <<"kernel_src_dir", "prepared_kernel_src_dir", "vendor_kernel_src_dir",
           "clean_kernel_src_dir">>

Listed(priority, slot) ==
    LET anchors == Anchors(slot)
        found == {k \in DOMAIN anchors : Contains(priority, anchors[k])}
        places == {i \in DOMAIN priority : priority[i] = anchors[Min(found)]}
    IN IF Contains(priority, slot) THEN priority
       ELSE InsertAt(priority, IF found = {} THEN 1 ELSE Min(places) + 1, slot)

\* Mutant: the writer saves what it has to say and nothing else.
SavedAlone(s, dir) ==
    [Empty EXCEPT !.path[SlotOf(dir)] = dir, !.priority = <<SlotOf(dir)>>]

Saved(s, dir) ==
    [s EXCEPT !.path[SlotOf(dir)] = dir, !.priority = Listed(@, SlotOf(dir))]

Saving(j) == At(j, "truncate") \/ At(j, "write")

\* An empty file reads as a file without settings.
ReadSettings(j) ==
    /\ At(j, "read")
    /\ ~settings.broken
    /\ Advance(j, Saved(settings, job[j].ask.dir))
    /\ raced' = (raced \/ \E i \in Jobs \ {j} : Saving(i))
    /\ UNCHANGED <<dirs, settings, lost>>

TruncateSettings(j) ==
    /\ At(j, "truncate")
    /\ settings' = Empty
    /\ Advance(j, job[j].held)
    /\ UNCHANGED <<dirs, lost, raced>>

\* Over a longer text the tail of that one stays.
WriteSettings(j) ==
    /\ At(j, "write")
    /\ \E tail \in {FALSE, settings # Empty} :
          settings' = [job[j].held EXCEPT !.broken = tail]
    /\ Advance(j, Empty)
    /\ UNCHANGED <<dirs, lost, raced>>

----------------------------------------------------------------------------

\* rmtree in the middle of its work.
Torn(d) == {{"dir"} \cup left : left \in SUBSET dirs[d]}

\* The first step raises, or the process dies.  A new tree without all its
\* sources and its overlay is one that no reuse completes.
BreakOff(j) ==
    /\ Going(j)
    /\ LET d == job[j].ask.dir
           early == {"complete", "overlay"} \cap Range(job[j].todo) # {}
       IN /\ dirs' \in {[dirs EXCEPT ![d] = left] :
                          left \in IF At(j, "remove") THEN Torn(d) ELSE {dirs[d]}}
          /\ lost' = IF early /\ dirs[d] # {} THEN lost \cup {d} ELSE lost
    /\ job' = [job EXCEPT ![j].todo = <<>>, ![j].status = "failed"]
    /\ raced' = (raced \/ At(j, "write"))
    /\ UNCHANGED <<settings, service>>

TreesNext ==
    \E j \in Jobs :
        \/ Begin(j) \/ RemoveTree(j) \/ Unpack(j) \/ WorkOnTree(j)
        \/ ReadSettings(j) \/ TruncateSettings(j) \/ WriteSettings(j)
        \/ BreakOff(j)

TreesSpec == TreesInit /\ [][TreesNext]_treeVars

----------------------------------------------------------------------------
(* Properties *)

TreesTypeOK ==
    /\ dirs \in [Directories -> SUBSET Contents]
    /\ settings.broken \in BOOLEAN /\ settings.others \in BOOLEAN
    /\ service \in Baselines \cup {NoDir}
    /\ \A j \in Jobs : job[j].status \in Statuses
                       /\ job[j].ask \in Requests \cup {NoRequest}
    /\ lost \subseteq Directories
    /\ raced \in BOOLEAN

WholeTree(d) ==
    {"dir", "makefile", "script", "sources", "edited"}
    \cup (IF d = Prepared THEN {"overlay"} ELSE {})

\* A job that reports success leaves a whole tree, whether it made it or found
\* it and finished what a broken-off job had left: unless that one had not got
\* as far as its sources and its overlay, or two jobs were at it together.
SuccessLeavesWholeTree ==
    [][\A j \in Jobs :
          (Going(j) /\ job'[j].status = "done" /\ job[j].ask.dir \notin lost') =>
             WholeTree(job[j].ask.dir) \subseteq dirs'[job[j].ask.dir]]_treeVars

\* As long as no two writers overlapped and none died writing, build.yaml keeps
\* everybody's settings, names a tree in every slot that was written, lists the
\* slots it names, and a tree said to be clean is still tried first.
SettingsKept ==
    ~raced =>
        /\ ~settings.broken
        /\ \/ \E j \in Jobs : At(j, "write")
           \/ /\ settings.others
              /\ \A j \in Jobs :
                   (job[j].status = "done" /\ job[j].ask.write) =>
                      /\ settings.path[SlotOf(job[j].ask.dir)] # NoDir
                      /\ Contains(settings.priority, SlotOf(job[j].ask.dir))
              /\ Contains(settings.priority, "clean_kernel_src_dir") =>
                   settings.priority[1] = "clean_kernel_src_dir"

=============================================================================
