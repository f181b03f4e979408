------------------------------- MODULE HostRuns -------------------------------
(***************************************************************************)
(* What attempts do on the machine they run on, part by part: the search   *)
(* for the fix, the choice of what to build, the rewrite of a patch, a     *)
(* build, validations side by side, the recording of what was learned and  *)
(* the preparation of the kernel trees; the screening that sends whole     *)
(* lists of CVEs through all that, the page that shows one task of it, and *)
(* the rollout of a new version of the whole.                              *)
(* TaskRunner and RepairLoop take each of these as one step with a few     *)
(* outcomes; here it runs in full, with whatever else touches what it      *)
(* touches.                                                                *)
(*                                                                         *)
(* The parts meet in TaskRunner, not here: one of them is chosen and the   *)
(* others rest, so that one specification and one run cover them all.      *)
(***************************************************************************)
EXTENDS BuildFlow, PatchRewrite, Validation, SharedMemory, SourceTrees,
        FixSources, BuildTargets, PoolScreening, TaskPage, Deployment

VARIABLE part     \* the one at work

attemptVars == <<buildVars, rewriteVars, validationVars, sharedVars, treeVars>>
hostVars == <<part, attemptVars, sourceVars, targetVars, poolVars, pageVars, deployVars>>

\* What a part has none of while it rests.
Resting == "resting"

BuildRests ==
    /\ conf = {} /\ damaged = {} /\ flow = Idle
    /\ trees = [s \in SlotSet |-> NoTree] /\ made = [n \in Own |-> NoTree]

RewriteRests ==
    /\ patch = <<>> /\ recipe = "other" /\ file = 1 /\ kept = <<>>
    /\ report = NoReport

ValidationRests ==
    /\ setup = CHOOSE s \in Setups : TRUE
    /\ case = CHOOSE c \in Cases : TRUE
    /\ kernel = {}
    /\ items = [a \in Subjects |-> Nothing]
    /\ verdict = [a \in Subjects |-> "pending"]
    /\ stage = [a \in Subjects |-> "idle"]

TreesRest == settings.priority = CHOOSE p \in Priorities : TRUE

SourcesRest ==
    /\ world = Resting /\ cache = Resting
    /\ look = FirstLook /\ faults = 0

TargetsRest ==
    /\ tree = Resting /\ touched = Resting /\ survey = Resting
    /\ goal = FirstGoal

PoolRests ==
    /\ options = Resting /\ latest = Resting
    /\ pool = {} /\ constrained = {} /\ proven = {}
    /\ screen = [step |-> "none"]

AttemptsRest == BuildRests /\ RewriteRests /\ ValidationRests

HostInit ==
    /\ SharedInit
    /\ TreesInit
    /\ PageInit
    /\ DeployInit
    /\ \/ /\ SourcesRest /\ TargetsRest /\ PoolRests
          /\ \/ part = "build" /\ BuildInit /\ RewriteRests /\ ValidationRests
             \/ part = "rewrite" /\ RewriteInit /\ BuildRests /\ ValidationRests
             \/ part = "validation" /\ ValidationInit /\ BuildRests /\ RewriteRests
             \/ part \in {"memory", "trees"} /\ AttemptsRest
       \/ /\ AttemptsRest
          /\ \/ part = "sources" /\ SourcesInit /\ TargetsRest /\ PoolRests
             \/ part = "targets" /\ TargetsInit /\ SourcesRest /\ PoolRests
             \/ part = "screening" /\ ScreenInit /\ SourcesRest /\ TargetsRest
             \/ part \in {"page", "deployment"} /\ SourcesRest /\ TargetsRest /\ PoolRests
    /\ part # "trees" => TreesRest
    /\ part # "deployment" => machine = NewMachine

HostNext ==
    /\ UNCHANGED part
    /\ \/ /\ part = "build" /\ BuildNext
          /\ UNCHANGED <<rewriteVars, validationVars, sharedVars, treeVars>>
          /\ UNCHANGED <<sourceVars, targetVars, poolVars, pageVars, deployVars>>
       \/ /\ part = "rewrite" /\ RewriteNext
          /\ UNCHANGED <<buildVars, validationVars, sharedVars, treeVars>>
          /\ UNCHANGED <<sourceVars, targetVars, poolVars, pageVars, deployVars>>
       \/ /\ part = "validation" /\ ValidationNext
          /\ UNCHANGED <<buildVars, rewriteVars, sharedVars, treeVars>>
          /\ UNCHANGED <<sourceVars, targetVars, poolVars, pageVars, deployVars>>
       \/ /\ part = "memory" /\ SharedNext
          /\ UNCHANGED <<buildVars, rewriteVars, validationVars, treeVars>>
          /\ UNCHANGED <<sourceVars, targetVars, poolVars, pageVars, deployVars>>
       \/ /\ part = "trees" /\ TreesNext
          /\ UNCHANGED <<buildVars, rewriteVars, validationVars, sharedVars>>
          /\ UNCHANGED <<sourceVars, targetVars, poolVars, pageVars, deployVars>>
       \/ part = "sources" /\ SourcesNext /\ UNCHANGED <<attemptVars, targetVars, poolVars, pageVars, deployVars>>
       \/ part = "targets" /\ TargetsNext /\ UNCHANGED <<attemptVars, sourceVars, poolVars, pageVars, deployVars>>
       \/ part = "screening" /\ ScreenNext /\ UNCHANGED <<attemptVars, sourceVars, targetVars, pageVars, deployVars>>
       \/ part = "deployment" /\ DeployNext /\ UNCHANGED <<attemptVars, sourceVars, targetVars, poolVars, pageVars>>
       \/ part = "page" /\ PageNext /\ UNCHANGED <<attemptVars, sourceVars, targetVars, poolVars, deployVars>>

HostSpec == HostInit /\ [][HostNext]_hostVars

----------------------------------------------------------------------------
(* Properties *)

\* The part at work keeps its types.
HostTypeOK ==
    /\ part = "build" => BuildTypeOK
    /\ part = "rewrite" => RewriteTypeOK
    /\ part = "validation" => ValidationTypeOK
    /\ TreesTypeOK
    /\ part = "sources" => SourcesTypeOK
    /\ part = "targets" => TargetsTypeOK
    /\ part = "screening" => ScreenTypeOK
    /\ part = "page" => PageTypeOK
    /\ part = "deployment" => DeployTypeOK

=============================================================================
