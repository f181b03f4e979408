--------------------------- MODULE HostParts_proof ----------------------------
(***************************************************************************)
(* Theorems about five of the parts of HostRuns, each with a              *)
(* specification of its own.                                               *)
(*                                                                         *)
(* A rollout (Deployment): RolloutOK keeps the types, Uploading and        *)
(* Installing say what has been done by the step the rollout is at.  Each  *)
(* step is shown to pass that on, and whatever happens beside it - the     *)
(* service dying, being revived or registered anew, somebody serving by    *)
(* hand - to leave it alone; a rollout begins with no claim on what the    *)
(* ones before it left.  At "done" it is what MachineReady asks for.       *)
(*                                                                         *)
(* An open page (TaskPage): what a command writes last is watched; and     *)
(* what a page tells follows from what a row, a record and a summary can   *)
(* say of one attempt (Told), whichever of them are there.                 *)
(*                                                                         *)
(* The kernel trees (SourceTrees): what is missing of a tree, its job has  *)
(* still to do (Stands); and while nobody races for build.yaml, the job    *)
(* that is past its reading holds what everybody has written (SavesOK).    *)
(*                                                                         *)
(* The source of a fix (FixSources): the candidates before the next one    *)
(* were tried at every place that may hold them (TriedInVain), the one at  *)
(* work at every address before the one it is at (Asked); and the          *)
(* candidates are the fitting stable commits, the surer ones first, then   *)
(* the upstream ones (SelectableIs, from PickedIs: what is picked by       *)
(* counting places).                                                       *)
(*                                                                         *)
(* A screening (PoolScreening): before its first run every case is fresh;  *)
(* from then on an attempt that counts was proven by a run of the case's   *)
(* task, and what blocks it was met (Honest); the record of a case whose   *)
(* task is its own shows the task's latest attempt (CaseOK).               *)
(***************************************************************************)
EXTENDS Deployment, TaskPage, SourceTrees, FixSources, PoolScreening,
        ListFacts, FiniteSetTheorems

----------------------------------------------------------------------------
(* A rollout, and the service beside it: types *)

\* A set of numbers that is bounded has a greatest one.
LEMMA NewestThere ==
    ASSUME NEW S \in SUBSET Versions, S # {}
    PROVE  /\ Max(S) \in S
           /\ \A n \in S : Max(S) >= n
<1>0. MaxRollouts \in Nat
  BY PlansKnown
<1> DEFINE T == {MaxRollouts - n : n \in S}
<1>1. T \in SUBSET Nat /\ T # {}
  <2>1. \A n \in S : n \in Int /\ n <= MaxRollouts
    BY <1>0 DEF Versions
  <2>2. \A n \in S : MaxRollouts - n \in Nat
    BY <1>0, <2>1
  <2>3. QED
    BY <2>2
<1> HIDE DEF T
<1>2. PICK t \in T : \A u \in T : t <= u
  BY <1>1, LeastNumber
<1>3. PICK n \in S : t = MaxRollouts - n
  BY <1>2 DEF T
<1>4. \A m \in S : n >= m
  <2>1. ASSUME NEW m \in S PROVE n >= m
    <3>1. MaxRollouts - m \in T
      BY DEF T
    <3>2. MaxRollouts - n <= MaxRollouts - m
      BY <1>2, <1>3, <3>1
    <3>3. QED
      BY <1>0, <3>2 DEF Versions
  <2>2. QED
    BY <2>1
<1>5. QED
  BY <1>4 DEF Max

NoPlan == [kind |-> "none"]

UploadSteps ==
    {"pack", "clean", "extract", "reconcile", "prepare", "install", "check", "smoke"}

InstallSteps == {"preflight", "deploy"}

\* A version's files come with its rollout; only a process that was registered
\* runs.
RolloutOK ==
    /\ DeployTypeOK
    /\ rollout \in [step : Steps, version : 0..MaxRollouts, plan : Plans \cup {NoPlan},
                    before : Machines]
    /\ machine.files \subseteq 1..rollout.version
    /\ unit.process # {} => unit.python # "none"
    /\ rollout.step \notin {"done", "failed"} => rollout.version \in Versions
    /\ rollout.step \in UploadSteps => plan \in UploadPlans
    /\ rollout.step \in InstallSteps => plan \in InstallPlans
    /\ rollout.step \in {"register", "await"} => plan \in UploadPlans \cup InstallPlans

Units == [python : {"none", "venv", "host"}, process : SUBSET Servers,
          ready : BOOLEAN, hand : SUBSET Servers]

LEMMA ServerTyped ==
    ASSUME RolloutOK
    PROVE  /\ machine.files # {} => ServerNow \in Servers
           /\ Cardinality({ServerNow}) = 1 /\ Cardinality({}) = 0
<1>1. machine.files \in SUBSET Versions /\ machine.torn \in BOOLEAN
  BY DEF RolloutOK, DeployTypeOK, Machines
<1>2. machine.files # {} => Code \in {Mixed} \cup Versions
  BY <1>1, NewestThere DEF Code
<1>3. machine.files # {} => ServerNow \in Servers
  BY <1>2 DEF ServerNow, Servers
<1>4. QED
  BY <1>3, FS_Singleton, FS_EmptySet

\* What a step beside the rollouts may do: the service is registered or not, its
\* process goes, or is a new one of the code that is there.
LEMMA BesideRollout ==
    ASSUME RolloutOK, ServiceNext
    PROVE  /\ desk' = desk /\ rollout' = rollout
           /\ machine' \in {machine, [machine EXCEPT !.evidence = TRUE]}
           /\ unit' \in Units
           /\ unit'.process \in {unit.process, {}, {ServerNow}}
           /\ unit'.hand \in {unit.hand, {}, {ServerNow}}
           /\ unit'.python = unit.python \/ unit'.python # "none"
           /\ unit'.process # {} => unit'.python # "none"
<1>0. unit \in Units /\ (unit.process # {} => unit.python # "none")
  BY DEF RolloutOK, DeployTypeOK, Units
<1>1. machine.files # {} => ServerNow \in Servers
  BY ServerTyped
<1>2. CASE Listen \/ ProcessDies \/ StopByHand \/ Work
  BY <1>0, <1>2 DEF Listen, ProcessDies, StopByHand, Work, Units
<1>3. CASE Revive
  BY <1>0, <1>1, <1>3 DEF Revive, CanRun, Units
<1>4. CASE ServeByHand
  BY <1>0, <1>1, <1>4 DEF ServeByHand, CanRun, Units
<1>5. CASE ServeInBackground
  <2>1. PICK p \in {"host", "venv"} : Register(p)
    BY <1>5 DEF ServeInBackground
  <2>2. ServerNow \in Servers
    BY <1>1, <2>1 DEF Register, CanRun
  <2>3. QED
    BY <1>0, <1>5, <2>1, <2>2 DEF ServeInBackground, Register, Restarted, Units
<1>6. QED
  BY <1>2, <1>3, <1>4, <1>5 DEF ServiceNext

LEMMA RegisterIs ==
    ASSUME RolloutOK, NEW p \in {"venv", "host"}, Register(p)
    PROVE  /\ unit' \in Units /\ unit'.python = p /\ unit'.process = {ServerNow}
           /\ unit'.hand = unit.hand
<1>1. unit \in Units
  BY DEF RolloutOK, DeployTypeOK, Units
<1>2. ServerNow \in Servers
  BY ServerTyped DEF Register, CanRun
<1>3. QED
  BY <1>1, <1>2 DEF Register, Restarted, Units

\* What a command that fails had done is a machine of this rollout or earlier.
LEMMA HalfDoneTyped ==
    ASSUME RolloutOK, HalfDone
    PROVE  machine' \in Machines /\ machine'.files \subseteq 1..rollout.version
<1>0. machine \in Machines /\ machine.files \subseteq 1..rollout.version
  BY DEF RolloutOK, DeployTypeOK
<1>1. ASSUME NEW v \in {FALSE, machine.venv}, NEW n \in {FALSE, machine.named},
             NEW d \in {None, machine.dist}, machine' = Swept(v, n, d)
      PROVE  machine' \in Machines /\ machine'.files = machine.files
  <2> DEFINE t == machine.files # {}
             e == machine.evidence /\ ~plan.wipe
  <2>1. /\ t \in BOOLEAN /\ e \in BOOLEAN
        /\ machine' = [machine EXCEPT !.torn = t, !.venv = v, !.named = n, !.dist = d,
                                      !.evidence = e]
    BY <1>1 DEF Swept
  <2> HIDE DEF t, e
  <2>2. v \in BOOLEAN /\ n \in BOOLEAN /\ d \in {None} \cup Versions
    BY <1>0 DEF Machines
  <2>3. QED
    BY ZenonT(40), <1>0, <2>1, <2>2 DEF Machines
<1>2. CASE AtStep("extract") /\ machine' = [machine EXCEPT !.torn = TRUE,
                            !.files = @ \cup {rollout.version}, !.named = FALSE]
  <2>1. rollout.version \in Versions /\ rollout.version \in 1..rollout.version
    BY <1>2, PlansKnown DEF RolloutOK, AtStep, Versions
  <2>2. QED
    BY <1>0, <1>2, <2>1 DEF Machines
<1>3. CASE \/ \E t \in {"none", "partial", "whole"} : machine' = [machine EXCEPT !.tree = t]
           \/ machine' = [machine EXCEPT !.venv = FALSE]
           \/ machine' = [machine EXCEPT !.deps = TRUE]
  BY <1>0, <1>3 DEF Machines
<1>4. QED
  BY <1>0, <1>1, <1>2, <1>3 DEF HalfDone

\* A step of a rollout that keeps the service, in terms of the machine.
LEMMA KeepsService ==
    ASSUME RolloutOK, unit' = unit, desk' \in {None} \cup Versions,
           machine' \in Machines, machine'.files \subseteq 1..rollout.version,
           NEW s \in Steps, OnTo(s),
           s \notin {"done", "failed"} => rollout.version \in Versions,
           s \in UploadSteps => plan \in UploadPlans,
           s \in InstallSteps => plan \in InstallPlans,
           s \in {"register", "await"} => plan \in UploadPlans \cup InstallPlans
    PROVE  RolloutOK'
<1> USE DEF plan
<1>1. rollout' = [rollout EXCEPT !.step = s]
  BY DEF OnTo
<1>2. /\ rollout' \in [step : Steps, version : 0..MaxRollouts, plan : Plans \cup {NoPlan},
                       before : Machines]
      /\ rollout'.step = s /\ rollout'.version = rollout.version /\ plan' = plan
  BY <1>1 DEF RolloutOK
<1> HIDE DEF OnTo
<1>3. DeployTypeOK'
  BY <1>2 DEF RolloutOK, DeployTypeOK, Servers, Machines, NoPlan
<1>4. QED
  BY <1>2, <1>3 DEF RolloutOK

LEMMA RolloutStays == RolloutOK /\ [DeployNext]_deployVars => RolloutOK'
<1> SUFFICES ASSUME RolloutOK, [DeployNext]_deployVars PROVE RolloutOK'
  OBVIOUS
<1> USE DEF plan
<1>0. /\ machine \in Machines /\ unit \in Units /\ desk \in {None} \cup Versions
      /\ machine.files \subseteq 1..rollout.version /\ rollout.version \in Nat
      /\ rollout \in [step : Steps, version : 0..MaxRollouts, plan : Plans \cup {NoPlan},
                      before : Machines]
      /\ Cardinality(unit.process) <= 1 /\ Cardinality(unit.hand) <= 1
  BY PlansKnown DEF RolloutOK, DeployTypeOK, Units
<1>1. CASE ServiceNext
  <2>1. /\ desk' = desk /\ rollout' = rollout
        /\ machine' \in {machine, [machine EXCEPT !.evidence = TRUE]}
        /\ unit' \in Units
        /\ unit'.process \in {unit.process, {}, {ServerNow}}
        /\ unit'.hand \in {unit.hand, {}, {ServerNow}}
        /\ unit'.process # {} => unit'.python # "none"
    BY <1>1, BesideRollout
  <2>2. machine' \in Machines /\ machine'.files = machine.files
    BY <1>0, <2>1 DEF Machines
  <2>3. Cardinality(unit'.process) <= 1 /\ Cardinality(unit'.hand) <= 1
    BY SMTT(30), <1>0, <2>1, ServerTyped
  <2>4. DeployTypeOK'
    BY <2>1, <2>2, <2>3 DEF RolloutOK, DeployTypeOK, Units
  <2>5. QED
    BY <2>1, <2>2, <2>4 DEF RolloutOK
<1>2. ASSUME NEW p \in Plans, BeginRollout(p) PROVE RolloutOK'
  <2>1. /\ rollout' = [step |-> IF p.kind = "upload" THEN "pack" ELSE "preflight",
                       version |-> rollout.version + 1, plan |-> p, before |-> machine]
        /\ UNCHANGED <<desk, machine, unit>> /\ rollout.version < MaxRollouts
    BY <1>2 DEF BeginRollout
  <2>2. \/ p \in UploadPlans /\ p.kind = "upload"
        \/ p \in InstallPlans /\ p.kind = "install"
    BY PlansKnown DEF UploadPlans, InstallPlans
  <2>3. /\ rollout.version + 1 \in Versions /\ rollout.version + 1 \in 0..MaxRollouts
        /\ machine.files \subseteq 1..(rollout.version + 1)
    BY <1>0, <2>1, PlansKnown DEF Versions
  <2>4. /\ rollout' \in [step : Steps, version : 0..MaxRollouts, plan : Plans \cup {NoPlan},
                         before : Machines]
        /\ rollout'.version = rollout.version + 1 /\ plan' = p
        /\ rollout'.step \in {"pack", "preflight"}
        /\ rollout'.step = "pack" => p \in UploadPlans
        /\ rollout'.step = "preflight" => p \in InstallPlans
    BY <1>0, <2>1, <2>2, <2>3 DEF Steps
  <2>5. DeployTypeOK'
    BY <2>1, <2>4 DEF RolloutOK, DeployTypeOK, NoPlan
  <2>6. QED
    BY <2>1, <2>3, <2>4, <2>5 DEF RolloutOK, UploadSteps, InstallSteps
<1>3. CASE RegisterService
  <2>1. /\ AtStep("register") /\ OnTo("await") /\ desk' = desk /\ machine' = machine
    BY <1>3 DEF RegisterService
  <2>2. PICK p \in {"venv", "host"} : Register(p)
    BY <1>3 DEF RegisterService
  <2>3. /\ unit' \in Units /\ unit'.python = p /\ unit'.process = {ServerNow}
        /\ unit'.hand = unit.hand
    BY <2>2, RegisterIs
  <2>4. /\ rollout' = [rollout EXCEPT !.step = "await"]
        /\ rollout' \in [step : Steps, version : 0..MaxRollouts, plan : Plans \cup {NoPlan},
                         before : Machines]
        /\ rollout'.step = "await" /\ rollout'.version = rollout.version /\ plan' = plan
    BY <1>0, <2>1 DEF OnTo, Steps
  <2>5. Cardinality(unit'.process) <= 1 /\ Cardinality(unit'.hand) <= 1
    BY <1>0, <2>3, ServerTyped
  <2>6. DeployTypeOK'
    BY <2>1, <2>3, <2>4, <2>5 DEF RolloutOK, DeployTypeOK, Units, NoPlan
  <2>7. QED
    BY <2>1, <2>3, <2>4, <2>6 DEF RolloutOK, AtStep, UploadSteps, InstallSteps
<1>4. CASE Fail
  <2>1. /\ OnTo("failed") /\ unit' = unit /\ desk' \in {desk, None}
        /\ machine' = machine \/ HalfDone
    BY <1>4 DEF Fail
  <2>2. machine' \in Machines /\ machine'.files \subseteq 1..rollout.version
    BY <1>0, <2>1, HalfDoneTyped
  <2>3. "failed" \in Steps /\ "failed" \notin UploadSteps \cup InstallSteps
    BY DEF Steps, UploadSteps, InstallSteps
  <2>4. QED
    BY <1>0, <2>1, <2>2, <2>3, KeepsService
<1>5. CASE UNCHANGED deployVars
  BY <1>5 DEF deployVars, RolloutOK, DeployTypeOK
<1>6. CASE Pack \/ Clean \/ Extract \/ Reconcile \/ Prepare \/ MakeVenv \/ SkipInstall
           \/ AwaitReady \/ CheckInstall \/ SmokeCheck \/ Preflight \/ Deploy
  <2>1. /\ unit' = unit /\ rollout.version \in Versions
        /\ rollout.version \in 1..rollout.version
    BY <1>0, <1>6, PlansKnown DEF Pack, Clean, Extract, Reconcile, Prepare, MakeVenv,
       SkipInstall, AwaitReady, CheckInstall, SmokeCheck, Preflight, Deploy, AtStep, RolloutOK,
       Versions
  <2>2. desk' \in {None} \cup Versions
    BY <1>0, <1>6, <2>1 DEF Pack, Clean, Extract, Reconcile, Prepare, MakeVenv,
       SkipInstall, AwaitReady, CheckInstall, SmokeCheck, Preflight, Deploy
  <2>3. CASE Clean
    <3>1. machine' \in Machines /\ machine'.files \subseteq 1..rollout.version
      <4>1. CASE ~plan.clean
        BY <1>0, <2>3, <4>1 DEF Clean
      <4>2. CASE plan.clean
        <5> DEFINE e == machine.evidence /\ ~plan.wipe
        <5>1. /\ e \in BOOLEAN
              /\ machine' = [machine EXCEPT !.files = {}, !.torn = FALSE, !.dist = None,
                                       !.venv = FALSE, !.named = FALSE, !.evidence = e]
          BY <2>3, <4>2 DEF Clean
        <5> HIDE DEF e
        <5>2. QED
          BY <1>0, <5>1 DEF Machines
      <4>3. QED
        BY <4>1, <4>2
    <3>2. AtStep("clean") /\ OnTo("extract")
      BY <2>3 DEF Clean
    <3>3. plan \in UploadPlans
      BY <3>2 DEF AtStep, RolloutOK, UploadSteps
    <3>4. QED
      BY <2>1, <2>2, <3>1, <3>2, <3>3, KeepsService DEF Steps, UploadSteps, InstallSteps
  <2>4. CASE ~Clean
    <3>1. machine' \in Machines /\ machine'.files \subseteq 1..rollout.version
      <4>1. CASE Extract
        BY <1>0, <2>1, <4>1 DEF Extract, Machines
      <4>2. CASE Reconcile
        BY <1>0, <4>2 DEF Reconcile, Machines
      <4>3. CASE Prepare
        BY ZenonT(40), <1>0, <4>3 DEF Prepare, Machines
      <4>4. CASE MakeVenv \/ Deploy
        BY <1>0, <4>4 DEF MakeVenv, Deploy, Machines
      <4>5. CASE Pack \/ SkipInstall \/ AwaitReady \/ CheckInstall \/ SmokeCheck \/ Preflight
        BY <1>0, <4>5 DEF Pack, SkipInstall, AwaitReady, CheckInstall, SmokeCheck, Preflight
      <4>6. QED
        BY <1>6, <2>4, <4>1, <4>2, <4>3, <4>4, <4>5
    <3>2. CASE Pack \/ Extract \/ Reconcile \/ Prepare
      <4>1. \E s \in {"clean", "reconcile", "prepare", "install"} : OnTo(s)
        BY <3>2 DEF Pack, Extract, Reconcile, Prepare
      <4>2. plan \in UploadPlans
        BY <3>2 DEF Pack, Extract, Reconcile, Prepare, AtStep, RolloutOK, UploadSteps
      <4>3. QED
        BY <2>1, <2>2, <3>1, <4>1, <4>2, KeepsService DEF Steps, UploadSteps, InstallSteps
    <3>3. CASE MakeVenv \/ SkipInstall \/ CheckInstall \/ SmokeCheck
      <4>1. \E s \in {"register", "smoke", "done"} : OnTo(s)
        BY <3>3 DEF MakeVenv, SkipInstall, CheckInstall, SmokeCheck
      <4>2. plan \in UploadPlans
        BY <3>3 DEF MakeVenv, SkipInstall, CheckInstall, SmokeCheck, AtStep, RolloutOK,
           UploadSteps
      <4>3. QED
        BY <2>1, <2>2, <3>1, <4>1, <4>2, KeepsService DEF Steps, UploadSteps, InstallSteps
    <3>4. CASE Preflight \/ Deploy
      <4>1. \E s \in {"done", "deploy", "register"} : OnTo(s)
        BY <3>4 DEF Preflight, Deploy
      <4>2. plan \in InstallPlans
        BY <3>4 DEF Preflight, Deploy, AtStep, RolloutOK, InstallSteps
      <4>3. QED
        BY <2>1, <2>2, <3>1, <4>1, <4>2, KeepsService DEF Steps, UploadSteps, InstallSteps
    <3>5. CASE AwaitReady
      <4>1. OnTo("done") \/ (OnTo("check") /\ plan.kind = "upload")
        BY <3>5 DEF AwaitReady
      <4>2. plan \in UploadPlans \cup InstallPlans
        BY <3>5 DEF AwaitReady, AtStep, RolloutOK
      <4>3. plan.kind = "upload" => plan \in UploadPlans
        BY <4>2 DEF UploadPlans, InstallPlans
      <4>4. QED
        BY <2>1, <2>2, <3>1, <4>1, <4>2, <4>3, KeepsService DEF Steps, UploadSteps, InstallSteps
    <3>6. QED
      BY <1>6, <2>4, <3>2, <3>3, <3>4, <3>5
  <2>5. QED
    BY <2>3, <2>4
<1>7. QED
  BY <1>1, <1>2, <1>3, <1>4, <1>5, <1>6 DEF DeployNext, RolloutNext

LEMMA RolloutStarts == DeployInit => RolloutOK
<1> SUFFICES ASSUME DeployInit PROVE RolloutOK
  OBVIOUS
<1>1. NewMachine \in Machines
  BY DEF NewMachine, Machines, None
<1>2. machine \in Machines /\ machine.files = {}
  <2>1. PICK d \in BOOLEAN : machine = [NewMachine EXCEPT !.deps = d]
    BY DEF DeployInit
  <2>2. QED
    BY <1>1, <2>1 DEF Machines, NewMachine
<1>3. /\ rollout \in [step : Steps, version : 0..MaxRollouts, plan : Plans \cup {NoPlan},
                      before : Machines]
      /\ plan = NoPlan /\ rollout.step = "done" /\ rollout.version \in 0..MaxRollouts
      /\ desk \in {None} \cup Versions
  BY <1>1, PlansKnown DEF DeployInit, NoPlan, Steps, plan
<1>4. /\ unit \in Units /\ unit.process = {} /\ unit.hand = {}
  BY DEF DeployInit, Units
<1>5. Cardinality({}) = 0
  BY FS_EmptySet
<1>6. DeployTypeOK
  BY <1>2, <1>4, <1>5, <1>3 DEF DeployTypeOK, Units, NoPlan
<1>7. QED
  BY <1>2, <1>4, <1>3, <1>6 DEF RolloutOK, UploadSteps, InstallSteps

DeploySpec == DeployInit /\ [][DeployNext]_deployVars

\* Whatever rollouts follow one another, there is never more than one process of
\* the service and one served by hand, and a process runs code that was there.
THEOREM DeployTyping == DeploySpec => []DeployTypeOK
<1>1. RolloutOK => DeployTypeOK
  BY DEF RolloutOK
<1>2. QED
  BY <1>1, RolloutStarts, RolloutStays, PTL DEF DeploySpec

----------------------------------------------------------------------------
(* What a rollout has done by the step it is at *)

\* The service was registered, and who runs in it runs what is there.
Serves ==
    /\ unit.python # "none"
    /\ \A p \in unit.process : p.runs = Code /\ p.console = (machine.dist # None)

Extracted ==
    {"reconcile", "prepare", "install", "register", "await", "check", "smoke", "done"}

Reconciled == Extracted \ {"reconcile"}

TreePrepared == Reconciled \ {"prepare"}

\* What an upload has done: to the code, ...
CodeUploaded(step) ==
    /\ step \in {"pack", "clean", "extract"} => rollout.version \notin machine.files
    /\ step = "extract" /\ plan.clean => machine.files = {}
    /\ step \in {"clean", "extract"} /\ plan.frontend => desk = rollout.version
    /\ step \in Extracted =>
          /\ rollout.version \in machine.files /\ ~machine.torn
          /\ plan.clean => machine.files = {rollout.version}
          /\ plan.frontend => machine.dist = rollout.version

\* ... to the evidence and the tree, ...
TreeUploaded(step) ==
    /\ step # "failed" =>
          (rollout.before.evidence => machine.evidence \/ (plan.clean /\ plan.wipe))
    /\ step \in Reconciled => (machine.tree = "whole" => machine.named)
    /\ step \in TreePrepared => (plan.prepare => machine.named)

\* ... and to the service.
ServiceUploaded(step) ==
    /\ step \in {"register", "await", "check"} => plan.install /\ machine.venv
    /\ step \in {"await", "check"} => Serves
    /\ step \in {"smoke", "done"} /\ plan.install =>
          machine.venv /\ machine.dist # None /\ Serves
    /\ step = "done" /\ plan.smoke =>
          machine.venv /\ machine.dist # None /\ unit.python # "none"

Uploading ==
    plan.kind = "upload" =>
        /\ rollout.step \notin InstallSteps
        /\ CodeUploaded(rollout.step)
        /\ TreeUploaded(rollout.step)
        /\ ServiceUploaded(rollout.step)

Installing ==
    plan.kind = "install" =>
        /\ rollout.step \notin UploadSteps
        /\ rollout.step = "preflight" \/ (rollout.step = "done" /\ plan.dry) =>
              [machine EXCEPT !.evidence = FALSE] = [rollout.before EXCEPT !.evidence = FALSE]
        /\ rollout.step \in {"deploy", "register", "await"} => ~plan.dry
        /\ rollout.step = "await" => Serves
        /\ rollout.step = "done" /\ ~plan.dry /\ plan.service => Serves

----------------------------------------------------------------------------
(* The service leaves that alone *)

\* Evidence may come; the rest of the machine is as it was.
LEMMA CodeStays ==
    ASSUME RolloutOK, ServiceNext
    PROVE  /\ machine'.files = machine.files /\ machine'.torn = machine.torn
           /\ machine'.dist = machine.dist /\ machine'.venv = machine.venv
           /\ machine'.tree = machine.tree /\ machine'.named = machine.named
           /\ machine'.deps = machine.deps
           /\ Code' = Code
           /\ machine.evidence => machine'.evidence
           /\ [machine' EXCEPT !.evidence = FALSE] = [machine EXCEPT !.evidence = FALSE]
<1>1. machine \in Machines /\ machine' \in {machine, [machine EXCEPT !.evidence = TRUE]}
  BY BesideRollout DEF RolloutOK, DeployTypeOK
<1>2. QED
  BY <1>1 DEF Machines, Code

\* Whoever is started beside the rollout runs the code that is there.
LEMMA ServesOn == RolloutOK /\ ServiceNext /\ Serves => Serves'
<1> SUFFICES ASSUME RolloutOK, ServiceNext, Serves PROVE Serves'
  OBVIOUS
<1>1. /\ unit'.process \in {unit.process, {}, {ServerNow}}
      /\ unit'.python = unit.python \/ unit'.python # "none"
  BY BesideRollout
<1>2. Code' = Code /\ machine'.dist = machine.dist
  BY CodeStays
<1>3. \A p \in unit'.process : p.runs = Code /\ p.console = (machine.dist # None)
  BY <1>1 DEF Serves, ServerNow
<1>4. QED
  BY <1>1, <1>2, <1>3 DEF Serves

LEMMA UploadingBeside == RolloutOK /\ ServiceNext /\ Uploading => Uploading'
<1> SUFFICES ASSUME RolloutOK, ServiceNext, Uploading, plan.kind = "upload"
             PROVE  Uploading'
  BY BesideRollout DEF Uploading, plan
<1> USE DEF plan
<1>1. /\ rollout' = rollout /\ desk' = desk
      /\ unit'.python = unit.python \/ unit'.python # "none"
  BY BesideRollout
<1>2. /\ machine'.files = machine.files /\ machine'.torn = machine.torn
      /\ machine'.dist = machine.dist /\ machine'.venv = machine.venv
      /\ machine'.tree = machine.tree /\ machine'.named = machine.named
      /\ machine.evidence => machine'.evidence
  BY CodeStays
<1>3. CodeUploaded(rollout.step)'
  BY <1>1, <1>2 DEF Uploading, CodeUploaded
<1>4. TreeUploaded(rollout.step)'
  BY <1>1, <1>2 DEF Uploading, TreeUploaded
<1>5. ServiceUploaded(rollout.step)'
  BY <1>1, <1>2, ServesOn DEF Uploading, ServiceUploaded
<1>6. QED
  BY <1>1, <1>3, <1>4, <1>5 DEF Uploading

LEMMA InstallingBeside == RolloutOK /\ ServiceNext /\ Installing => Installing'
<1> SUFFICES ASSUME RolloutOK, ServiceNext, Installing, plan.kind = "install"
             PROVE  Installing'
  BY BesideRollout DEF Installing, plan
<1> USE DEF plan
<1>1. rollout' = rollout
  BY BesideRollout
<1>2. [machine' EXCEPT !.evidence = FALSE] = [machine EXCEPT !.evidence = FALSE]
  BY CodeStays
<1>3. QED
  BY <1>1, <1>2, ServesOn DEF Installing

----------------------------------------------------------------------------
(* An upload, command by command *)

\* What stays as it is in a step that only goes on.
LEMMA OnToIs ==
    ASSUME RolloutOK, NEW s \in Steps, OnTo(s)
    PROVE  /\ rollout'.step = s /\ rollout'.version = rollout.version
           /\ rollout'.plan = rollout.plan /\ rollout'.before = rollout.before
BY DEF RolloutOK, OnTo

LEMMA UploadingBegins ==
    ASSUME RolloutOK, NEW p \in Plans, BeginRollout(p)
    PROVE  Uploading' /\ Installing'
<1> USE DEF plan
<1>1. /\ rollout'.step = IF p.kind = "upload" THEN "pack" ELSE "preflight"
      /\ rollout'.version = rollout.version + 1 /\ rollout'.plan = p
      /\ rollout'.before = machine
      /\ machine' = machine
  BY DEF BeginRollout
<1>2. rollout.version + 1 \notin machine.files
  BY PlansKnown DEF RolloutOK
<1>3. Uploading'
  <2> SUFFICES ASSUME p.kind = "upload" PROVE Uploading'
    BY <1>1 DEF Uploading
  <2>1. rollout'.step = "pack"
    BY <1>1
  <2>2. CodeUploaded(rollout.step)'
    BY <1>1, <1>2, <2>1 DEF CodeUploaded, Extracted
  <2>3. TreeUploaded(rollout.step)'
    BY <1>1, <2>1 DEF TreeUploaded, Reconciled, TreePrepared, Extracted
  <2>4. ServiceUploaded(rollout.step)'
    BY <2>1 DEF ServiceUploaded
  <2>5. QED
    BY <2>1, <2>2, <2>3, <2>4 DEF Uploading, InstallSteps
<1>4. Installing'
  <2> SUFFICES ASSUME p.kind = "install" PROVE Installing'
    BY <1>1 DEF Installing
  <2>1. rollout'.step = "preflight"
    BY <1>1
  <2>2. QED
    BY <1>1, <2>1 DEF Installing, UploadSteps
<1>5. QED
  BY <1>3, <1>4

LEMMA UploadingPack == RolloutOK /\ Uploading /\ Pack => Uploading'
<1> SUFFICES ASSUME RolloutOK, Uploading, Pack PROVE Uploading'
  OBVIOUS
<1> USE DEF plan
<1>1. /\ rollout.step = "pack" /\ rollout'.step = "clean"
      /\ rollout'.version = rollout.version /\ rollout'.plan = rollout.plan
      /\ rollout'.before = rollout.before
      /\ desk' = (IF plan.frontend THEN rollout.version ELSE desk)
      /\ machine' = machine
  BY OnToIs DEF Pack, AtStep, Steps
<1>2. plan.kind = "upload"
  BY <1>1 DEF RolloutOK, UploadSteps, UploadPlans
<1>3. CodeUploaded(rollout.step)'
  BY <1>1, <1>2 DEF Uploading, CodeUploaded, Extracted
<1>4. TreeUploaded(rollout.step)'
  BY <1>1, <1>2 DEF Uploading, TreeUploaded, Reconciled, TreePrepared, Extracted
<1>5. ServiceUploaded(rollout.step)'
  BY <1>1 DEF ServiceUploaded
<1>6. QED
  BY <1>1, <1>3, <1>4, <1>5 DEF Uploading, InstallSteps

LEMMA UploadingClean == RolloutOK /\ Uploading /\ Clean => Uploading'
<1> SUFFICES ASSUME RolloutOK, Uploading, Clean PROVE Uploading'
  OBVIOUS
<1> USE DEF plan
<1>1. /\ rollout.step = "clean" /\ rollout'.step = "extract"
      /\ rollout'.version = rollout.version /\ rollout'.plan = rollout.plan
      /\ rollout'.before = rollout.before /\ desk' = desk
  BY OnToIs DEF Clean, AtStep, Steps
<1>2. plan.kind = "upload"
  BY <1>1 DEF RolloutOK, UploadSteps, UploadPlans
<1>3. /\ machine'.files = (IF plan.clean THEN {} ELSE machine.files)
      /\ machine.evidence => machine'.evidence \/ (plan.clean /\ plan.wipe)
  <2>1. CASE ~plan.clean
    BY <2>1 DEF Clean
  <2>2. CASE plan.clean
    BY <2>2 DEF Clean, RolloutOK, DeployTypeOK, Machines
  <2>3. QED
    BY <2>1, <2>2
<1>4. CodeUploaded(rollout.step)'
  BY <1>1, <1>2, <1>3 DEF Uploading, CodeUploaded, Extracted
<1>5. TreeUploaded(rollout.step)'
  BY <1>1, <1>2, <1>3 DEF Uploading, TreeUploaded, Reconciled, TreePrepared, Extracted
<1>6. ServiceUploaded(rollout.step)'
  BY <1>1 DEF ServiceUploaded
<1>7. QED
  BY <1>1, <1>4, <1>5, <1>6 DEF Uploading, InstallSteps

LEMMA UploadingExtract == RolloutOK /\ Uploading /\ Extract => Uploading'
<1> SUFFICES ASSUME RolloutOK, Uploading, Extract PROVE Uploading'
  OBVIOUS
<1> USE DEF plan
<1>1. /\ rollout.step = "extract" /\ rollout'.step = "reconcile"
      /\ rollout'.version = rollout.version /\ rollout'.plan = rollout.plan
      /\ rollout'.before = rollout.before /\ desk' = desk
  BY OnToIs DEF Extract, AtStep, Steps
<1>2. plan.kind = "upload" /\ rollout.version \in Versions
  BY <1>1 DEF RolloutOK, UploadSteps, UploadPlans
<1>3. /\ machine'.files = machine.files \cup {rollout.version} /\ ~machine'.torn
      /\ machine'.dist = (IF desk = None THEN machine.dist ELSE desk)
      /\ machine'.evidence = machine.evidence
  BY DEF Extract, RolloutOK, DeployTypeOK, Machines
<1>4. CodeUploaded(rollout.step)'
  BY <1>1, <1>2, <1>3, PlansKnown DEF Uploading, CodeUploaded, Extracted, None, Versions
<1>5. TreeUploaded(rollout.step)'
  BY <1>1, <1>2, <1>3 DEF Uploading, TreeUploaded, Reconciled, TreePrepared, Extracted
<1>6. ServiceUploaded(rollout.step)'
  BY <1>1 DEF ServiceUploaded
<1>7. QED
  BY <1>1, <1>4, <1>5, <1>6 DEF Uploading, InstallSteps

LEMMA UploadingReconcile == RolloutOK /\ Uploading /\ Reconcile => Uploading'
<1> SUFFICES ASSUME RolloutOK, Uploading, Reconcile PROVE Uploading'
  OBVIOUS
<1> USE DEF plan
<1>1. /\ rollout.step = "reconcile" /\ rollout'.step = "prepare"
      /\ rollout'.version = rollout.version /\ rollout'.plan = rollout.plan
      /\ rollout'.before = rollout.before /\ desk' = desk
  BY OnToIs DEF Reconcile, AtStep, Steps
<1>2. plan.kind = "upload"
  BY <1>1 DEF RolloutOK, UploadSteps, UploadPlans
<1>3. /\ machine'.files = machine.files /\ machine'.torn = machine.torn
      /\ machine'.dist = machine.dist /\ machine'.evidence = machine.evidence
      /\ machine'.tree = machine.tree
      /\ machine.tree = "whole" => machine'.named
  <2>1. PICK ready \in BOOLEAN : /\ machine.tree = "whole" => ready
                                /\ machine' = [machine EXCEPT !.named = ready]
    BY DEF Reconcile
  <2>2. QED
    BY <2>1 DEF RolloutOK, DeployTypeOK, Machines
<1>4. CodeUploaded(rollout.step)'
  BY <1>1, <1>2, <1>3 DEF Uploading, CodeUploaded, Extracted
<1>5. TreeUploaded(rollout.step)'
  BY <1>1, <1>2, <1>3 DEF Uploading, TreeUploaded, Reconciled, TreePrepared, Extracted
<1>6. ServiceUploaded(rollout.step)'
  BY <1>1 DEF ServiceUploaded
<1>7. QED
  BY <1>1, <1>4, <1>5, <1>6 DEF Uploading, InstallSteps

LEMMA UploadingPrepare == RolloutOK /\ Uploading /\ Prepare => Uploading'
<1> SUFFICES ASSUME RolloutOK, Uploading, Prepare PROVE Uploading'
  OBVIOUS
<1> USE DEF plan
<1>1. /\ rollout.step = "prepare" /\ rollout'.step = "install"
      /\ rollout'.version = rollout.version /\ rollout'.plan = rollout.plan
      /\ rollout'.before = rollout.before /\ desk' = desk
  BY OnToIs DEF Prepare, AtStep, Steps
<1>2. plan.kind = "upload"
  BY <1>1 DEF RolloutOK, UploadSteps, UploadPlans
<1>3. /\ machine'.files = machine.files /\ machine'.torn = machine.torn
      /\ machine'.dist = machine.dist /\ machine'.evidence = machine.evidence
      /\ IF plan.prepare THEN machine'.named
         ELSE machine'.tree = machine.tree /\ machine'.named = machine.named
  BY DEF Prepare, RolloutOK, DeployTypeOK, Machines
<1>4. CodeUploaded(rollout.step)'
  BY <1>1, <1>2, <1>3 DEF Uploading, CodeUploaded, Extracted
<1>5. TreeUploaded(rollout.step)'
  BY <1>1, <1>2, <1>3 DEF Uploading, TreeUploaded, Reconciled, TreePrepared, Extracted
<1>6. ServiceUploaded(rollout.step)'
  BY <1>1 DEF ServiceUploaded
<1>7. QED
  BY <1>1, <1>4, <1>5, <1>6 DEF Uploading, InstallSteps

LEMMA UploadingVenv == RolloutOK /\ Uploading /\ MakeVenv => Uploading'
<1> SUFFICES ASSUME RolloutOK, Uploading, MakeVenv PROVE Uploading'
  OBVIOUS
<1> USE DEF plan
<1>1. /\ rollout.step = "install" /\ rollout'.step = "register" /\ plan.install
      /\ rollout'.version = rollout.version /\ rollout'.plan = rollout.plan
      /\ rollout'.before = rollout.before /\ desk' = desk
  BY OnToIs DEF MakeVenv, AtStep, Steps
<1>2. plan.kind = "upload"
  BY <1>1 DEF RolloutOK, UploadSteps, UploadPlans
<1>3. /\ machine'.files = machine.files /\ machine'.torn = machine.torn
      /\ machine'.dist = machine.dist /\ machine'.evidence = machine.evidence
      /\ machine'.tree = machine.tree /\ machine'.named = machine.named
      /\ machine'.venv
  BY DEF MakeVenv, RolloutOK, DeployTypeOK, Machines
<1>4. CodeUploaded(rollout.step)'
  BY <1>1, <1>2, <1>3 DEF Uploading, CodeUploaded, Extracted
<1>5. TreeUploaded(rollout.step)'
  BY <1>1, <1>2, <1>3 DEF Uploading, TreeUploaded, Reconciled, TreePrepared, Extracted
<1>6. ServiceUploaded(rollout.step)'
  BY <1>1, <1>3 DEF ServiceUploaded
<1>7. QED
  BY <1>1, <1>4, <1>5, <1>6 DEF Uploading, InstallSteps

\* The steps that only look, and the one that there is nothing to do in.
LEMMA UploadingLooks ==
    RolloutOK /\ Uploading /\ (SkipInstall \/ AwaitReady \/ CheckInstall \/ SmokeCheck)
    => Uploading'
<1> SUFFICES ASSUME RolloutOK, Uploading, plan.kind = "upload",
                    SkipInstall \/ AwaitReady \/ CheckInstall \/ SmokeCheck
             PROVE  Uploading'
  BY OnToIs DEF SkipInstall, AwaitReady, CheckInstall, SmokeCheck, Uploading, plan, Steps
<1> USE DEF plan
<1>1. /\ rollout'.version = rollout.version /\ rollout'.plan = rollout.plan
      /\ rollout'.before = rollout.before /\ desk' = desk
      /\ machine' = machine /\ unit' = unit
      /\ \/ rollout.step = "install" /\ ~plan.install /\ rollout'.step = "smoke"
         \/ rollout.step = "await" /\ rollout'.step = "check"
         \/ rollout.step = "check" /\ machine.dist # None /\ rollout'.step = "smoke"
         \/ rollout.step = "smoke" /\ rollout'.step = "done"
  BY OnToIs DEF SkipInstall, AwaitReady, CheckInstall, SmokeCheck, AtStep, Steps
<1>2. Code' = Code
  BY <1>1 DEF Code
<1>3. CodeUploaded(rollout.step)'
  BY <1>1 DEF Uploading, CodeUploaded, Extracted
<1>4. TreeUploaded(rollout.step)'
  BY <1>1 DEF Uploading, TreeUploaded, Reconciled, TreePrepared, Extracted
<1>5. ServiceUploaded(rollout.step)'
  <2>1. Serves' = Serves
    BY <1>1, <1>2 DEF Serves
  <2>2. CASE rollout'.step # "done"
    BY <1>1, <2>1, <2>2 DEF Uploading, ServiceUploaded
  <2>3. CASE rollout'.step = "done"
    <3>1. SmokeCheck
      BY <2>3, OnToIs DEF SkipInstall, AwaitReady, CheckInstall, Steps
    <3>2. plan.smoke => unit.process # {} /\ machine.venv /\ machine.dist # None
      BY <3>1 DEF SmokeCheck
    <3>3. QED
      BY <1>1, <2>1, <2>3, <3>2 DEF Uploading, ServiceUploaded, RolloutOK
  <2>4. QED
    BY <2>2, <2>3
<1>6. QED
  BY <1>1, <1>3, <1>4, <1>5 DEF Uploading, InstallSteps

\* The old process goes; the new one runs what was extracted.
LEMMA RegisterServes ==
    ASSUME RolloutOK, RegisterService
    PROVE  /\ rollout.step = "register" /\ rollout'.step = "await"
           /\ rollout'.version = rollout.version /\ rollout'.plan = rollout.plan
           /\ rollout'.before = rollout.before /\ desk' = desk /\ machine' = machine
           /\ Serves'
<1>1. /\ rollout.step = "register" /\ rollout'.step = "await"
      /\ rollout'.version = rollout.version /\ rollout'.plan = rollout.plan
      /\ rollout'.before = rollout.before /\ desk' = desk /\ machine' = machine
  BY OnToIs DEF RegisterService, AtStep, Steps
<1>2. PICK p \in {"venv", "host"} : Register(p)
  BY DEF RegisterService
<1>3. unit'.python = p /\ unit'.process = {ServerNow}
  BY <1>2, RegisterIs
<1>4. Code' = Code
  BY <1>1 DEF Code
<1>5. Serves'
  BY <1>1, <1>3, <1>4 DEF Serves, ServerNow
<1>6. QED
  BY <1>1, <1>5

LEMMA UploadingRegister == RolloutOK /\ Uploading /\ RegisterService => Uploading'
<1> SUFFICES ASSUME RolloutOK, Uploading, RegisterService, plan.kind = "upload"
             PROVE  Uploading'
  BY RegisterServes DEF Uploading, plan
<1> USE DEF plan
<1>1. CodeUploaded(rollout.step)'
  BY RegisterServes DEF Uploading, CodeUploaded, Extracted
<1>2. TreeUploaded(rollout.step)'
  BY RegisterServes DEF Uploading, TreeUploaded, Reconciled, TreePrepared, Extracted
<1>3. ServiceUploaded(rollout.step)'
  BY RegisterServes DEF Uploading, ServiceUploaded
<1>4. QED
  BY <1>1, <1>2, <1>3, RegisterServes DEF Uploading, InstallSteps

LEMMA UploadingStays ==
    RolloutOK /\ Uploading /\ [DeployNext]_deployVars => Uploading'
<1> SUFFICES ASSUME RolloutOK, Uploading, [DeployNext]_deployVars PROVE Uploading'
  OBVIOUS
<1>1. CASE ServiceNext
  BY <1>1, UploadingBeside
<1>2. CASE \E p \in Plans : BeginRollout(p)
  BY <1>2, UploadingBegins
<1>3. CASE Pack \/ Clean \/ Extract \/ Reconcile \/ Prepare
  BY <1>3, UploadingPack, UploadingClean, UploadingExtract, UploadingReconcile,
     UploadingPrepare
<1>4. CASE \/ MakeVenv \/ SkipInstall \/ RegisterService
           \/ AwaitReady \/ CheckInstall \/ SmokeCheck
  BY <1>4, UploadingVenv, UploadingRegister, UploadingLooks
<1>5. CASE Preflight \/ Deploy
  <2>1. plan.kind = "install" /\ plan' = plan
    BY <1>5, OnToIs DEF Preflight, Deploy, AtStep, RolloutOK, InstallSteps, InstallPlans,
       Steps, plan
  <2>2. QED
    BY <2>1 DEF Uploading
<1>6. CASE Fail
  <2>1. rollout'.step = "failed"
    BY <1>6, OnToIs DEF Fail, Steps
  <2>2. QED
    BY <2>1 DEF Uploading, InstallSteps, CodeUploaded, TreeUploaded, ServiceUploaded,
       Extracted, Reconciled, TreePrepared
<1>7. CASE UNCHANGED deployVars
  <2>1. UNCHANGED <<desk, machine, unit, rollout>>
    BY <1>7 DEF deployVars
  <2>2. Code' = Code
    BY <2>1 DEF Code
  <2>3. QED
    BY <2>1, <2>2 DEF Uploading, CodeUploaded, TreeUploaded, ServiceUploaded, Serves, plan
<1>8. QED
  BY <1>1, <1>2, <1>3, <1>4, <1>5, <1>6, <1>7 DEF DeployNext, RolloutNext

----------------------------------------------------------------------------
(* An installation, and what both come to *)

LEMMA InstallingStays ==
    RolloutOK /\ Installing /\ [DeployNext]_deployVars => Installing'
<1> SUFFICES ASSUME RolloutOK, Installing, [DeployNext]_deployVars PROVE Installing'
  OBVIOUS
<1> USE DEF plan
<1>1. CASE ServiceNext
  BY <1>1, InstallingBeside
<1>2. CASE \E p \in Plans : BeginRollout(p)
  BY <1>2, UploadingBegins
<1>3. CASE \/ Pack \/ Clean \/ Extract \/ Reconcile \/ Prepare
           \/ MakeVenv \/ SkipInstall \/ CheckInstall \/ SmokeCheck
  <2>1. /\ rollout.step \in UploadSteps
        /\ \E s \in Steps : OnTo(s)
    BY <1>3 DEF Pack, Clean, Extract, Reconcile, Prepare, MakeVenv, SkipInstall, CheckInstall,
       SmokeCheck, AtStep, UploadSteps, Steps
  <2>2. plan.kind = "upload" /\ plan' = plan
    BY <2>1, OnToIs DEF RolloutOK, UploadPlans
  <2>3. QED
    BY <2>2 DEF Installing
<1>4. CASE Preflight
  <2>1. /\ rollout.step = "preflight" /\ machine' = machine
        /\ rollout'.step = (IF plan.dry THEN "done" ELSE "deploy")
        /\ rollout'.plan = rollout.plan /\ rollout'.before = rollout.before
    BY <1>4, OnToIs DEF Preflight, AtStep, Steps
  <2>2. QED
    BY <2>1 DEF Installing, UploadSteps
<1>5. CASE Deploy
  <2>1. /\ rollout.step = "deploy" /\ rollout'.plan = rollout.plan
        /\ rollout'.step = (IF plan.service THEN "register" ELSE "done")
    BY <1>5, OnToIs DEF Deploy, AtStep, Steps
  <2>2. QED
    BY <2>1 DEF Installing, UploadSteps
<1>6. CASE RegisterService
  BY <1>6, RegisterServes DEF Installing, UploadSteps
<1>7. CASE AwaitReady
  <2>1. /\ rollout.step = "await" /\ machine' = machine /\ unit' = unit
        /\ plan.kind = "install" => rollout'.step = "done"
        /\ rollout'.plan = rollout.plan
    BY <1>7, OnToIs DEF AwaitReady, AtStep, Steps
  <2>2. Code' = Code
    BY <2>1 DEF Code
  <2>3. QED
    BY <2>1, <2>2 DEF Installing, UploadSteps, Serves
<1>8. CASE Fail
  <2>1. rollout'.step = "failed"
    BY <1>8, OnToIs DEF Fail, Steps
  <2>2. QED
    BY <2>1 DEF Installing, UploadSteps
<1>9. CASE UNCHANGED deployVars
  <2>1. UNCHANGED <<desk, machine, unit, rollout>>
    BY <1>9 DEF deployVars
  <2>2. Code' = Code
    BY <2>1 DEF Code
  <2>3. QED
    BY <2>1, <2>2 DEF Installing, Serves
<1>10. QED
  BY <1>1, <1>2, <1>3, <1>4, <1>5, <1>6, <1>7, <1>8, <1>9 DEF DeployNext, RolloutNext

\* The newest of the versions there is the one that was just uploaded.
LEMMA CodeIsNew ==
    ASSUME RolloutOK, rollout.version \in machine.files, ~machine.torn
    PROVE  Code = rollout.version
<1>1. machine.files \in SUBSET Versions /\ machine.files # {}
      /\ machine.files \subseteq 1..rollout.version /\ rollout.version \in Nat
  BY PlansKnown DEF RolloutOK, DeployTypeOK, Machines
<1>2. Max(machine.files) \in machine.files /\ Max(machine.files) >= rollout.version
  BY <1>1, NewestThere
<1>3. Max(machine.files) = rollout.version
  BY <1>1, <1>2
<1>4. QED
  BY <1>3 DEF Code

LEMMA ReadyThen == RolloutOK /\ Uploading /\ Installing => MachineReady
<1> SUFFICES ASSUME RolloutOK, Uploading, Installing, rollout.step = "done"
             PROVE  MachineReady
  BY DEF MachineReady, AtStep
<1> USE DEF plan
<1>1. ASSUME plan.kind = "upload" PROVE UploadLanded
  <2>1. CodeUploaded("done") /\ TreeUploaded("done") /\ ServiceUploaded("done")
    BY <1>1 DEF Uploading
  <2>2. Code = rollout.version
    BY <2>1, CodeIsNew DEF CodeUploaded, Extracted
  <2>3. plan.install => \A p \in unit.process : p.runs = rollout.version /\ p.console
    BY <2>1, <2>2 DEF ServiceUploaded, Serves
  <2>4. /\ plan.clean => machine.files = {rollout.version}
        /\ plan.frontend => machine.dist = rollout.version
    BY <2>1 DEF CodeUploaded, Extracted
  <2>5. /\ rollout.before.evidence => machine.evidence \/ (plan.clean /\ plan.wipe)
        /\ machine.tree = "whole" \/ plan.prepare => machine.named
    BY <2>1 DEF TreeUploaded, TreePrepared, Reconciled, Extracted
  <2>6. plan.install \/ plan.smoke =>
           unit.python # "none" /\ machine.venv /\ machine.dist # None
    BY <2>1 DEF ServiceUploaded, Serves
  <2>7. QED
    BY <2>2, <2>3, <2>4, <2>5, <2>6 DEF UploadLanded
<1>2. ASSUME plan.kind = "install" PROVE InstallLanded
  BY <1>2 DEF Installing, InstallLanded, Serves
<1>3. QED
  BY <1>1, <1>2 DEF MachineReady

LEMMA NothingYet == DeployInit => Uploading /\ Installing
BY DEF DeployInit, Uploading, Installing, plan

\* A rollout that ends well leaves what it was asked for - the new code, the
\* evidence, a whole tree that is named, no process of another version - however
\* many rollouts broke off before it, wherever, and whoever registered, revived or
\* stopped what beside it.
THEOREM RolloutLands == DeploySpec => []MachineReady
<1> DEFINE Inv == RolloutOK /\ Uploading /\ Installing
<1>1. DeployInit => Inv
  BY RolloutStarts, NothingYet
<1>2. Inv /\ [DeployNext]_deployVars => Inv'
  BY RolloutStays, UploadingStays, InstallingStays
<1>3. Inv => MachineReady
  BY ReadyThen
<1>4. QED
  BY <1>1, <1>2, <1>3, PTL DEF DeploySpec

----------------------------------------------------------------------------
(* The open page *)

WorkSteps ==
    {"idle", "dead", "fetch", "bundle", "card", "constraints", "analyzed", "analyzed index",
     "unavailable", "unavailable row", "load", "announce", "plan", "patch", "precheck",
     "build", "unresolved", "record", "summary", "validation", "trace", "index", "close",
     "report", "report text", "last index"}

\* OpenPageCatchesUp is inductive among states of these types.
PageFollows ==
    /\ client \in [unseen : BOOLEAN, asked : BOOLEAN, behind : BOOLEAN]
    /\ worker \in [pc : WorkSteps, then : {"idle", "load"}, given : Nat]
    /\ OpenPageCatchesUp

\* A step that wrote something.
Wrote(what, next) == client' = Noticed(what, store') /\ GoTo(next)

\* What is written in a command's last step is watched.
LEMMA WritesFollow ==
    ASSUME PageFollows, NEW what, NEW next \in WorkSteps,
           Wrote(what, next), next = "idle" => what \in Watched
    PROVE  PageFollows'
<1> DEFINE seen == client.unseen \/ what \in Watched
           older == client.behind \/ Page(store)' # Page(store)
<1>1. /\ seen \in BOOLEAN /\ older \in BOOLEAN /\ (next = "idle" => seen)
      /\ client' = [client EXCEPT !.unseen = seen, !.behind = older]
      /\ worker' = [worker EXCEPT !.pc = next]
  BY DEF Wrote, Noticed, GoTo
<1> HIDE DEF seen, older
<1>2. QED
  BY <1>1 DEF PageFollows, OpenPageCatchesUp

LEMMA CommandFollows ==
    ASSUME PageFollows, NEW pc \in WorkSteps, NEW then \in {"idle", "load"}, pc # "idle",
           Command(pc, then)
    PROVE  PageFollows'
BY DEF PageFollows, OpenPageCatchesUp, Command

\* What the actions write, and where they go on.
LEMMA AnalysisFollows ==
    ASSUME PageFollows,
           \/ SourceFound \/ WriteBundle \/ WriteCard \/ WriteConstraints
           \/ MarkAnalyzed \/ IndexAnalysis
           \/ SourceMissing \/ RecordUnavailable \/ MarkUnavailable
    PROVE  PageFollows'
<1>1. SourceFound => Wrote("fetch trace", "bundle")
  BY DEF SourceFound, Writes, Wrote
<1>2. WriteBundle => Wrote("bundle", "card")
  BY DEF WriteBundle, Writes, Wrote
<1>3. WriteCard => Wrote("card", "constraints")
  BY DEF WriteCard, Writes, Wrote
<1>4. WriteConstraints => Wrote("constraints", "analyzed")
  BY DEF WriteConstraints, Writes, Wrote
<1>5. MarkAnalyzed => Wrote("task row", "analyzed index")
  BY DEF MarkAnalyzed, Writes, Wrote
<1>6. IndexAnalysis => Wrote("artifacts", worker.then)
  BY DEF IndexAnalysis, Writes, Wrote
<1>7. SourceMissing => Wrote("fetch trace", "unavailable")
  BY DEF SourceMissing, Writes, Wrote
<1>8. RecordUnavailable => Wrote("source failure", "unavailable row")
  BY DEF RecordUnavailable, Writes, Wrote
<1>9. MarkUnavailable => Wrote("task row", "last index")
  BY DEF MarkUnavailable, Writes, Wrote
<1>10. worker.then \in WorkSteps /\ "artifacts" \in Watched
  BY DEF PageFollows, Watched, WorkSteps
<1>11. QED
  BY <1>1, <1>2, <1>3, <1>4, <1>5, <1>6, <1>7, <1>8, <1>9, <1>10, WritesFollow DEF WorkSteps

LEMMA AttemptFollows ==
    ASSUME PageFollows,
           \/ SeedAttempt \/ MarkRunning \/ WritePlan \/ WriteRewritten \/ WritePrecheck
           \/ SaveOutcome \/ MarkUnresolved \/ LeaveOutcome
           \/ WriteRecord \/ WriteSummary \/ WriteValidation \/ WriteTrace
           \/ IndexAttempt \/ CloseAttempt
    PROVE  PageFollows'
<1>1. MarkRunning => Wrote("task row", "plan")
  BY DEF MarkRunning, Writes, Wrote
<1>2. WritePlan => Wrote("plan", "patch")
  BY DEF WritePlan, Writes, Wrote
<1>3. WriteRewritten => Wrote("patch", "precheck")
  BY DEF WriteRewritten, Writes, Wrote
<1>4. WritePrecheck => Wrote("precheck", "build")
  BY DEF WritePrecheck, Writes, Wrote
<1>5. SaveOutcome => Wrote("attempt row", "unresolved")
  BY DEF SaveOutcome, Writes, Wrote
<1>6. MarkUnresolved \/ LeaveOutcome => Wrote("attempt row", "record")
  BY DEF MarkUnresolved, LeaveOutcome, Writes, Wrote
<1>7. WriteRecord => Wrote("record", "summary")
  BY DEF WriteRecord, Writes, Wrote
<1>8. WriteSummary => Wrote("summary", "validation")
  BY DEF WriteSummary, Writes, Wrote
<1>9. WriteValidation => Wrote("validation", "trace")
  BY DEF WriteValidation, Writes, Wrote
<1>10. WriteTrace => Wrote("trace", "index")
  BY DEF WriteTrace, Writes, Wrote
<1>11. IndexAttempt => Wrote("artifacts", "close")
  BY DEF IndexAttempt, Writes, Wrote
<1>12. CloseAttempt => Wrote("task row", "idle")
  BY DEF CloseAttempt, Writes, Wrote
<1>13. CASE SeedAttempt /\ store.constraints
  <2>1. Wrote("attempt row", "announce")
    BY <1>13 DEF SeedAttempt, Writes, Wrote
  <2>2. QED
    BY <2>1, WritesFollow DEF WorkSteps
<1>14. CASE SeedAttempt /\ ~store.constraints
  BY <1>14 DEF SeedAttempt, GoTo, PageFollows, OpenPageCatchesUp, WorkSteps
<1>15. "task row" \in Watched
  BY DEF Watched
<1>16. QED
  BY <1>1, <1>2, <1>3, <1>4, <1>5, <1>6, <1>7, <1>8, <1>9, <1>10, <1>11, <1>12, <1>13,
     <1>14, <1>15, WritesFollow DEF WorkSteps

LEMMA ReportFollows ==
    ASSUME PageFollows, WriteReport \/ WriteReportText \/ IndexLast
    PROVE  PageFollows'
<1>1. WriteReport => Wrote("report", "report text")
  BY DEF WriteReport, Writes, Wrote
<1>2. WriteReportText => Wrote("report text", "last index")
  BY DEF WriteReportText, Writes, Wrote
<1>3. IndexLast => Wrote("artifacts", "idle")
  BY DEF IndexLast, Writes, Wrote
<1>4. "artifacts" \in Watched
  BY DEF Watched
<1>5. QED
  BY <1>1, <1>2, <1>3, <1>4, WritesFollow DEF WorkSteps

LEMMA PageStepFollows == PageFollows /\ [PageNext]_pageVars => PageFollows'
<1> SUFFICES ASSUME PageFollows, [PageNext]_pageVars PROVE PageFollows'
  OBVIOUS
<1>1. CASE StartAnalyze \/ StartRun \/ StartReport
  BY <1>1, CommandFollows DEF StartAnalyze, StartRun, StartReport, WorkSteps
<1>2. CASE \/ SourceFound \/ WriteBundle \/ WriteCard \/ WriteConstraints
           \/ MarkAnalyzed \/ IndexAnalysis
           \/ SourceMissing \/ RecordUnavailable \/ MarkUnavailable
  BY <1>2, AnalysisFollows
<1>3. CASE \/ SeedAttempt \/ MarkRunning \/ WritePlan \/ WriteRewritten \/ WritePrecheck
           \/ SaveOutcome \/ MarkUnresolved \/ LeaveOutcome
           \/ WriteRecord \/ WriteSummary \/ WriteValidation \/ WriteTrace
           \/ IndexAttempt \/ CloseAttempt
  BY <1>3, AttemptFollows
<1>4. CASE WriteReport \/ WriteReportText \/ IndexLast
  BY <1>4, ReportFollows
<1>5. CASE DieAtWork \/ Poll \/ Fetch \/ UNCHANGED pageVars
  BY <1>5 DEF DieAtWork, Poll, Fetch, GoTo, pageVars, PageFollows, OpenPageCatchesUp, WorkSteps
<1>6. QED
  BY <1>1, <1>2, <1>3, <1>4, <1>5 DEF PageNext

LEMMA PageFirst == PageInit => PageFollows
BY DEF PageInit, PageFollows, OpenPageCatchesUp, WorkSteps

\* A page that has asked for what it was told of shows the task as it is, once a
\* command has come to its end: whatever was written without being watched was
\* followed by something that is.
THEOREM PageCatchesUp == PageSpec => []OpenPageCatchesUp
<1>1. PageInit => PageFollows
  BY DEF PageInit, PageFollows, OpenPageCatchesUp, WorkSteps
<1>2. PageFollows => OpenPageCatchesUp
  BY DEF PageFollows
<1>3. QED
  BY <1>1, <1>2, PageStepFollows, PTL DEF PageSpec

----------------------------------------------------------------------------
(* What the page tells: from the row, the record, the summary and the precheck *)

BuildFailureTypes ==
    {"feature_not_enabled", "build_env_missing", "patch_apply_failed",
     "build_cache_incomplete", "compile_failed", "kpatch_constraint", UnresolvedType}

Unwritten == Says("none", "none", "none")
Settled == {"built", "target_state", "failed"}

\* The row of an attempt, and what it says of the build.
RowTold(r) ==
    \/ r = NoRow
    \/ r = Row("running", Unwritten)
    \/ r = Row("built", Says("none", "executed", "none"))
    \/ r = Row("target_state", Says(Patched, "not_run", Patched))
    \/ \E t \in BuildFailureTypes, e \in {"not_run", "executed"} :
          r = Row("failed", Says(t, e, "none"))

PrecheckTold(p) ==
    \/ p = NoFile \/ p = Unwritten \/ p = Says("build_env_missing", "none", "none")
    \/ p = Says(Patched, "not_run", Patched)
    \/ \E t \in {"feature_not_enabled", "patch_apply_failed"} : p = Says(t, "not_run", "none")

\* The record and the summary are of the row that is there, once they are written.
Told ==
    /\ RowTold(store.row) /\ PrecheckTold(store.precheck)
    /\ \/ store.record \in {"missing", store.row.type}
       \/ store.row.status = "failed" /\ store.record \in {"kpatch_constraint", Patched}
    /\ \/ store.summary = NoFile
       \/ store.summary = Says(store.row.type, store.row.exec, store.row.state)

LEMMA TwoTypes ==
    ASSUME NEW a, NEW b, NEW c, NEW d, NEW x, NEW y,
           x \in {a, b, c, d}, y \in {a, b, c, d}, Given(x), Given(y), x # y
    PROVE  Cardinality({t \in {a, b, c, d} : Given(t)}) > 1
<1> DEFINE S == {t \in {a, b, c, d} : Given(t)}
<1>1. x \in S /\ y \in S
  OBVIOUS
<1>2. IsFiniteSet({a, b, c, d})
  <2>1. IsFiniteSet({a} \cup {b}) /\ IsFiniteSet({c} \cup {d})
    BY FS_Singleton, FS_Union
  <2>2. IsFiniteSet(({a} \cup {b}) \cup ({c} \cup {d}))
    BY <2>1, FS_Union
  <2>3. ({a} \cup {b}) \cup ({c} \cup {d}) = {a, b, c, d}
    OBVIOUS
  <2>4. QED
    BY <2>2, <2>3
<1>3. IsFiniteSet(S)
  BY <1>2, FS_Subset
<1> HIDE DEF S
<1>4. Cardinality(S) \in Nat
  BY <1>3, FS_CardinalityType
<1>5. Cardinality(S) # 0
  BY <1>1, <1>3, FS_EmptySet
<1>6. Cardinality(S) # 1
  BY <1>1, <1>3, FS_Singleton
<1>7. Cardinality(S) > 1
  BY <1>4, <1>5, <1>6
<1>8. QED
  BY <1>7 DEF S

\* Nothing before the build is shown as failed unless the fetch is.
LEMMA StagesShown ==
    ASSUME NEW s, ~SourceFailed(s)
    PROVE  /\ StageView(s)[Build] = BuildStage(s)
           /\ BuildStage(s) # "failed" => StageView(s)[Validate] = ValidateStage(s)
<1> DEFINE n == StageNodes(s)
<1>1. \A there : Done(there) # "failed"
  BY DEF Done
<1>2. \A skip, st : st # "failed" => Unless(skip, st) # "failed"
  BY DEF Unless
<1>3. /\ DOMAIN n = 1..10
      /\ n[1] = "success" /\ n[2] = Done(s.bundle)
      /\ n[3] = Unless(SourceFailed(s), Done(s.card))
      /\ n[4] = Unless(SourceFailed(s), Done(s.constraints))
      /\ n[5] = Done(s.plan) /\ n[6] = Done(s.patch)
      /\ n[7] = BuildStage(s) /\ n[8] = FailureStage(s) /\ n[9] = ValidateStage(s)
  BY DEF StageNodes
<1>4. FailureStage(s) # "failed"
  BY <1>2 DEF FailureStage
<1>5. /\ n[1] # "failed" /\ n[2] # "failed" /\ n[3] # "failed" /\ n[4] # "failed"
      /\ n[5] # "failed" /\ n[6] # "failed" /\ n[8] # "failed"
  BY <1>1, <1>2, <1>3, <1>4
<1> HIDE DEF n
<1>6. \A i \in 1..10 : (\A j \in 1..10 : j < i => n[j] # "failed") => StageView(s)[i] = n[i]
  BY <1>3 DEF StageView, n
<1>7. \A j \in 1..10 : j < 7 => n[j] # "failed"
  BY <1>5
<1>8. n[7] # "failed" => \A j \in 1..10 : j < 9 => n[j] # "failed"
  BY <1>5
<1>9. StageView(s)[7] = n[7] /\ (n[7] # "failed" => StageView(s)[9] = n[9])
  BY <1>6, <1>7, <1>8
<1>10. QED
  BY <1>3, <1>9 DEF Build, Validate

LEMMA RowIs ==
    ASSUME Told
    PROVE  /\ store.row.status = "built" =>
                 store.row = Row("built", Says("none", "executed", "none"))
           /\ store.row.status = "target_state" =>
                 store.row = Row("target_state", Says(Patched, "not_run", Patched))
           /\ store.row.status = "failed" =>
                 \E t \in BuildFailureTypes, e \in {"not_run", "executed"} :
                    store.row = Row("failed", Says(t, e, "none"))
<1>1. RowTold(store.row)
  BY DEF Told
<1>2. /\ NoRow.status = "none" /\ Row("running", Unwritten).status = "running"
      /\ Row("built", Says("none", "executed", "none")).status = "built"
      /\ Row("target_state", Says(Patched, "not_run", Patched)).status = "target_state"
      /\ \A t, e : Row("failed", Says(t, e, "none")).status = "failed"
  BY DEF NoRow, Row
<1>3. QED
  BY <1>1, <1>2 DEF RowTold

LEMMA BuiltTold ==
    ASSUME Told, store.row.status = "built", store.fetch # "failed"
    PROVE  Agrees(Page(store), store)
<1>1. store.row = Row("built", Says("none", "executed", "none"))
  BY RowIs
<1>2. /\ store.row.type = "none" /\ store.row.exec = "executed"
      /\ store.record \in {"missing", "none"}
      /\ store.summary.type \in {"missing", "none"}
      /\ store.summary.exec \in {"none", "executed"}
  BY <1>1 DEF Told, Row, Says, NoFile
<1>3. ExecStatus(store) = "executed"
  BY <1>2 DEF FirstGiven, OrElse, ExecStatus, Given
<1>4. Tried(store)
  BY <1>1 DEF Tried, NoRow, Row, Says
<1>5. LatestFailureType(store) = "none"
  BY <1>2, <1>3, <1>4 DEF FirstGiven, OrElse, LatestFailureType, FailureRecord, Given
<1>6. TargetState(store) = "none"
  BY <1>3 DEF TargetState
<1>7. ~AlreadyPatched(store) /\ ~SourceFailed(store)
  BY <1>5, <1>6 DEF AlreadyPatched, SourceFailed, Patched, Unavailable
<1>8. BuildStage(store) = "success"
  BY <1>4, <1>7 DEF BuildStage
<1>9. /\ StageView(store)[Build] = "success"
      /\ StageView(store)[Validate] = ValidateStage(store)
  BY <1>7, <1>8, StagesShown
<1>10. ProcessStatus(store) = IF store.validation = "passed" THEN "success" ELSE "pending"
  BY <1>4, <1>7 DEF ProcessStatus
<1>11. (ValidateStage(store) = "failed") = (store.validation = "failed")
  BY <1>7 DEF ValidateStage
<1>12. QED
  BY <1>5, <1>9, <1>10, <1>11 DEF Agrees, Page

LEMMA PatchedTold ==
    ASSUME Told, store.row.status = "target_state", store.fetch # "failed"
    PROVE  Agrees(Page(store), store)
<1>1. store.row = Row("target_state", Says(Patched, "not_run", Patched))
  BY RowIs
<1>2. /\ store.row.type = Patched /\ store.row.exec = "not_run" /\ store.row.state = Patched
      /\ store.summary.exec \in {"none", "not_run"}
      /\ store.summary.state \in {"none", Patched}
  BY <1>1 DEF Told, Row, Says, NoFile
<1>3. store.precheck.state \in {"none", Patched}
  BY DEF Told, PrecheckTold, NoFile, Unwritten, Says
<1>4. ExecStatus(store) = "not_run"
  BY <1>2 DEF FirstGiven, OrElse, ExecStatus, Given
<1>5. Tried(store)
  BY <1>1 DEF Tried, NoRow, Row, Says
<1>6. LatestFailureType(store) = Patched
  BY <1>2, <1>4 DEF LatestFailureType
<1>7. AlreadyPatched(store) /\ ~SourceFailed(store)
  BY <1>6 DEF AlreadyPatched, SourceFailed, Patched, Unavailable
<1>8. BuildStage(store) = "skipped" /\ ValidateStage(store) = "skipped"
  BY <1>5, <1>7 DEF BuildStage, ValidateStage
<1>9. /\ StageView(store)[Build] = "skipped"
      /\ StageView(store)[Validate] = "skipped"
  BY <1>7, <1>8, StagesShown
<1>10. ProcessStatus(store) = "skipped"
  BY <1>7 DEF ProcessStatus
<1>11. QED
  BY <1>9, <1>10 DEF Agrees, Page

LEMMA FailedTold ==
    ASSUME Told, store.row.status = "failed", store.fetch # "failed"
    PROVE  Agrees(Page(store), store) \/ Conflicts(store)
<1>1. PICK t \in BuildFailureTypes, e \in {"not_run", "executed"} :
         store.row = Row("failed", Says(t, e, "none"))
  BY RowIs
<1>2. /\ store.row.type = t /\ store.row.exec = e /\ store.row.state = "none"
      /\ store.summary.type \in {"missing", t}
      /\ store.summary.exec \in {"none", e}
      /\ store.summary.state = "none"
      /\ store.record \in {"missing", t, "kpatch_constraint", Patched}
  BY <1>1 DEF Told, Row, Says, NoFile
<1>3. /\ t \notin {Patched, Unavailable, "none", "missing"}
      /\ Given(t) /\ Given(Patched) /\ Given(e)
  BY DEF BuildFailureTypes, Patched, Unavailable, UnresolvedType, Given
<1>4. /\ store.precheck.state \in {"none", Patched}
      /\ store.precheck.state = Patched <=> store.precheck.type = Patched
      /\ store.precheck.type # Unavailable
  BY DEF Told, PrecheckTold, NoFile, Unwritten, Says, Patched, Unavailable
<1>5. Tried(store) /\ FailureRecord(store) = store.record
  BY <1>1 DEF Tried, NoRow, Row, Says, FailureRecord
<1>6. CASE store.record = Patched \/ store.precheck.type = Patched
  BY <1>2, <1>3, <1>5, <1>6, TwoTypes DEF Conflicts
<1>7. CASE store.record # Patched /\ store.precheck.type # Patched
  <2>1. ExecStatus(store) = e
    BY <1>2, <1>3 DEF FirstGiven, OrElse, ExecStatus, Given
  <2>2. TargetState(store) # Patched
    BY <1>2, <1>4, <1>7 DEF FirstGiven, OrElse, TargetState, Given, Patched
  <2>3. LatestFailureType(store) \notin {"none", Patched, Unavailable}
    <3>1. CASE e = "executed"
      BY <1>2, <1>3, <1>5, <1>7, <2>1, <3>1 DEF FirstGiven, OrElse, LatestFailureType, Given,
         Patched, Unavailable
    <3>2. CASE e # "executed"
      <4>1. Patched \notin {store.summary.state, store.precheck.state, store.row.state}
        BY <1>2, <1>4, <1>7 DEF Patched
      <4>2. LatestFailureType(store) =
              OrElse(store.record, FirstGiven(store.summary.type, store.precheck.type, store.row.type))
        BY <1>5, <2>1, <3>2, <4>1 DEF LatestFailureType
      <4>3. QED
        BY <1>2, <1>3, <1>4, <1>7, <4>2 DEF FirstGiven, OrElse, Given, Patched, Unavailable
    <3>3. QED
      BY <3>1, <3>2
  <2>4. ~AlreadyPatched(store) /\ ~SourceFailed(store)
    BY <2>2, <2>3 DEF AlreadyPatched, SourceFailed
  <2>5. StageView(store)[Build] = "failed"
    BY <1>5, <2>4, StagesShown DEF BuildStage
  <2>6. ProcessStatus(store) = "failed"
    BY <1>5, <2>4 DEF ProcessStatus
  <2>7. Diagnosis(store) # "none"
    BY <2>3, <2>6 DEF Diagnosis
  <2>8. QED
    BY <2>5, <2>6, <2>7 DEF Agrees, Page
<1>8. QED
  BY <1>6, <1>7

LEMMA TellsThen == Told => PageTellsTheOutcome
<1> SUFFICES ASSUME Told, store.fetch # "failed"
             PROVE  Agrees(Page(store), store) \/ Page(store).conflicts
  BY DEF PageTellsTheOutcome
<1>1. Page(store).conflicts = Conflicts(store)
  BY DEF Page
<1>2. CASE store.row.status \in {"built", "target_state", "failed"}
  BY <1>1, <1>2, BuiltTold, PatchedTold, FailedTold
<1>3. CASE store.row.status \notin {"built", "target_state", "failed"}
  BY <1>3 DEF Agrees
<1>4. QED
  BY <1>2, <1>3

----------------------------------------------------------------------------
(* What the page tells: the steps of an attempt *)

StoreFields ==
    {"task", "fetch", "sourceFailure", "bundle", "card", "constraints", "row", "plan", "patch",
     "precheck", "record", "summary", "validation", "trace", "report", "reportText"}

BeforeOutcome == {"announce", "plan", "patch", "precheck", "build"}

\* Where the attempt at work has come to, and what there is of it.
InAttempt ==
    /\ worker.pc \in BeforeOutcome => store.row.status = "running"
    /\ store.row.status \notin Settled => store.record = "missing" /\ store.summary = NoFile
    /\ worker.pc \in {"unresolved", "record"} => store.record = "missing"
    /\ worker.pc \in {"unresolved", "record", "summary"} =>
          store.row.status \in Settled /\ store.summary = NoFile

ToldInv == DOMAIN store = StoreFields /\ Told /\ InAttempt

\* A step that has nothing to do with the row and the three files.
LEMMA ToldAside ==
    ASSUME ToldInv, DOMAIN store' = StoreFields,
           store'.row = store.row, store'.precheck = store.precheck,
           store'.record = store.record, store'.summary = store.summary,
           worker'.pc \in BeforeOutcome => store.row.status = "running",
           worker'.pc \notin {"unresolved", "record", "summary"}
    PROVE  ToldInv'
BY DEF ToldInv, Told, InAttempt

LEMMA PrechecksTold == \A p \in ApplyPrechecks : PrecheckTold(p)
BY DEF ApplyPrechecks, ApplyPrecheck, PrecheckTold, Unwritten

LEMMA OutcomesTold ==
    ASSUME NEW p, PrecheckTold(p), NEW r \in Outcomes(p)
    PROVE  RowTold(r) /\ r.status \in Settled
<1>1. CASE r \in RowsOfBuilder
  <2>1. \/ r = Row("built", Says("none", "executed", "none"))
        \/ r = Row("target_state", Says(Patched, "not_run", Patched))
        \/ \E t \in BuildFailureTypes, e \in {"not_run", "executed"} :
              r = Row("failed", Says(t, e, "none"))
    BY <1>1 DEF RowsOfBuilder, BuildFailureTypes
  <2>2. r.status \in Settled
    BY <2>1 DEF Row, Settled
  <2>3. QED
    BY <2>1, <2>2 DEF RowTold
<1>2. CASE r = RowOfObjection(p) /\ Objects(p)
  <2>1. CASE p = Says(Patched, "not_run", Patched)
    <3>1. r = Row("target_state", p)
      BY <1>2, <2>1 DEF RowOfObjection, Says, Patched
    <3>2. QED
      BY <2>1, <3>1 DEF RowTold, Row, Settled
  <2>2. CASE \E t \in {"feature_not_enabled", "patch_apply_failed"} : p = Says(t, "not_run", "none")
    <3>1. PICK t \in {"feature_not_enabled", "patch_apply_failed"} : p = Says(t, "not_run", "none")
      BY <2>2
    <3>2. r = Row("failed", p) /\ t \in BuildFailureTypes
      BY <1>2, <3>1 DEF RowOfObjection, Says, BuildFailureTypes
    <3>3. r.status \in Settled
      BY <3>2 DEF Row, Settled
    <3>4. QED
      BY <3>1, <3>2, <3>3 DEF RowTold
  <2>3. QED
    BY <1>2, <2>1, <2>2 DEF PrecheckTold, Objects, NoFile, Unwritten, Says
<1>3. QED
  BY <1>1, <1>2 DEF Outcomes

\* The steps of an analysis, of a report and of an attempt between the others.
LEMMA ToldElsewhere ==
    ASSUME ToldInv, PageFollows,
           \/ SourceFound \/ WriteBundle \/ WriteCard \/ WriteConstraints
           \/ MarkAnalyzed \/ IndexAnalysis
           \/ SourceMissing \/ RecordUnavailable \/ MarkUnavailable
           \/ WriteValidation \/ WriteTrace \/ IndexAttempt \/ CloseAttempt
           \/ WriteReport \/ WriteReportText \/ IndexLast
    PROVE  ToldInv'
<1>1. worker'.pc \notin BeforeOutcome \cup {"unresolved", "record", "summary"}
  BY DEF SourceFound, WriteBundle, WriteCard, WriteConstraints, MarkAnalyzed, IndexAnalysis,
     SourceMissing, RecordUnavailable, MarkUnavailable, WriteValidation, WriteTrace,
     IndexAttempt, CloseAttempt, WriteReport, WriteReportText, IndexLast, Writes, GoTo,
     PageFollows, BeforeOutcome
<1>2. /\ DOMAIN store' = StoreFields
      /\ store'.row = store.row /\ store'.precheck = store.precheck
      /\ store'.record = store.record /\ store'.summary = store.summary
  BY ZenonT(40)
  DEF SourceFound, WriteBundle, WriteCard, WriteConstraints, MarkAnalyzed, IndexAnalysis,
     SourceMissing, RecordUnavailable, MarkUnavailable, WriteValidation, WriteTrace,
     IndexAttempt, CloseAttempt, WriteReport, WriteReportText, IndexLast, Writes,
     ToldInv, StoreFields
<1>3. QED
  BY <1>1, <1>2, ToldAside

LEMMA ToldBefore ==
    ASSUME ToldInv, PageFollows, MarkRunning \/ WritePlan \/ WriteRewritten
    PROVE  ToldInv'
<1>1. /\ worker.pc \in BeforeOutcome
      /\ worker'.pc \notin {"unresolved", "record", "summary"}
  BY DEF MarkRunning, WritePlan, WriteRewritten, Writes, GoTo, PageFollows, BeforeOutcome
<1>2. /\ DOMAIN store' = StoreFields
      /\ store'.row = store.row /\ store'.precheck = store.precheck
      /\ store'.record = store.record /\ store'.summary = store.summary
  BY DEF MarkRunning, WritePlan, WriteRewritten, Writes, ToldInv, StoreFields
<1>3. QED
  BY <1>1, <1>2, ToldAside DEF ToldInv, InAttempt

LEMMA ToldSeed ==
    ASSUME ToldInv, PageFollows, SeedAttempt
    PROVE  ToldInv'
<1>1. CASE store.constraints
  <2>1. /\ DOMAIN store' = StoreFields
        /\ store'.row = Row("running", Unwritten) /\ store'.precheck = NoFile
        /\ store'.record = "missing" /\ store'.summary = NoFile
        /\ worker'.pc = "announce"
    BY <1>1 DEF SeedAttempt, Writes, GoTo, ToldInv, StoreFields, PageFollows, Unwritten
  <2>2. store'.row.status = "running"
    BY <2>1 DEF Row
  <2>3. Told'
    BY <2>1 DEF Told, RowTold, PrecheckTold
  <2>4. InAttempt'
    BY <2>1, <2>2 DEF InAttempt
  <2>5. QED
    BY <2>1, <2>3, <2>4 DEF ToldInv
<1>2. CASE ~store.constraints
  <2>1. store' = store /\ worker'.pc = "dead"
    BY <1>2 DEF SeedAttempt, GoTo, PageFollows
  <2>2. QED
    BY <2>1, ToldAside DEF ToldInv, BeforeOutcome
<1>3. QED
  BY <1>1, <1>2

LEMMA ToldPrecheck ==
    ASSUME ToldInv, PageFollows, WritePrecheck
    PROVE  ToldInv'
<1>1. PICK p \in ApplyPrechecks :
         Writes("precheck", "precheck", [store EXCEPT !.precheck = p], "build")
  BY DEF WritePrecheck
<1>2. /\ DOMAIN store' = StoreFields
      /\ store'.row = store.row /\ store'.precheck = p
      /\ store'.record = store.record /\ store'.summary = store.summary
      /\ worker.pc = "precheck" /\ worker'.pc = "build"
  BY <1>1 DEF Writes, GoTo, ToldInv, StoreFields, PageFollows
<1>3. PrecheckTold(p)
  BY PrechecksTold
<1>4. QED
  BY <1>2, <1>3 DEF ToldInv, Told, InAttempt, BeforeOutcome

LEMMA ToldOutcome ==
    ASSUME ToldInv, PageFollows, SaveOutcome
    PROVE  ToldInv'
<1>1. PICK r \in Outcomes(store.precheck) :
         Writes("build", "attempt row", [store EXCEPT !.row = r], "unresolved")
  BY DEF SaveOutcome
<1>2. /\ DOMAIN store' = StoreFields
      /\ store'.row = r /\ store'.precheck = store.precheck
      /\ store'.record = store.record /\ store'.summary = store.summary
      /\ worker.pc = "build" /\ worker'.pc = "unresolved"
  BY <1>1 DEF Writes, GoTo, ToldInv, StoreFields, PageFollows
<1>3. RowTold(r) /\ r.status \in Settled
  BY OutcomesTold DEF ToldInv, Told
<1>4. store.record = "missing" /\ store.summary = NoFile
  BY <1>2 DEF ToldInv, InAttempt, BeforeOutcome, Settled
<1>5. Told'
  BY <1>2, <1>3, <1>4 DEF ToldInv, Told
<1>6. InAttempt'
  BY <1>2, <1>3, <1>4 DEF InAttempt, BeforeOutcome
<1>7. QED
  BY <1>2, <1>5, <1>6 DEF ToldInv

LEMMA ToldUnresolved ==
    ASSUME ToldInv, PageFollows, MarkUnresolved
    PROVE  ToldInv'
<1>1. /\ "kpatch_constraint" \in FiledTypes(store.precheck, store.row)
      /\ store.row.status \in Settled
      /\ store.record = "missing" /\ store.summary = NoFile
  BY DEF MarkUnresolved, Writes, ToldInv, InAttempt
<1>2. store.row.status = "failed"
  BY <1>1, RowIs DEF ToldInv, FiledTypes, Row, Says, Patched, Settled
<1>3. PICK t \in BuildFailureTypes, e \in {"not_run", "executed"} :
         store.row = Row("failed", Says(t, e, "none"))
  BY <1>2, RowIs DEF ToldInv
<1>4. /\ DOMAIN store' = StoreFields
      /\ store'.row = [store.row EXCEPT !.type = UnresolvedType]
      /\ store'.precheck = store.precheck
      /\ store'.record = store.record /\ store'.summary = store.summary
      /\ worker'.pc = "record"
  BY DEF MarkUnresolved, Writes, GoTo, ToldInv, StoreFields, PageFollows
<1>5. store'.row = Row("failed", Says(UnresolvedType, e, "none"))
  BY <1>3, <1>4 DEF Row, Says
<1>6. RowTold(store.row)' /\ store'.row.status \in Settled
  BY <1>5 DEF RowTold, BuildFailureTypes, Row, Settled
<1>7. Told'
  BY <1>1, <1>4, <1>6 DEF ToldInv, Told
<1>8. InAttempt'
  BY <1>1, <1>4, <1>6 DEF InAttempt, BeforeOutcome
<1>9. QED
  BY <1>4, <1>7, <1>8 DEF ToldInv

LEMMA ToldLeft ==
    ASSUME ToldInv, PageFollows, LeaveOutcome
    PROVE  ToldInv'
<1>1. store' = store /\ worker.pc = "unresolved" /\ worker'.pc = "record"
  BY DEF LeaveOutcome, Writes, GoTo, PageFollows
<1>2. QED
  BY <1>1 DEF ToldInv, Told, InAttempt, BeforeOutcome

LEMMA ToldRecord ==
    ASSUME ToldInv, PageFollows, WriteRecord
    PROVE  ToldInv'
<1>1. PICK type \in FiledTypes(store.precheck, store.row) :
         Writes("record", "record",
                [store EXCEPT !.record = IF store.row.type = UnresolvedType THEN UnresolvedType
                                         ELSE type], "summary")
  BY DEF WriteRecord
<1>2. /\ DOMAIN store' = StoreFields
      /\ store'.row = store.row /\ store'.precheck = store.precheck
      /\ store'.record = (IF store.row.type = UnresolvedType THEN UnresolvedType ELSE type)
      /\ store'.summary = store.summary
      /\ worker.pc = "record" /\ worker'.pc = "summary"
  BY <1>1 DEF Writes, GoTo, ToldInv, StoreFields, PageFollows
<1>3. \/ store'.record = store.row.type
      \/ store.row.status = "failed" /\ store'.record \in {"kpatch_constraint", Patched}
  BY <1>2 DEF FiledTypes
<1>4. store.row.status \in Settled /\ store.summary = NoFile
  BY <1>2 DEF ToldInv, InAttempt
<1>5. Told'
  BY <1>2, <1>3, <1>4 DEF ToldInv, Told
<1>6. InAttempt'
  BY <1>2, <1>4 DEF InAttempt, BeforeOutcome
<1>7. QED
  BY <1>2, <1>5, <1>6 DEF ToldInv

LEMMA ToldSummary ==
    ASSUME ToldInv, PageFollows, WriteSummary
    PROVE  ToldInv'
<1>1. /\ DOMAIN store' = StoreFields
      /\ store'.row = store.row /\ store'.precheck = store.precheck
      /\ store'.record = store.record
      /\ store'.summary = Says(store.row.type, store.row.exec, store.row.state)
      /\ worker.pc = "summary" /\ worker'.pc = "validation"
  BY DEF WriteSummary, Writes, GoTo, ToldInv, StoreFields, PageFollows
<1>2. Told'
  BY <1>1 DEF ToldInv, Told
<1>3. InAttempt'
  BY <1>1 DEF ToldInv, InAttempt, BeforeOutcome
<1>4. QED
  BY <1>1, <1>2, <1>3 DEF ToldInv

LEMMA ToldStays == ToldInv /\ PageFollows /\ [PageNext]_pageVars => ToldInv'
<1> SUFFICES ASSUME ToldInv, PageFollows, [PageNext]_pageVars PROVE ToldInv'
  OBVIOUS
<1>1. CASE StartAnalyze \/ StartRun \/ StartReport
  <2>1. store' = store /\ worker'.pc \in {"fetch", "load", "report"}
    BY <1>1 DEF StartAnalyze, StartRun, StartReport, Command
  <2>2. QED
    BY <2>1, ToldAside DEF ToldInv, BeforeOutcome
<1>2. CASE \/ SourceFound \/ WriteBundle \/ WriteCard \/ WriteConstraints
           \/ MarkAnalyzed \/ IndexAnalysis
           \/ SourceMissing \/ RecordUnavailable \/ MarkUnavailable
           \/ WriteValidation \/ WriteTrace \/ IndexAttempt \/ CloseAttempt
           \/ WriteReport \/ WriteReportText \/ IndexLast
  BY <1>2, ToldElsewhere
<1>3. CASE MarkRunning \/ WritePlan \/ WriteRewritten
  BY <1>3, ToldBefore
<1>4. CASE \/ SeedAttempt \/ WritePrecheck \/ SaveOutcome
           \/ MarkUnresolved \/ LeaveOutcome \/ WriteRecord \/ WriteSummary
  BY <1>4, ToldSeed, ToldPrecheck, ToldOutcome, ToldUnresolved, ToldLeft, ToldRecord,
     ToldSummary
<1>5. CASE DieAtWork \/ Poll \/ Fetch \/ UNCHANGED pageVars
  <2>1. store' = store /\ (worker' = worker \/ worker'.pc = "dead")
    BY <1>5 DEF DieAtWork, Poll, Fetch, GoTo, pageVars, PageFollows
  <2>2. QED
    BY <2>1 DEF ToldInv, Told, InAttempt, BeforeOutcome
<1>6. QED
  BY <1>1, <1>2, <1>3, <1>4, <1>5 DEF PageNext

LEMMA ToldFirst == PageInit => ToldInv
<1> SUFFICES ASSUME PageInit PROVE ToldInv
  OBVIOUS
<1>1. /\ DOMAIN store = StoreFields
      /\ store.row = NoRow /\ store.precheck = NoFile /\ store.record = "missing"
      /\ store.summary = NoFile /\ worker.pc = "idle"
  BY DEF PageInit, StoreFields
<1>2. Told
  BY <1>1 DEF Told, RowTold, PrecheckTold
<1>3. InAttempt
  BY <1>1 DEF InAttempt, BeforeOutcome
<1>4. QED
  BY <1>1, <1>2, <1>3 DEF ToldInv

\* At every moment the page tells what became of the latest attempt, or shows that
\* its sources contradict each other, however far the process got in writing the
\* record and the summary before it died.
THEOREM PageTells == PageSpec => []PageTellsTheOutcome
<1> DEFINE Inv == PageFollows /\ ToldInv
<1>1. PageInit => Inv
  BY PageFirst, ToldFirst
<1>2. Inv /\ [PageNext]_pageVars => Inv'
  BY PageStepFollows, ToldStays
<1>3. Inv => PageTellsTheOutcome
  BY TellsThen DEF ToldInv
<1>4. QED
  BY <1>1, <1>2, <1>3, PTL DEF PageSpec

----------------------------------------------------------------------------
(* The kernel trees: what is missing of a tree, its job has still to do     *)

StepNames ==
    {"remove", "unpack", "complete", "overlay", "config", "cache", "edit", "warm",
     "manifest", "read", "truncate", "write"}

\* A removal comes first and an unpacking first or right after it; who unpacks
\* does all the rest.
TodoOK(todo, d) ==
    /\ todo \in Seq(StepNames)
    /\ \A i \in 1..Len(todo) :
          /\ todo[i] = "remove" => i = 1
          /\ todo[i] = "unpack" => i = 1 \/ (i = 2 /\ todo[1] = "remove")
    /\ "remove" \in Range(todo) => "unpack" \in Range(todo)
    /\ "unpack" \in Range(todo) =>
          /\ "complete" \in Range(todo) /\ "edit" \in Range(todo)
          /\ d = Prepared => "overlay" \in Range(todo)

\* What a directory has while these steps are ahead, if only one job is at it.
Stands(d, ahead, has) ==
    /\ "remove" \in ahead \/ ("unpack" \in ahead => has = {})
    /\ "remove" \notin ahead /\ "unpack" \notin ahead =>
          "dir" \in has /\ "makefile" \in has /\ "script" \in has
    /\ "complete" \notin ahead => "sources" \in has
    /\ d = Prepared /\ "overlay" \notin ahead => "overlay" \in has
    /\ "edit" \notin ahead => "edited" \in has

JobsTyped ==
    /\ job = [j \in Jobs |-> job[j]]
    /\ \A j \in Jobs :
          job[j] = [k \in {"ask", "todo", "held", "status"} |-> job[j][k]]

DirsTyped ==
    /\ dirs = [d \in Directories |-> dirs[d]]
    /\ \A d \in Directories : dirs[d] = {} \/ "dir" \in dirs[d]

\* Two jobs at one directory lose it; what a directory nobody is at and that is
\* not lost lacks, a reuse adds.
TreesOK ==
    /\ JobsTyped /\ DirsTyped
    /\ \A j \in Jobs : Going(j) =>
          /\ job[j].ask \in Requests /\ job[j].todo # <<>>
          /\ TodoOK(job[j].todo, job[j].ask.dir)
          /\ job[j].ask.dir \notin lost =>
                Stands(job[j].ask.dir, Range(job[j].todo), dirs[job[j].ask.dir])
    /\ \A i, j \in Jobs :
          Going(i) /\ Going(j) /\ i # j /\ job[i].ask.dir = job[j].ask.dir =>
             job[i].ask.dir \in lost
    /\ \A d \in Directories \ lost :
          LooksPrepared(d) /\ ~Shared(d) =>
             "sources" \in dirs[d] /\ (d = Prepared => "overlay" \in dirs[d])

\* What SuccessLeavesWholeTree says of a step.
FinishedWhole ==
    \A j \in Jobs :
       (Going(j) /\ job'[j].status = "done" /\ job[j].ask.dir \notin lost') =>
          WholeTree(job[j].ask.dir) \subseteq dirs'[job[j].ask.dir]

LEMMA AskedDir == \A ask \in Requests : ask.dir \in Directories /\ ask.kind # "none"
BY RequestsKnown DEF RequestSpace, Directories

LEMMA StepsAhead ==
    ASSUME NEW todo \in Seq(StepNames), todo # <<>>
    PROVE  /\ Tail(todo) \in Seq(StepNames)
           /\ Len(todo) \in Nat /\ Len(todo) > 0 /\ Len(Tail(todo)) = Len(todo) - 1
           /\ \A i \in 1..Len(Tail(todo)) : Tail(todo)[i] = todo[i + 1]
           /\ Range(todo) = {Head(todo)} \cup Range(Tail(todo))
           /\ Head(todo) = todo[1]
<1>1. /\ Tail(todo) \in Seq(StepNames)
      /\ Len(todo) \in Nat /\ Len(todo) > 0 /\ Len(Tail(todo)) = Len(todo) - 1
      /\ \A i \in 1..Len(Tail(todo)) : Tail(todo)[i] = todo[i + 1]
      /\ Head(todo) = todo[1]
      /\ DOMAIN todo = 1..Len(todo) /\ DOMAIN Tail(todo) = 1..Len(Tail(todo))
  OBVIOUS
<1>2. ASSUME NEW x \in Range(todo) PROVE x = Head(todo) \/ x \in Range(Tail(todo))
  <2>1. PICK i \in 1..Len(todo) : x = todo[i]
    BY <1>1, <1>2 DEF Range
  <2>2. CASE i = 1
    BY <1>1, <2>1, <2>2
  <2>3. CASE i # 1
    <3>1. i - 1 \in 1..Len(Tail(todo)) /\ (i - 1) + 1 = i
      BY <1>1, <2>1, <2>3
    <3>2. Tail(todo)[i - 1] = x
      BY <1>1, <2>1, <3>1
    <3>3. QED
      BY <1>1, <3>1, <3>2 DEF Range
  <2>4. QED
    BY <2>2, <2>3
<1>3. ASSUME NEW x, x = Head(todo) \/ x \in Range(Tail(todo)) PROVE x \in Range(todo)
  <2>1. CASE x = Head(todo)
    BY <1>1, <2>1 DEF Range
  <2>2. CASE x \in Range(Tail(todo))
    <3>1. PICK i \in 1..Len(Tail(todo)) : x = Tail(todo)[i]
      BY <1>1, <2>2 DEF Range
    <3>2. i + 1 \in 1..Len(todo) /\ x = todo[i + 1]
      BY <1>1, <3>1
    <3>3. QED
      BY <1>1, <3>2 DEF Range
  <2>3. QED
    BY <1>3, <2>1, <2>2
<1>4. QED
  BY <1>1, <1>2, <1>3

LEMMA TodoShrinks ==
    ASSUME NEW todo, NEW d, TodoOK(todo, d), todo # <<>>
    PROVE  /\ TodoOK(Tail(todo), d)
           /\ Range(todo) = {Head(todo)} \cup Range(Tail(todo))
           /\ "remove" \notin Range(Tail(todo))
           /\ "unpack" \in Range(Tail(todo)) => Head(todo) = "remove"
<1> DEFINE rest == Tail(todo)
<1>1. todo \in Seq(StepNames)
  BY DEF TodoOK
<1>2. /\ rest \in Seq(StepNames)
      /\ Len(todo) \in Nat /\ Len(todo) > 0 /\ Len(rest) = Len(todo) - 1
      /\ \A i \in 1..Len(rest) : rest[i] = todo[i + 1]
      /\ Range(todo) = {Head(todo)} \cup Range(rest)
      /\ Head(todo) = todo[1]
      /\ DOMAIN rest = 1..Len(rest)
  BY <1>1, StepsAhead
<1> HIDE DEF rest
<1>3. \A i \in 1..Len(todo) :
          /\ todo[i] = "remove" => i = 1
          /\ todo[i] = "unpack" => i = 1 \/ (i = 2 /\ todo[1] = "remove")
  BY DEF TodoOK
<1>4. \A i \in 1..Len(rest) :
         /\ i + 1 \in 1..Len(todo) /\ i + 1 # 1 /\ rest[i] = todo[i + 1]
         /\ i + 1 = 2 => i = 1
  BY <1>2
<1>5. \A i \in 1..Len(rest) :
         /\ rest[i] # "remove"
         /\ rest[i] = "unpack" => i = 1 /\ todo[1] = "remove"
  BY <1>3, <1>4
<1>6. /\ "remove" \notin Range(rest)
      /\ "unpack" \in Range(rest) => Head(todo) = "remove"
  BY <1>2, <1>5 DEF Range
<1>7. "unpack" \in Range(rest) =>
          /\ "complete" \in Range(rest) /\ "edit" \in Range(rest)
          /\ d = Prepared => "overlay" \in Range(rest)
  BY <1>2, <1>6 DEF TodoOK
<1>8. QED
  BY <1>2, <1>5, <1>6, <1>7 DEF TodoOK, rest

QuietSteps == StepNames \ {"remove", "unpack", "complete", "overlay"}

\* The list of steps of a new tree, and what may follow it.
MakesTree(todo, d) ==
    /\ todo \in Seq(StepNames) /\ Len(todo) >= 5
    /\ todo[1] = "unpack" /\ todo[2] = "complete" /\ todo[5] = "edit"
    /\ d = Prepared => todo[3] = "overlay"
    /\ \A i \in 2..Len(todo) : todo[i] # "remove" /\ todo[i] # "unpack"

LEMMA MakesTreeOn ==
    ASSUME NEW todo, NEW d, MakesTree(todo, d), NEW more \in Seq(QuietSteps)
    PROVE  MakesTree(todo \o more, d)
<1> DEFINE all == todo \o more
<1>1. /\ todo \in Seq(StepNames) /\ more \in Seq(StepNames)
      /\ \A i \in 1..Len(more) : more[i] \in QuietSteps
  BY DEF MakesTree, QuietSteps
<1>2. /\ all \in Seq(StepNames) /\ Len(all) = Len(todo) + Len(more)
      /\ Len(todo) \in Nat /\ Len(more) \in Nat
      /\ \A i \in 1..Len(todo) : all[i] = todo[i]
      /\ \A i \in 1..Len(all) : i > Len(todo) => all[i] = more[i - Len(todo)]
  <2>1. /\ all \in Seq(StepNames) /\ Len(all) = Len(todo) + Len(more)
        /\ Len(todo) \in Nat /\ Len(more) \in Nat
        /\ \A i \in 1..Len(todo) : all[i] = todo[i]
        /\ \A i \in 1..Len(more) : all[Len(todo) + i] = more[i]
    BY <1>1, OneAfterTheOther
  <2> HIDE DEF all
  <2>2. ASSUME NEW i \in 1..Len(all), i > Len(todo)
        PROVE  all[i] = more[i - Len(todo)]
    <3>1. PICK k : k = i - Len(todo)
      OBVIOUS
    <3>2. k \in 1..Len(more) /\ i = Len(todo) + k
      BY <2>1, <2>2, <3>1
    <3>3. QED
      BY <2>1, <3>1, <3>2
  <2>3. QED
    BY <2>1, <2>2
<1> HIDE DEF all
<1>3. /\ Len(todo) >= 5
      /\ todo[1] = "unpack" /\ todo[2] = "complete" /\ todo[5] = "edit"
      /\ d = Prepared => todo[3] = "overlay"
      /\ \A i \in 2..Len(todo) : todo[i] # "remove" /\ todo[i] # "unpack"
  BY DEF MakesTree
<1>4. /\ Len(all) >= 5
      /\ all[1] = "unpack" /\ all[2] = "complete" /\ all[5] = "edit"
      /\ d = Prepared => all[3] = "overlay"
  BY SMTT(30), <1>2, <1>3
<1>5. ASSUME NEW i \in 2..Len(all) PROVE all[i] # "remove" /\ all[i] # "unpack"
  <2>1. CASE i <= Len(todo)
    BY <1>2, <1>3, <2>1
  <2>2. CASE i > Len(todo)
    <3>1. i - Len(todo) \in 1..Len(more) /\ all[i] = more[i - Len(todo)]
      BY <1>2, <2>2
    <3>2. QED
      BY <1>1, <3>1 DEF QuietSteps
  <2>3. QED
    BY <1>2, <2>1, <2>2
<1>6. QED
  BY <1>2, <1>4, <1>5 DEF MakesTree, all

LEMMA MakesTreeOK ==
    ASSUME NEW todo, NEW d, MakesTree(todo, d)
    PROVE  /\ TodoOK(todo, d) /\ todo # <<>>
           /\ "unpack" \in Range(todo) /\ "complete" \in Range(todo)
           /\ "edit" \in Range(todo) /\ "remove" \notin Range(todo)
           /\ d = Prepared => "overlay" \in Range(todo)
<1>1. /\ todo \in Seq(StepNames) /\ Len(todo) >= 5 /\ Len(todo) \in Nat
      /\ DOMAIN todo = 1..Len(todo)
      /\ todo[1] = "unpack" /\ todo[2] = "complete" /\ todo[5] = "edit"
      /\ d = Prepared => todo[3] = "overlay"
      /\ \A i \in 2..Len(todo) : todo[i] # "remove" /\ todo[i] # "unpack"
  BY DEF MakesTree
<1>2. /\ "unpack" \in Range(todo) /\ "complete" \in Range(todo)
      /\ "edit" \in Range(todo)
      /\ d = Prepared => "overlay" \in Range(todo)
  <2>1. 1 \in 1..Len(todo) /\ 2 \in 1..Len(todo) /\ 3 \in 1..Len(todo) /\ 5 \in 1..Len(todo)
    BY <1>1
  <2>2. QED
    BY <1>1, <2>1 DEF Range
<1>3. \A i \in 1..Len(todo) :
          /\ todo[i] # "remove"
          /\ todo[i] = "unpack" => i = 1
  BY <1>1
<1>4. "remove" \notin Range(todo)
  BY <1>1, <1>3 DEF Range
<1>5. todo # <<>>
  BY <1>1
<1>6. QED
  BY <1>1, <1>2, <1>3, <1>4, <1>5 DEF TodoOK

LEMMA RemovedFirst ==
    ASSUME NEW todo, NEW d, MakesTree(todo, d)
    PROVE  /\ TodoOK(<<"remove">> \o todo, d) /\ <<"remove">> \o todo # <<>>
           /\ "remove" \in Range(<<"remove">> \o todo)
           /\ Range(todo) \subseteq Range(<<"remove">> \o todo)
<1> DEFINE all == <<"remove">> \o todo
<1>1. /\ todo \in Seq(StepNames) /\ Len(todo) >= 5 /\ Len(todo) \in Nat
      /\ \A i \in 2..Len(todo) : todo[i] # "remove" /\ todo[i] # "unpack"
      /\ todo[1] = "unpack" /\ DOMAIN todo = 1..Len(todo)
  BY DEF MakesTree
<1>2. <<"remove">> \in Seq(StepNames) /\ Len(<<"remove">>) = 1
  BY DEF StepNames
<1>3. /\ all \in Seq(StepNames) /\ Len(all) = 1 + Len(todo) /\ DOMAIN all = 1..Len(all)
      /\ all[1] = "remove"
      /\ \A i \in 1..Len(todo) : all[i + 1] = todo[i]
  BY <1>1, <1>2
<1> HIDE DEF all
<1>4. \A i \in 1..Len(all) : i = 1 \/ (i - 1 \in 1..Len(todo) /\ all[i] = todo[i - 1])
  BY <1>1, <1>3
<1>5. \A i \in 1..Len(all) :
          /\ all[i] = "remove" => i = 1
          /\ all[i] = "unpack" => i = 1 \/ (i = 2 /\ all[1] = "remove")
  <2>1. ASSUME NEW i \in 1..Len(all), i # 1
        PROVE  all[i] # "remove" /\ (all[i] = "unpack" => i = 2)
    <3>1. i - 1 \in 1..Len(todo) /\ all[i] = todo[i - 1]
      BY <1>4, <2>1
    <3>2. i - 1 = 1 \/ i - 1 \in 2..Len(todo)
      BY <1>1, <3>1
    <3>3. QED
      BY <1>1, <3>1, <3>2
  <2>2. QED
    BY <1>3, <2>1
<1>6. Range(todo) \subseteq Range(all)
  <2>1. ASSUME NEW x \in Range(todo) PROVE x \in Range(all)
    <3>1. PICK i \in 1..Len(todo) : x = todo[i]
      BY <1>1 DEF Range
    <3>2. i + 1 \in 1..Len(all) /\ all[i + 1] = x
      BY <1>1, <1>3, <3>1
    <3>3. QED
      BY <1>3, <3>2 DEF Range
  <2>2. QED
    BY <2>1
<1>7. "remove" \in Range(all)
  BY <1>1, <1>3 DEF Range
<1>8. /\ "unpack" \in Range(all) /\ "complete" \in Range(all) /\ "edit" \in Range(all)
      /\ d = Prepared => "overlay" \in Range(all)
  BY <1>6, MakesTreeOK
<1>9. all # <<>>
  BY <1>1, <1>3
<1>10. QED
  BY <1>3, <1>5, <1>6, <1>7, <1>8, <1>9 DEF TodoOK, all

LEMMA QuietParts ==
    ASSUME NEW ask
    PROVE  /\ Save(ask) \in Seq(QuietSteps) /\ Warm(ask) \in Seq(QuietSteps)
           /\ <<"manifest">> \in Seq(QuietSteps)
           /\ <<"edit">> \in Seq(QuietSteps)
           /\ <<"config", "cache">> \in Seq(QuietSteps)
           /\ <<"edit", "config", "cache">> \in Seq(QuietSteps)
<1>1. Save(ask) \in Seq(QuietSteps)
  <2>1. <<"read", "truncate", "write">> \in Seq(QuietSteps) /\ <<>> \in Seq(QuietSteps)
    BY DEF QuietSteps, StepNames
  <2>2. Save(ask) = <<"read", "truncate", "write">> \/ Save(ask) = <<>>
    BY Zenon DEF Save
  <2>3. QED
    BY <2>1, <2>2
<1>2. Warm(ask) \in Seq(QuietSteps)
  <2>1. <<"warm">> \in Seq(QuietSteps) /\ <<>> \in Seq(QuietSteps)
    BY DEF QuietSteps, StepNames
  <2>2. Warm(ask) = <<"warm">> \/ Warm(ask) = <<>>
    BY Zenon DEF Warm
  <2>3. QED
    BY <2>1, <2>2
<1>3. /\ <<"manifest">> \in Seq(QuietSteps) /\ <<"edit">> \in Seq(QuietSteps)
      /\ <<"config", "cache">> \in Seq(QuietSteps)
      /\ <<"edit", "config", "cache">> \in Seq(QuietSteps)
  BY DEF QuietSteps, StepNames
<1>4. QED
  BY <1>1, <1>2, <1>3

LEMMA NewStepsMake ==
    ASSUME NEW ask \in Requests
    PROVE  MakesTree(NewSteps(ask), ask.dir)
<1>1. CASE ask.kind = "prepare"
  <2> DEFINE first == <<"unpack", "complete", "overlay", "config", "edit">>
  <2>1. MakesTree(first, ask.dir)
    BY DEF MakesTree, StepNames
  <2>2. NewSteps(ask) = ((first \o Warm(ask)) \o <<"manifest">>) \o Save(ask)
    BY <1>1 DEF NewSteps
  <2> HIDE DEF first
  <2>3. MakesTree(first \o Warm(ask), ask.dir)
    BY <2>1, QuietParts, MakesTreeOn
  <2>4. MakesTree((first \o Warm(ask)) \o <<"manifest">>, ask.dir)
    BY <2>3, QuietParts, MakesTreeOn
  <2>5. MakesTree(((first \o Warm(ask)) \o <<"manifest">>) \o Save(ask), ask.dir)
    BY <2>4, QuietParts, MakesTreeOn
  <2>6. QED
    BY <2>2, <2>5
<1>2. CASE ask.kind # "prepare"
  <2> DEFINE first == <<"unpack", "complete", "config", "cache", "edit">>
  <2>0. ask.dir # Prepared
    BY <1>2, RequestsKnown, PreparedIsNoBaseline DEF RequestSpace
  <2>1. MakesTree(first, ask.dir)
    BY <2>0 DEF MakesTree, StepNames
  <2>2. NewSteps(ask) = (first \o Save(ask)) \o <<"manifest">>
    BY <1>2 DEF NewSteps
  <2> HIDE DEF first
  <2>3. MakesTree(first \o Save(ask), ask.dir)
    BY <2>1, QuietParts, MakesTreeOn
  <2>4. MakesTree((first \o Save(ask)) \o <<"manifest">>, ask.dir)
    BY <2>3, QuietParts, MakesTreeOn
  <2>5. QED
    BY <2>2, <2>4
<1>3. QED
  BY <1>1, <1>2

LEMMA ReuseStepsOK ==
    ASSUME NEW ask \in Requests
    PROVE  /\ TodoOK(ReuseSteps(ask), ask.dir) /\ ReuseSteps(ask) # <<>>
           /\ "edit" \in Range(ReuseSteps(ask))
           /\ Range(ReuseSteps(ask)) \subseteq QuietSteps
<1>1. /\ ReuseSteps(ask) \in Seq(QuietSteps)
      /\ Len(ReuseSteps(ask)) >= 1 /\ ReuseSteps(ask)[1] = "edit"
  <2>1. CASE ask.kind = "prepare"
    <3>1. ReuseSteps(ask) = (<<"edit">> \o Save(ask)) \o Warm(ask)
      BY <2>1 DEF ReuseSteps
    <3>2. /\ <<"edit">> \o Save(ask) \in Seq(QuietSteps)
          /\ Len(<<"edit">> \o Save(ask)) >= 1 /\ (<<"edit">> \o Save(ask))[1] = "edit"
      BY QuietParts
    <3> DEFINE front == <<"edit">> \o Save(ask)
    <3> HIDE DEF front
    <3>3. /\ front \o Warm(ask) \in Seq(QuietSteps)
          /\ Len(front \o Warm(ask)) >= 1 /\ (front \o Warm(ask))[1] = "edit"
      BY <3>2, QuietParts DEF front
    <3>4. QED
      BY <3>1, <3>3 DEF front
  <2>2. CASE ask.kind # "prepare"
    <3>1. ReuseSteps(ask) = <<"edit", "config", "cache">> \o Save(ask)
      BY <2>2 DEF ReuseSteps
    <3>2. QED
      BY <3>1, QuietParts
  <2>3. QED
    BY <2>1, <2>2
<1> DEFINE todo == ReuseSteps(ask)
<1>2. /\ todo \in Seq(QuietSteps) /\ todo \in Seq(StepNames)
      /\ DOMAIN todo = 1..Len(todo) /\ Len(todo) \in Nat
      /\ Len(todo) >= 1 /\ todo[1] = "edit"
      /\ \A i \in 1..Len(todo) : todo[i] \in QuietSteps
  BY <1>1 DEF QuietSteps
<1> HIDE DEF todo
<1>3. "edit" \in Range(todo) /\ Range(todo) \subseteq QuietSteps /\ todo # <<>>
  BY <1>2 DEF Range
<1>4. \A i \in 1..Len(todo) : todo[i] # "remove" /\ todo[i] # "unpack"
  BY <1>2 DEF QuietSteps
<1>5. "remove" \notin Range(todo) /\ "unpack" \notin Range(todo)
  BY <1>3 DEF QuietSteps
<1>6. QED
  BY <1>2, <1>3, <1>4, <1>5 DEF TodoOK, todo

LEMMA AdvanceIs ==
    ASSUME TreesOK, NEW j \in Jobs, NEW step, At(j, step), NEW held, Advance(j, held)
    PROVE  /\ JobsTyped'
           /\ \A i \in Jobs \ {j} : job'[i] = job[i]
           /\ job'[j].ask = job[j].ask /\ job'[j].todo = Tail(job[j].todo)
           /\ job'[j].status = IF Tail(job[j].todo) = <<>> THEN "done" ELSE "going"
           /\ Going(j) /\ job[j].ask \in Requests /\ job[j].ask.dir \in Directories
           /\ TodoOK(job[j].todo, job[j].ask.dir) /\ TodoOK(Tail(job[j].todo), job[j].ask.dir)
           /\ Range(job[j].todo) = {step} \cup Range(Tail(job[j].todo))
           /\ "remove" \notin Range(Tail(job[j].todo))
           /\ "unpack" \in Range(Tail(job[j].todo)) => step = "remove"
<1>1. Going(j) /\ Head(job[j].todo) = step
  BY DEF At
<1>2. /\ job[j].ask \in Requests /\ job[j].todo # <<>>
      /\ TodoOK(job[j].todo, job[j].ask.dir)
  BY <1>1 DEF TreesOK
<1>3. job[j].ask.dir \in Directories
  BY <1>2, AskedDir
<1>4. /\ TodoOK(Tail(job[j].todo), job[j].ask.dir)
      /\ Range(job[j].todo) = {step} \cup Range(Tail(job[j].todo))
      /\ "remove" \notin Range(Tail(job[j].todo))
      /\ "unpack" \in Range(Tail(job[j].todo)) => step = "remove"
  BY <1>1, <1>2, TodoShrinks
<1> DEFINE rest == Tail(job[j].todo)
           status == IF rest = <<>> THEN "done" ELSE "going"
<1>5. /\ job = [i \in Jobs |-> job[i]]
      /\ \A i \in Jobs : job[i] = [k \in {"ask", "todo", "held", "status"} |-> job[i][k]]
      /\ job' = [job EXCEPT ![j].todo = rest, ![j].held = held, ![j].status = status]
  BY DEF TreesOK, JobsTyped, Advance
<1> HIDE DEF rest, status
<1>6. /\ job' = [i \in Jobs |-> job'[i]]
      /\ \A i \in Jobs : job'[i] = [k \in {"ask", "todo", "held", "status"} |-> job'[i][k]]
      /\ \A i \in Jobs \ {j} : job'[i] = job[i]
      /\ job'[j].ask = job[j].ask /\ job'[j].todo = rest /\ job'[j].status = status
  BY <1>5
<1>7. JobsTyped'
  BY <1>6 DEF JobsTyped
<1>8. QED
  BY <1>1, <1>2, <1>3, <1>4, <1>6, <1>7 DEF rest, status

\* A step that leaves its directory as what is ahead supposes is all right.
LEMMA StepDone ==
    ASSUME TreesOK, NEW j \in Jobs, NEW step, At(j, step), NEW held, Advance(j, held),
           DirsTyped',
           \A d \in Directories : d # job[j].ask.dir => dirs'[d] = dirs[d],
           \/ lost' = lost
           \/ /\ lost' = lost \ {job[j].ask.dir}
              /\ \A i \in Jobs \ {j} : Going(i) => job[i].ask.dir # job[j].ask.dir,
           job[j].ask.dir \notin lost' =>
              Stands(job[j].ask.dir, Range(Tail(job[j].todo)), dirs'[job[j].ask.dir])
    PROVE  TreesOK' /\ FinishedWhole
<1> DEFINE d == job[j].ask.dir
           rest == Tail(job[j].todo)
<1>1. /\ JobsTyped'
      /\ \A i \in Jobs \ {j} : job'[i] = job[i]
      /\ job'[j].ask = job[j].ask /\ job'[j].todo = rest
      /\ job'[j].status = IF rest = <<>> THEN "done" ELSE "going"
      /\ Going(j) /\ job[j].ask \in Requests /\ d \in Directories
      /\ TodoOK(rest, d)
  BY AdvanceIs
<1>2. /\ \A i \in Jobs \ {j} : Going(i)' = Going(i)
      /\ Going(j)' <=> rest # <<>>
  BY <1>1 DEF Going
<1>3. \A i \in Jobs \ {j} :
         Going(i) /\ job[i].ask.dir = d => d \in lost /\ d \in lost'
  BY <1>1 DEF TreesOK
<1>4. lost' \subseteq lost /\ lost \subseteq lost' \cup {d}
  OBVIOUS
<1>5. \A i \in Jobs : Going(i) => job[i].ask.dir \in Directories
  BY AskedDir DEF TreesOK
<1>6. ASSUME rest = <<>>, d \notin lost'
      PROVE  WholeTree(d) \subseteq dirs'[d]
  <2>1. Stands(d, {}, dirs'[d])
    <3>1. Range(rest) = {}
      BY <1>6 DEF Range
    <3>2. QED
      BY <1>6, <3>1
  <2>2. QED
    BY <2>1 DEF Stands, WholeTree
<1>7. ASSUME NEW i \in Jobs, Going(i)'
      PROVE  /\ job'[i].ask \in Requests /\ job'[i].todo # <<>>
             /\ TodoOK(job'[i].todo, job'[i].ask.dir)
             /\ job'[i].ask.dir \notin lost' =>
                   Stands(job'[i].ask.dir, Range(job'[i].todo), dirs'[job'[i].ask.dir])
  <2>1. CASE i = j
    BY <1>1, <1>2, <1>7, <2>1
  <2>2. CASE i # j
    <3>1. Going(i) /\ job'[i] = job[i]
      BY <1>1, <1>2, <1>7, <2>2
    <3>2. /\ job[i].ask \in Requests /\ job[i].todo # <<>>
          /\ TodoOK(job[i].todo, job[i].ask.dir)
          /\ job[i].ask.dir \notin lost =>
                Stands(job[i].ask.dir, Range(job[i].todo), dirs[job[i].ask.dir])
      BY <3>1 DEF TreesOK
    <3>3. job[i].ask.dir \notin lost' => job[i].ask.dir # d
      BY <1>3, <2>2, <3>1
    <3>4. job[i].ask.dir \notin lost' =>
             job[i].ask.dir \notin lost /\ dirs'[job[i].ask.dir] = dirs[job[i].ask.dir]
      BY <1>4, <1>5, <3>1, <3>3
    <3>5. QED
      BY <3>1, <3>2, <3>4
  <2>3. QED
    BY <2>1, <2>2
<1>8. ASSUME NEW i \in Jobs, NEW k \in Jobs, Going(i)', Going(k)', i # k,
             job'[i].ask.dir = job'[k].ask.dir
      PROVE  job'[i].ask.dir \in lost'
  <2>1. job'[i].ask = job[i].ask /\ job'[k].ask = job[k].ask /\ Going(i) /\ Going(k)
    BY <1>1, <1>2, <1>8
  <2>2. job[i].ask.dir \in lost
    BY <1>8, <2>1 DEF TreesOK
  <2>3. CASE job[i].ask.dir = d
    <3>1. \E l \in Jobs \ {j} : Going(l) /\ job[l].ask.dir = d
      BY <1>8, <2>1, <2>3
    <3>2. QED
      BY <1>3, <2>1, <2>3, <3>1
  <2>4. QED
    BY <1>4, <2>1, <2>2, <2>3
<1>9. ASSUME NEW e \in Directories \ lost', LooksPrepared(e)', ~Shared(e)'
      PROVE  "sources" \in dirs'[e] /\ (e = Prepared => "overlay" \in dirs'[e])
  <2>1. CASE e = d
    <3>1. ~Going(j)'
      BY <1>1, <1>9, <2>1 DEF Shared
    <3>2. WholeTree(d) \subseteq dirs'[d]
      BY <1>2, <1>6, <1>9, <2>1, <3>1
    <3>3. QED
      BY <2>1, <3>2 DEF WholeTree
  <2>2. CASE e # d
    <3>1. ~Shared(e)
      <4>1. ASSUME NEW i \in Jobs, Going(i), job[i].ask.dir = e PROVE FALSE
        <5>1. i # j
          BY <2>2, <4>1
        <5>2. Going(i)' /\ job'[i].ask.dir = e
          BY <1>1, <1>2, <4>1, <5>1
        <5>3. QED
          BY <1>9, <5>2 DEF Shared
      <4>2. QED
        BY <4>1 DEF Shared
    <3>2. dirs'[e] = dirs[e] /\ e \in Directories \ lost
      BY <1>4, <1>9, <2>2
    <3>3. LooksPrepared(e)
      BY <1>9, <3>2 DEF LooksPrepared
    <3>4. QED
      BY <3>1, <3>2, <3>3 DEF TreesOK
  <2>3. QED
    BY <2>1, <2>2
<1>10. TreesOK'
  BY <1>1, <1>7, <1>8, <1>9 DEF TreesOK
<1>11. FinishedWhole
  <2>1. ASSUME NEW i \in Jobs, Going(i), job'[i].status = "done", job[i].ask.dir \notin lost'
        PROVE  WholeTree(job[i].ask.dir) \subseteq dirs'[job[i].ask.dir]
    <3>1. i = j
      <4>1. job[i].status = "going"
        BY <2>1 DEF Going
      <4>2. QED
        BY <1>1, <2>1, <4>1
    <3>2. rest = <<>>
      BY <1>1, <2>1, <3>1
    <3>3. QED
      BY <1>6, <2>1, <3>1, <3>2
  <2>2. QED
    BY <2>1 DEF FinishedWhole
<1>12. QED
  BY <1>10, <1>11

LEMMA TreeRemoved == TreesOK => \A j \in Jobs : RemoveTree(j) => TreesOK' /\ FinishedWhole
<1> SUFFICES ASSUME TreesOK, NEW j \in Jobs, RemoveTree(j) PROVE TreesOK' /\ FinishedWhole
  OBVIOUS
<1> DEFINE d == job[j].ask.dir
           rest == Tail(job[j].todo)
<1>1. /\ At(j, "remove") /\ Advance(j, job[j].held)
      /\ dirs' = [dirs EXCEPT ![d] = {}]
      /\ lost' = IF \E i \in Jobs \ {j} : Going(i) /\ job[i].ask.dir = d
                 THEN lost ELSE lost \ {d}
  BY DEF RemoveTree
<1>2. /\ d \in Directories /\ TodoOK(job[j].todo, d)
      /\ Range(job[j].todo) = {"remove"} \cup Range(rest)
  BY <1>1, AdvanceIs
<1>3. DirsTyped' /\ dirs'[d] = {} /\ \A e \in Directories : e # d => dirs'[e] = dirs[e]
  BY <1>1, <1>2 DEF TreesOK, DirsTyped
<1>4. \/ lost' = lost
      \/ lost' = lost \ {d} /\ \A i \in Jobs \ {j} : Going(i) => job[i].ask.dir # d
  BY <1>1
<1>5. /\ "unpack" \in Range(rest) /\ "complete" \in Range(rest) /\ "edit" \in Range(rest)
      /\ d = Prepared => "overlay" \in Range(rest)
  BY <1>2 DEF TodoOK
<1>6. Stands(d, Range(rest), dirs'[d])
  BY <1>3, <1>5 DEF Stands
<1>7. QED
  BY <1>1, <1>3, <1>4, <1>6, StepDone

LEMMA TreeUnpacked == TreesOK => \A j \in Jobs : Unpack(j) => TreesOK' /\ FinishedWhole
<1> SUFFICES ASSUME TreesOK, NEW j \in Jobs, Unpack(j) PROVE TreesOK' /\ FinishedWhole
  OBVIOUS
<1> DEFINE d == job[j].ask.dir
           rest == Tail(job[j].todo)
           new == IF dirs[d] = {} \/ d # Prepared THEN {"dir", "makefile", "script"}
                  ELSE dirs[d]
<1>1. /\ At(j, "unpack") /\ Advance(j, job[j].held)
      /\ dirs' = [dirs EXCEPT ![d] = new] /\ lost' = lost
  BY DEF Unpack
<1>2. /\ d \in Directories /\ TodoOK(job[j].todo, d) /\ Going(j)
      /\ Range(job[j].todo) = {"unpack"} \cup Range(rest)
      /\ "remove" \notin Range(rest)
      /\ "unpack" \notin Range(rest)
  <2>1. "unpack" \in Range(rest) => "unpack" = "remove"
    BY <1>1, AdvanceIs
  <2>2. QED
    BY <1>1, <2>1, AdvanceIs
<1>3. new = {} \/ "dir" \in new
  BY <1>2 DEF TreesOK, DirsTyped
<1>4. DirsTyped' /\ dirs'[d] = new /\ \A e \in Directories : e # d => dirs'[e] = dirs[e]
  <2> HIDE DEF new
  <2>1. QED
    BY <1>1, <1>2, <1>3 DEF TreesOK, DirsTyped
<1>5. /\ "complete" \in Range(rest) /\ "edit" \in Range(rest)
      /\ d = Prepared => "overlay" \in Range(rest)
  BY <1>2 DEF TodoOK
<1>6. ASSUME d \notin lost PROVE Stands(d, Range(rest), dirs'[d])
  <2>1. Stands(d, Range(job[j].todo), dirs[d])
    BY <1>2, <1>6 DEF TreesOK
  <2>2. dirs[d] = {}
    BY <1>2, <2>1 DEF Stands
  <2>3. "dir" \in dirs'[d] /\ "makefile" \in dirs'[d] /\ "script" \in dirs'[d]
    BY <1>4, <2>2
  <2>4. QED
    BY <1>2, <1>5, <2>3 DEF Stands
<1>7. QED
  BY <1>1, <1>4, <1>6, StepDone

\* A step that neither removes nor unpacks, and adds what it is there for.
LEMMA TreeGrows ==
    ASSUME TreesOK, NEW j \in Jobs, NEW step, At(j, step), NEW held, Advance(j, held),
           step # "remove", step # "unpack",
           lost' = lost, DirsTyped',
           \A d \in Directories : d # job[j].ask.dir => dirs'[d] = dirs[d],
           dirs[job[j].ask.dir] \subseteq dirs'[job[j].ask.dir],
           step = "complete" => "sources" \in dirs'[job[j].ask.dir],
           step = "overlay" => "overlay" \in dirs'[job[j].ask.dir],
           step = "edit" /\ "script" \in dirs[job[j].ask.dir] =>
              "edited" \in dirs'[job[j].ask.dir]
    PROVE  TreesOK' /\ FinishedWhole
<1> DEFINE d == job[j].ask.dir
           rest == Tail(job[j].todo)
<1>1. /\ Range(job[j].todo) = {step} \cup Range(rest)
      /\ "remove" \notin Range(rest) /\ "unpack" \notin Range(rest)
      /\ Going(j)
  BY AdvanceIs
<1>2. ASSUME d \notin lost' PROVE Stands(d, Range(rest), dirs'[d])
  <2>1. Stands(d, Range(job[j].todo), dirs[d])
    BY <1>1, <1>2 DEF TreesOK
  <2>2. "remove" \notin Range(job[j].todo) /\ "unpack" \notin Range(job[j].todo)
    BY <1>1
  <2>3. "dir" \in dirs[d] /\ "makefile" \in dirs[d] /\ "script" \in dirs[d]
    BY <2>1, <2>2 DEF Stands
  <2>4. "complete" \notin Range(rest) => "sources" \in dirs'[d]
    BY <1>1, <2>1 DEF Stands
  <2>5. d = Prepared /\ "overlay" \notin Range(rest) => "overlay" \in dirs'[d]
    BY <1>1, <2>1 DEF Stands
  <2>6. "edit" \notin Range(rest) => "edited" \in dirs'[d]
    BY <1>1, <2>1, <2>3 DEF Stands
  <2>7. QED
    BY <1>1, <2>3, <2>4, <2>5, <2>6 DEF Stands
<1>3. QED
  BY <1>2, StepDone

LEMMA TreeWorkedOn == TreesOK => \A j \in Jobs : WorkOnTree(j) => TreesOK' /\ FinishedWhole
<1> SUFFICES ASSUME TreesOK, NEW j \in Jobs, WorkOnTree(j) PROVE TreesOK' /\ FinishedWhole
  OBVIOUS
<1> DEFINE d == job[j].ask.dir
<1>1. PICK step \in {"complete", "overlay", "config", "cache", "edit", "warm", "manifest"} :
         /\ At(j, step) /\ dirs[d] # {}
         /\ dirs' = [dirs EXCEPT ![d] = @ \cup Added(step, d)]
  BY DEF WorkOnTree
<1>2. Advance(j, job[j].held) /\ lost' = lost
  BY DEF WorkOnTree
<1>3. d \in Directories
  BY <1>1, <1>2, AdvanceIs
<1>4. dirs'[d] = dirs[d] \cup Added(step, d)
  BY <1>1, <1>3 DEF TreesOK, DirsTyped
<1>5. DirsTyped' /\ \A e \in Directories : e # d => dirs'[e] = dirs[e]
  BY <1>1, <1>3 DEF TreesOK, DirsTyped
<1>6. /\ step = "complete" => Added(step, d) = {"sources"}
      /\ step = "overlay" => Added(step, d) = {"overlay"}
      /\ step = "edit" /\ "script" \in dirs[d] => Added(step, d) = {"edited"}
  BY DEF Added
<1>7. /\ step = "complete" => "sources" \in dirs'[d]
      /\ step = "overlay" => "overlay" \in dirs'[d]
      /\ step = "edit" /\ "script" \in dirs[d] => "edited" \in dirs'[d]
  BY <1>4, <1>6
<1>8. QED
  BY SMTT(30), <1>1, <1>2, <1>4, <1>5, <1>7, TreeGrows

LEMMA SettingsSaved ==
    TreesOK => \A j \in Jobs :
       ReadSettings(j) \/ TruncateSettings(j) \/ WriteSettings(j) => TreesOK' /\ FinishedWhole
<1> SUFFICES ASSUME TreesOK, NEW j \in Jobs,
                    ReadSettings(j) \/ TruncateSettings(j) \/ WriteSettings(j)
             PROVE  TreesOK' /\ FinishedWhole
  OBVIOUS
<1>1. PICK step \in {"read", "truncate", "write"}, held \in {Saved(settings, job[j].ask.dir),
                                                            job[j].held, Empty} :
         At(j, step) /\ Advance(j, held)
  BY DEF ReadSettings, TruncateSettings, WriteSettings
<1>2. dirs' = dirs /\ lost' = lost
  BY DEF ReadSettings, TruncateSettings, WriteSettings
<1>3. DirsTyped'
  BY <1>2 DEF TreesOK, DirsTyped
<1>4. QED
  BY <1>1, <1>2, <1>3, TreeGrows

LEMMA TreeLeft == TreesOK => \A j \in Jobs : BreakOff(j) => TreesOK' /\ FinishedWhole
<1> SUFFICES ASSUME TreesOK, NEW j \in Jobs, BreakOff(j) PROVE TreesOK' /\ FinishedWhole
  OBVIOUS
<1> DEFINE d == job[j].ask.dir
           early == {"complete", "overlay"} \cap Range(job[j].todo) # {}
<1>1. /\ Going(j)
      /\ dirs' \in {[dirs EXCEPT ![d] = left] :
                      left \in IF At(j, "remove") THEN Torn(d) ELSE {dirs[d]}}
      /\ lost' = IF early /\ dirs[d] # {} THEN lost \cup {d} ELSE lost
      /\ job' = [job EXCEPT ![j].todo = <<>>, ![j].status = "failed"]
  BY DEF BreakOff
<1>2. /\ job[j].ask \in Requests /\ d \in Directories /\ job[j].todo # <<>>
      /\ TodoOK(job[j].todo, d)
      /\ d \notin lost => Stands(d, Range(job[j].todo), dirs[d])
  BY <1>1, AskedDir DEF TreesOK
<1>3. /\ job = [i \in Jobs |-> job[i]]
      /\ \A i \in Jobs : job[i] = [k \in {"ask", "todo", "held", "status"} |-> job[i][k]]
  BY DEF TreesOK, JobsTyped
<1>4. /\ job' = [i \in Jobs |-> job'[i]]
      /\ \A i \in Jobs : job'[i] = [k \in {"ask", "todo", "held", "status"} |-> job'[i][k]]
      /\ \A i \in Jobs \ {j} : job'[i] = job[i]
      /\ job'[j].ask = job[j].ask /\ job'[j].status = "failed"
  BY <1>1, <1>3
<1>5. JobsTyped'
  BY <1>4 DEF JobsTyped
<1>6. /\ \A i \in Jobs \ {j} : Going(i)' = Going(i)
      /\ ~Going(j)'
  BY <1>4 DEF Going
<1>7. PICK left \in IF At(j, "remove") THEN Torn(d) ELSE {dirs[d]} :
         dirs' = [dirs EXCEPT ![d] = left]
  BY <1>1
<1>8. left = dirs[d] \/ (At(j, "remove") /\ "dir" \in left /\ left \subseteq {"dir"} \cup dirs[d])
  BY <1>7 DEF Torn
<1>9. /\ dirs'[d] = left /\ \A e \in Directories : e # d => dirs'[e] = dirs[e]
      /\ DirsTyped'
  BY <1>2, <1>7, <1>8 DEF TreesOK, DirsTyped
<1>10. \A i \in Jobs : Going(i) => job[i].ask.dir \in Directories
  BY AskedDir DEF TreesOK
<1>11. lost \subseteq lost' /\ lost' \subseteq lost \cup {d}
  BY <1>1
<1>12. \A i \in Jobs \ {j} : Going(i) /\ job[i].ask.dir = d => d \in lost
  BY <1>1 DEF TreesOK
<1>13. ASSUME NEW i \in Jobs, Going(i)'
       PROVE  /\ job'[i].ask \in Requests /\ job'[i].todo # <<>>
              /\ TodoOK(job'[i].todo, job'[i].ask.dir)
              /\ job'[i].ask.dir \notin lost' =>
                    Stands(job'[i].ask.dir, Range(job'[i].todo), dirs'[job'[i].ask.dir])
  <2>1. i # j /\ Going(i) /\ job'[i] = job[i]
    BY <1>4, <1>6, <1>13
  <2>2. /\ job[i].ask \in Requests /\ job[i].todo # <<>>
        /\ TodoOK(job[i].todo, job[i].ask.dir)
        /\ job[i].ask.dir \notin lost =>
              Stands(job[i].ask.dir, Range(job[i].todo), dirs[job[i].ask.dir])
    BY <2>1 DEF TreesOK
  <2>3. job[i].ask.dir \notin lost' => job[i].ask.dir \notin lost /\ job[i].ask.dir # d
    BY <1>11, <1>12, <2>1
  <2>4. job[i].ask.dir \notin lost' => dirs'[job[i].ask.dir] = dirs[job[i].ask.dir]
    BY <1>9, <1>10, <2>1, <2>3
  <2>5. QED
    BY <2>1, <2>2, <2>3, <2>4
<1>14. ASSUME NEW i \in Jobs, NEW k \in Jobs, Going(i)', Going(k)', i # k,
              job'[i].ask.dir = job'[k].ask.dir
       PROVE  job'[i].ask.dir \in lost'
  <2>1. /\ job'[i] = job[i] /\ job'[k] = job[k] /\ Going(i) /\ Going(k)
    BY <1>4, <1>6, <1>14
  <2>2. job[i].ask.dir \in lost
    BY <1>14, <2>1 DEF TreesOK
  <2>3. QED
    BY <1>11, <2>1, <2>2
<1>15. ASSUME NEW e \in Directories \ lost', LooksPrepared(e)', ~Shared(e)'
       PROVE  "sources" \in dirs'[e] /\ (e = Prepared => "overlay" \in dirs'[e])
  <2>1. CASE e = d
    <3>1. d \notin lost /\ ~(early /\ dirs[d] # {})
      BY <1>1, <1>15, <2>1
    <3>2. Stands(d, Range(job[j].todo), dirs[d])
      BY <1>2, <3>1
    <3>3. "makefile" \in left
      BY <1>9, <1>15, <2>1 DEF LooksPrepared
    <3>4. dirs[d] # {}
      BY <1>8, <3>3
    <3>5. ~early
      BY <3>1, <3>4
    <3>6. "complete" \notin Range(job[j].todo) /\ "overlay" \notin Range(job[j].todo)
      BY <3>5
    <3>7. ~At(j, "remove")
      <4>1. Range(job[j].todo) = {Head(job[j].todo)} \cup Range(Tail(job[j].todo))
        BY <1>2, TodoShrinks
      <4>2. "remove" \notin Range(job[j].todo)
        BY <1>2, <3>6 DEF TodoOK
      <4>3. QED
        BY <4>1, <4>2 DEF At
    <3>8. dirs'[d] = dirs[d]
      BY <1>8, <1>9, <3>7
    <3>9. QED
      BY <2>1, <3>2, <3>6, <3>8 DEF Stands
  <2>2. CASE e # d
    <3>1. ~Shared(e)
      <4>1. ASSUME NEW i \in Jobs, Going(i), job[i].ask.dir = e PROVE FALSE
        <5>1. i # j
          BY <2>2, <4>1
        <5>2. Going(i)' /\ job'[i].ask.dir = e
          BY <1>4, <1>6, <4>1, <5>1
        <5>3. QED
          BY <1>15, <5>2 DEF Shared
      <4>2. QED
        BY <4>1 DEF Shared
    <3>2. dirs'[e] = dirs[e] /\ e \in Directories \ lost
      BY <1>9, <1>11, <1>15, <2>2
    <3>3. LooksPrepared(e)
      BY <1>15, <3>2 DEF LooksPrepared
    <3>4. QED
      BY <3>1, <3>2, <3>3 DEF TreesOK
  <2>3. QED
    BY <2>1, <2>2
<1>16. FinishedWhole
  <2>1. ASSUME NEW i \in Jobs, Going(i), job'[i].status = "done" PROVE FALSE
    <3>1. i # j
      BY <1>4, <2>1
    <3>2. QED
      BY <1>4, <2>1, <3>1 DEF Going
  <2>2. QED
    BY <2>1 DEF FinishedWhole
<1>17. QED
  BY <1>5, <1>9, <1>13, <1>14, <1>15, <1>16 DEF TreesOK

LEMMA JobBegins == TreesOK => \A j \in Jobs : Begin(j) => TreesOK' /\ FinishedWhole
<1> SUFFICES ASSUME TreesOK, NEW j \in Jobs, Begin(j) PROVE TreesOK' /\ FinishedWhole
  OBVIOUS
<1>1. PICK ask \in Requests : ReuseService(j, ask) \/ StartJob(j, ask)
  BY DEF Begin
<1>2. job[j].status = "idle" /\ ~Going(j)
  BY DEF Begin, Going
<1>3. dirs' = dirs /\ DirsTyped'
  <2>1. dirs' = dirs
    BY <1>1 DEF ReuseService, StartJob
  <2>2. QED
    BY <2>1 DEF TreesOK, DirsTyped
<1>4. /\ job = [i \in Jobs |-> job[i]]
      /\ \A i \in Jobs : job[i] = [k \in {"ask", "todo", "held", "status"} |-> job[i][k]]
  BY DEF TreesOK, JobsTyped
<1> DEFINE d == ask.dir
           steps == IF "dir" \notin dirs[d] THEN NewSteps(ask)
                    ELSE IF ask.force THEN <<"remove">> \o NewSteps(ask)
                    ELSE IF LooksPrepared(d) THEN ReuseSteps(ask)
                    ELSE <<>>
           begun == IF steps = <<>> THEN "failed" ELSE "going"
<1>5. d \in Directories
  BY AskedDir
<1>6. \/ /\ job' = [job EXCEPT ![j].ask = ask, ![j].status = "reused"] /\ lost' = lost
      \/ /\ job' = [job EXCEPT ![j].ask = ask, ![j].todo = steps, ![j].status = begun]
         /\ lost' = IF Shared(d) THEN lost \cup {d} ELSE lost
  BY <1>1 DEF ReuseService, StartJob
<1>7. /\ \/ "dir" \notin dirs[d] /\ steps = NewSteps(ask)
         \/ "dir" \in dirs[d] /\ steps = <<"remove">> \o NewSteps(ask)
         \/ LooksPrepared(d) /\ "dir" \in dirs[d] /\ steps = ReuseSteps(ask)
         \/ steps = <<>>
      /\ begun = IF steps = <<>> THEN "failed" ELSE "going"
  OBVIOUS
<1> HIDE DEF steps, begun
<1>8. /\ JobsTyped'
      /\ \A i \in Jobs \ {j} : job'[i] = job[i]
      /\ job'[j].ask = ask
      /\ \/ job'[j].status = "reused" /\ lost' = lost
         \/ /\ job'[j].todo = steps /\ job'[j].status = begun
            /\ lost' = IF Shared(d) THEN lost \cup {d} ELSE lost
  <2>1. /\ job' = [i \in Jobs |-> job'[i]]
        /\ \A i \in Jobs : job'[i] = [k \in {"ask", "todo", "held", "status"} |-> job'[i][k]]
        /\ \A i \in Jobs \ {j} : job'[i] = job[i]
        /\ job'[j].ask = ask
        /\ \/ job'[j].status = "reused" /\ lost' = lost
           \/ /\ job'[j].todo = steps /\ job'[j].status = begun
              /\ lost' = IF Shared(d) THEN lost \cup {d} ELSE lost
    <3>1. CASE job' = [job EXCEPT ![j].ask = ask, ![j].status = "reused"] /\ lost' = lost
      BY <1>4, <3>1
    <3>2. CASE job' = [job EXCEPT ![j].ask = ask, ![j].todo = steps, ![j].status = begun]
               /\ lost' = IF Shared(d) THEN lost \cup {d} ELSE lost
      <4>1. /\ job' = [i \in Jobs |-> job'[i]]
            /\ \A i \in Jobs :
                 job'[i] = [k \in {"ask", "todo", "held", "status"} |-> job'[i][k]]
            /\ \A i \in Jobs \ {j} : job'[i] = job[i]
            /\ job'[j].ask = ask /\ job'[j].todo = steps /\ job'[j].status = begun
        BY <1>4, <3>2
      <4>2. QED
        BY <3>2, <4>1
    <3>3. QED
      BY <1>6, <3>1, <3>2
  <2>2. QED
    BY <2>1 DEF JobsTyped
<1>9. /\ \A i \in Jobs \ {j} : Going(i)' = Going(i)
      /\ Going(j)' => job'[j].todo = steps /\ steps # <<>>
                      /\ lost' = IF Shared(d) THEN lost \cup {d} ELSE lost
  BY <1>7, <1>8 DEF Going
<1>10. lost \subseteq lost' /\ (d \notin lost' /\ Going(j)' => ~Shared(d))
  BY <1>8, <1>9
<1>11. ASSUME Going(j)'
       PROVE  /\ TodoOK(steps, d)
              /\ d \notin lost' => Stands(d, Range(steps), dirs[d])
  <2>1. CASE "dir" \notin dirs[d] /\ steps = NewSteps(ask)
    <3>1. dirs[d] = {}
      BY <1>5, <2>1 DEF TreesOK, DirsTyped
    <3>2. /\ TodoOK(steps, d)
          /\ "unpack" \in Range(steps) /\ "complete" \in Range(steps)
          /\ "edit" \in Range(steps)
          /\ d = Prepared => "overlay" \in Range(steps)
      BY <2>1, NewStepsMake, MakesTreeOK
    <3>3. QED
      BY <3>1, <3>2 DEF Stands
  <2>2. CASE steps = <<"remove">> \o NewSteps(ask)
    <3>1. /\ TodoOK(steps, d) /\ "remove" \in Range(steps)
      BY <2>2, NewStepsMake, RemovedFirst
    <3>2. /\ "unpack" \in Range(steps) /\ "complete" \in Range(steps)
          /\ "edit" \in Range(steps)
          /\ d = Prepared => "overlay" \in Range(steps)
      BY <3>1 DEF TodoOK
    <3>3. QED
      BY <3>1, <3>2 DEF Stands
  <2>3. CASE LooksPrepared(d) /\ "dir" \in dirs[d] /\ steps = ReuseSteps(ask)
    <3>1. TodoOK(steps, d) /\ "edit" \in Range(steps) /\ Range(steps) \subseteq QuietSteps
      BY <2>3, ReuseStepsOK
    <3>2. "remove" \notin Range(steps) /\ "unpack" \notin Range(steps)
      BY <3>1 DEF QuietSteps
    <3>3. d \notin lost' =>
             "sources" \in dirs[d] /\ (d = Prepared => "overlay" \in dirs[d])
      BY <1>5, <1>10, <1>11, <2>3 DEF TreesOK
    <3>4. "makefile" \in dirs[d] /\ "script" \in dirs[d]
      BY <2>3 DEF LooksPrepared
    <3>5. QED
      BY <2>3, <3>1, <3>2, <3>3, <3>4 DEF Stands
  <2>4. QED
    BY <1>7, <1>9, <1>11, <2>1, <2>2, <2>3
<1>12. ASSUME NEW i \in Jobs, Going(i)'
       PROVE  /\ job'[i].ask \in Requests /\ job'[i].todo # <<>>
              /\ TodoOK(job'[i].todo, job'[i].ask.dir)
              /\ job'[i].ask.dir \notin lost' =>
                    Stands(job'[i].ask.dir, Range(job'[i].todo), dirs'[job'[i].ask.dir])
  <2>1. CASE i = j
    BY <1>3, <1>8, <1>9, <1>11, <1>12, <2>1
  <2>2. CASE i # j
    <3>1. Going(i) /\ job'[i] = job[i]
      BY <1>8, <1>9, <1>12, <2>2
    <3>2. /\ job[i].ask \in Requests /\ job[i].todo # <<>>
          /\ TodoOK(job[i].todo, job[i].ask.dir)
          /\ job[i].ask.dir \notin lost =>
                Stands(job[i].ask.dir, Range(job[i].todo), dirs[job[i].ask.dir])
      BY <3>1 DEF TreesOK
    <3>3. QED
      BY <1>3, <1>10, <3>1, <3>2
  <2>3. QED
    BY <2>1, <2>2
<1>13. ASSUME NEW i \in Jobs, NEW k \in Jobs, Going(i)', Going(k)', i # k,
              job'[i].ask.dir = job'[k].ask.dir
       PROVE  job'[i].ask.dir \in lost'
  <2>1. CASE i # j /\ k # j
    <3>1. /\ job'[i] = job[i] /\ job'[k] = job[k] /\ Going(i) /\ Going(k)
      BY <1>8, <1>9, <1>13, <2>1
    <3>2. job[i].ask.dir \in lost
      BY <1>13, <3>1 DEF TreesOK
    <3>3. QED
      BY <1>10, <3>1, <3>2
  <2>2. ASSUME NEW l \in Jobs \ {j}, Going(l)', job'[l].ask.dir = d, Going(j)'
        PROVE  d \in lost'
    <3>1. Shared(d)
      BY <1>8, <1>9, <2>2 DEF Shared
    <3>2. QED
      BY <1>10, <2>2, <3>1
  <2>3. CASE i = j
    BY <1>8, <1>13, <2>2, <2>3
  <2>4. CASE k = j
    BY <1>8, <1>13, <2>2, <2>4
  <2>5. QED
    BY <2>1, <2>3, <2>4
<1>14. ASSUME NEW e \in Directories \ lost', LooksPrepared(e)', ~Shared(e)'
       PROVE  "sources" \in dirs'[e] /\ (e = Prepared => "overlay" \in dirs'[e])
  <2>1. ~Shared(e)
    <3>1. ASSUME NEW i \in Jobs, Going(i), job[i].ask.dir = e PROVE FALSE
      <4>1. i # j
        BY <1>2, <3>1
      <4>2. Going(i)' /\ job'[i].ask.dir = e
        BY <1>8, <1>9, <3>1, <4>1
      <4>3. QED
        BY <1>14, <4>2 DEF Shared
    <3>2. QED
      BY <3>1 DEF Shared
  <2>2. LooksPrepared(e) /\ e \in Directories \ lost
    BY <1>3, <1>10, <1>14 DEF LooksPrepared
  <2>3. QED
    BY <1>3, <2>1, <2>2 DEF TreesOK
<1>15. FinishedWhole
  <2>1. ASSUME NEW i \in Jobs, Going(i), job'[i].status = "done" PROVE FALSE
    <3>1. i # j
      BY <1>2, <2>1
    <3>2. QED
      BY <1>8, <2>1, <3>1 DEF Going
  <2>2. QED
    BY <2>1 DEF FinishedWhole
<1>16. QED
  BY <1>3, <1>8, <1>12, <1>13, <1>14, <1>15 DEF TreesOK

LEMMA TreesStay ==
    TreesOK /\ [TreesNext]_treeVars =>
       TreesOK' /\ (FinishedWhole \/ UNCHANGED treeVars)
<1>1. CASE TreesNext
  BY <1>1, JobBegins, TreeRemoved, TreeUnpacked, TreeWorkedOn, SettingsSaved, TreeLeft
     DEF TreesNext
<1>2. CASE UNCHANGED treeVars
  BY <1>2 DEF treeVars, TreesOK, JobsTyped, DirsTyped, Going, LooksPrepared, Shared
<1>3. QED
  BY <1>1, <1>2

LEMMA TreesFirst == TreesInit => TreesOK
<1> SUFFICES ASSUME TreesInit PROVE TreesOK
  OBVIOUS
<1>1. /\ dirs = [d \in Directories |-> {}]
      /\ job = [j \in Jobs |-> [ask |-> NoRequest, todo |-> <<>>, held |-> Empty,
                                status |-> "idle"]]
  BY DEF TreesInit
<1>2. JobsTyped /\ DirsTyped
  BY <1>1 DEF JobsTyped, DirsTyped
<1>3. \A j \in Jobs : ~Going(j)
  BY <1>1 DEF Going
<1>4. \A d \in Directories : ~LooksPrepared(d)
  BY <1>1 DEF LooksPrepared
<1>5. QED
  BY <1>2, <1>3, <1>4 DEF TreesOK

\* A preparation that reports success leaves a whole tree in its directory, in
\* whatever state an earlier one that broke off had left it - unless it had
\* broken off before its sources and its overlay were there, or two were at it.
THEOREM TreesAreWhole == TreesSpec => SuccessLeavesWholeTree
<1>1. TreesInit => TreesOK
  BY TreesFirst
<1>2. TreesOK /\ [TreesNext]_treeVars => TreesOK'
  BY TreesStay
<1>3. TreesOK /\ [TreesNext]_treeVars => [FinishedWhole]_treeVars
  BY TreesStay
<1>4. TreesSpec => [][FinishedWhole]_treeVars
  BY <1>1, <1>2, <1>3, PTL DEF TreesSpec
<1>5. QED
  BY <1>4 DEF SuccessLeavesWholeTree, FinishedWhole

----------------------------------------------------------------------------
(* build.yaml: who read it has what is written, and nobody else writes     *)

Slots == {SlotOf(d) : d \in Directories}

Names == Slots \cup UNION {Range(p) : p \in Priorities}

CleanTree == "clean_kernel_src_dir"

CleanFirst(p) == Contains(p, CleanTree) => p[1] = CleanTree

SettingsTyped(s) ==
    /\ s \in [broken : BOOLEAN, others : BOOLEAN, priority : Seq(Names),
              path : [Slots -> Directories \cup {NoDir}]]
    /\ CleanFirst(s.priority)

\* The settings name a tree in this slot.
Has(s, slot) == s.path[slot] # NoDir /\ Contains(s.priority, slot)

\* The job has been through with build.yaml.
Through(j) ==
    /\ job[j].ask.write
    /\ job[j].status = "done" \/ (Going(j) /\ "write" \notin Range(job[j].todo))

Registered == {SlotOf(job[j].ask.dir) : j \in {i \in Jobs : Through(i)}}

\* These settings are whole and have these slots.
WellSet(s, slots) ==
    /\ SettingsTyped(s) /\ ~s.broken /\ s.others
    /\ \A slot \in slots : Has(s, slot)

\* A truncation follows a reading, and a writing every truncation.
InOrder(todo) ==
    \A i \in 1..Len(todo) :
       /\ i > 1 /\ todo[i] = "truncate" => todo[i - 1] = "read"
       /\ i > 1 /\ todo[i] = "write" => todo[i - 1] = "truncate"
       /\ todo[i] = "truncate" => i < Len(todo) /\ todo[i + 1] = "write"

\* As long as nobody raced: one job at most is past its reading, what it holds
\* is what all have written, and the file is that or, for that one, empty.
SavesOK ==
    /\ \A j \in Jobs : Going(j) => InOrder(job[j].todo)
    /\ ~raced =>
          /\ \A i, j \in Jobs : Saving(i) /\ Saving(j) => i = j
          /\ \A j \in Jobs : At(j, "write") => settings = Empty
          /\ \A j \in Jobs : Saving(j) =>
                WellSet(job[j].held, Registered) /\ Has(job[j].held, SlotOf(job[j].ask.dir))
          /\ (\A j \in Jobs : ~At(j, "write")) => WellSet(settings, Registered)

Starts(todo) ==
    /\ todo \in Seq(StepNames) /\ InOrder(todo)
    /\ todo # <<>> => todo[1] # "truncate" /\ todo[1] # "write"

LEMMA StartsOn ==
    ASSUME NEW s, NEW t, Starts(s), Starts(t)
    PROVE  /\ Starts(s \o t)
           /\ Range(s) \subseteq Range(s \o t) /\ Range(t) \subseteq Range(s \o t)
<1> DEFINE all == s \o t
<1>1. /\ s \in Seq(StepNames) /\ t \in Seq(StepNames)
      /\ Len(s) \in Nat /\ Len(t) \in Nat
      /\ DOMAIN s = 1..Len(s) /\ DOMAIN t = 1..Len(t)
  BY DEF Starts
<1>2. /\ all \in Seq(StepNames) /\ Len(all) = Len(s) + Len(t) /\ DOMAIN all = 1..Len(all)
      /\ \A i \in 1..Len(s) : all[i] = s[i]
      /\ \A i \in 1..Len(t) : all[Len(s) + i] = t[i]
  BY <1>1
<1> HIDE DEF all
<1>3. /\ \A i \in 1..Len(s) :
            /\ i > 1 /\ s[i] = "truncate" => s[i - 1] = "read"
            /\ i > 1 /\ s[i] = "write" => s[i - 1] = "truncate"
            /\ s[i] = "truncate" => i < Len(s) /\ s[i + 1] = "write"
      /\ \A i \in 1..Len(t) :
            /\ i > 1 /\ t[i] = "truncate" => t[i - 1] = "read"
            /\ i > 1 /\ t[i] = "write" => t[i - 1] = "truncate"
            /\ t[i] = "truncate" => i < Len(t) /\ t[i + 1] = "write"
      /\ Len(s) > 0 => s[1] # "truncate" /\ s[1] # "write"
      /\ Len(t) > 0 => t[1] # "truncate" /\ t[1] # "write"
  BY <1>1 DEF Starts, InOrder
<1>4. ASSUME NEW i \in 1..Len(all)
      PROVE  /\ i > 1 /\ all[i] = "truncate" => all[i - 1] = "read"
             /\ i > 1 /\ all[i] = "write" => all[i - 1] = "truncate"
  <2>1. CASE i <= Len(s)
    <3>1. i \in 1..Len(s) /\ (i > 1 => i - 1 \in 1..Len(s))
      BY <1>1, <1>2, <2>1
    <3>2. all[i] = s[i] /\ (i > 1 => all[i - 1] = s[i - 1])
      BY <1>2, <3>1
    <3>3. QED
      BY <1>3, <3>1, <3>2
  <2>2. CASE i = Len(s) + 1
    <3>1. 1 \in 1..Len(t) /\ all[i] = t[1]
      BY <1>1, <1>2, <2>2
    <3>2. QED
      BY <1>1, <1>3, <3>1
  <2>3. CASE i > Len(s) + 1
    <3>1. PICK k \in 1..Len(t) : i = Len(s) + k /\ k > 1
      <4>1. i - Len(s) \in 1..Len(t) /\ i = Len(s) + (i - Len(s)) /\ i - Len(s) > 1
        BY <1>1, <1>2, <2>3
      <4>2. QED
        BY <4>1
    <3>2. k - 1 \in 1..Len(t) /\ i - 1 = Len(s) + (k - 1)
      BY <1>1, <3>1
    <3>3. all[i] = t[k] /\ all[i - 1] = t[k - 1]
      BY <1>2, <3>1, <3>2
    <3>4. QED
      BY <1>3, <3>1, <3>3
  <2>4. QED
    BY <1>1, <1>2, <2>1, <2>2, <2>3
<1>5. ASSUME NEW i \in 1..Len(all), all[i] = "truncate"
       PROVE  i < Len(all) /\ all[i + 1] = "write"
  <2>1. CASE i <= Len(s)
    <3>1. i \in 1..Len(s)
      BY <1>1, <1>2, <2>1
    <3>2. i < Len(s) /\ s[i + 1] = "write"
      BY <1>2, <1>3, <1>5, <3>1
    <3>3. i + 1 \in 1..Len(s) /\ i < Len(all)
      BY <1>1, <1>2, <3>1, <3>2
    <3>4. QED
      BY <1>2, <3>2, <3>3
  <2>2. CASE i > Len(s)
    <3>1. PICK k \in 1..Len(t) : i = Len(s) + k
      <4>1. i - Len(s) \in 1..Len(t) /\ i = Len(s) + (i - Len(s))
        BY <1>1, <1>2, <2>2
      <4>2. QED
        BY <4>1
    <3>2. t[k] = "truncate"
      BY <1>2, <1>5, <3>1
    <3>3. k < Len(t) /\ t[k + 1] = "write"
      BY <1>3, <3>1, <3>2
    <3>4. k + 1 \in 1..Len(t) /\ i + 1 = Len(s) + (k + 1) /\ i < Len(all)
      BY <1>1, <1>2, <3>1, <3>3
    <3>5. QED
      BY <1>2, <3>3, <3>4
  <2>3. QED
    BY <1>1, <1>2, <2>1, <2>2
<1>6. all # <<>> => all[1] # "truncate" /\ all[1] # "write"
  <2>1. CASE Len(s) > 0
    <3>1. 1 \in 1..Len(s)
      BY <1>1, <2>1
    <3>2. QED
      BY <1>2, <1>3, <2>1, <3>1
  <2>2. CASE Len(s) = 0
    <3>1. all # <<>> => 1 \in 1..Len(t)
      BY <1>1, <1>2, <2>2
    <3>2. all # <<>> => all[1] = t[1]
      BY <1>1, <1>2, <2>2, <3>1
    <3>3. QED
      BY <1>1, <1>3, <3>1, <3>2
  <2>3. QED
    BY <1>1, <2>1, <2>2
<1>7. Range(s) \subseteq Range(all)
  <2>1. ASSUME NEW i \in 1..Len(s) PROVE s[i] \in Range(all)
    <3>1. i \in 1..Len(all) /\ all[i] = s[i]
      BY <1>1, <1>2
    <3>2. QED
      BY <1>2, <3>1 DEF Range
  <2>2. QED
    BY <1>1, <2>1 DEF Range
<1>8. Range(t) \subseteq Range(all)
  <2>1. ASSUME NEW i \in 1..Len(t) PROVE t[i] \in Range(all)
    <3>1. Len(s) + i \in 1..Len(all) /\ all[Len(s) + i] = t[i]
      BY <1>1, <1>2
    <3>2. QED
      BY <1>2, <3>1 DEF Range
  <2>2. QED
    BY <1>1, <2>1 DEF Range
<1>9. InOrder(all)
  BY <1>4, <1>5 DEF InOrder
<1>10. QED
  BY <1>2, <1>6, <1>7, <1>8, <1>9 DEF Starts, all

LEMMA PartsStart ==
    ASSUME NEW ask
    PROVE  /\ Starts(Save(ask)) /\ Starts(Warm(ask)) /\ Starts(<<"manifest">>)
           /\ Starts(<<"edit">>) /\ Starts(<<"edit", "config", "cache">>)
           /\ Starts(<<"remove">>)
           /\ Starts(<<"unpack", "complete", "overlay", "config", "edit">>)
           /\ Starts(<<"unpack", "complete", "config", "cache", "edit">>)
           /\ ask.write => "write" \in Range(Save(ask))
<1>1. /\ Starts(<<>>) /\ Starts(<<"warm">>) /\ Starts(<<"manifest">>) /\ Starts(<<"edit">>)
      /\ Starts(<<"remove">>)
  BY DEF Starts, InOrder, StepNames
<1>2. Starts(<<"edit", "config", "cache">>)
  BY DEF Starts, InOrder, StepNames
<1>3. Starts(<<"unpack", "complete", "overlay", "config", "edit">>)
  BY DEF Starts, InOrder, StepNames
<1>4. Starts(<<"unpack", "complete", "config", "cache", "edit">>)
  BY DEF Starts, InOrder, StepNames
<1> DEFINE saving == <<"read", "truncate", "write">>
<1>5. Starts(saving) /\ "write" \in Range(saving)
  <2>1. saving \in Seq(StepNames)
    BY DEF StepNames
  <2>2. Len(saving) = 3 /\ saving[1] = "read" /\ saving[2] = "truncate" /\ saving[3] = "write"
        /\ DOMAIN saving = 1..3
    OBVIOUS
  <2> HIDE DEF saving
  <2>3. InOrder(saving)
    <3>1. ASSUME NEW i \in 1..3
          PROVE  /\ i > 1 /\ saving[i] = "truncate" => saving[i - 1] = "read"
                 /\ i > 1 /\ saving[i] = "write" => saving[i - 1] = "truncate"
                 /\ saving[i] = "truncate" => i < 3 /\ saving[i + 1] = "write"
      <4>1. i = 1 \/ i = 2 \/ i = 3
        BY <3>1
      <4>2. 2 - 1 = 1 /\ 3 - 1 = 2 /\ 2 + 1 = 3
        OBVIOUS
      <4>3. QED
        BY <2>2, <4>1, <4>2
    <3>2. QED
      BY <2>2, <3>1 DEF InOrder
  <2>4. "write" \in Range(saving)
    BY <2>2 DEF Range
  <2>5. QED
    BY <2>1, <2>2, <2>3, <2>4 DEF Starts
<1>6. /\ Save(ask) = saving \/ Save(ask) = <<>>
      /\ ask.write => Save(ask) = saving
      /\ Warm(ask) = <<"warm">> \/ Warm(ask) = <<>>
  BY Zenon DEF Save, Warm
<1> HIDE DEF saving
<1>7. QED
  BY <1>1, <1>2, <1>3, <1>4, <1>5, <1>6

\* Every list of steps, and with it the write that is asked for.
LEMMA StepsStart ==
    ASSUME NEW ask \in Requests
    PROVE  /\ Starts(NewSteps(ask)) /\ Starts(<<"remove">> \o NewSteps(ask))
           /\ Starts(ReuseSteps(ask))
           /\ ask.write =>
                 /\ "write" \in Range(NewSteps(ask))
                 /\ "write" \in Range(<<"remove">> \o NewSteps(ask))
                 /\ "write" \in Range(ReuseSteps(ask))
<1>1. /\ Starts(NewSteps(ask)) /\ Starts(ReuseSteps(ask))
      /\ Range(Save(ask)) \subseteq Range(NewSteps(ask))
      /\ Range(Save(ask)) \subseteq Range(ReuseSteps(ask))
  <2>1. CASE ask.kind = "prepare"
    <3> DEFINE first == <<"unpack", "complete", "overlay", "config", "edit">>
               made == first \o Warm(ask)
               told == made \o <<"manifest">>
               saved == <<"edit">> \o Save(ask)
    <3>1. NewSteps(ask) = told \o Save(ask) /\ ReuseSteps(ask) = saved \o Warm(ask)
      BY <2>1 DEF NewSteps, ReuseSteps
    <3>2. Starts(first)
      BY PartsStart
    <3> HIDE DEF first
    <3>3. Starts(made)
      BY <3>2, PartsStart, StartsOn
    <3> HIDE DEF made
    <3>4. Starts(told)
      BY <3>3, PartsStart, StartsOn
    <3> HIDE DEF told
    <3>5. Starts(told \o Save(ask)) /\ Range(Save(ask)) \subseteq Range(told \o Save(ask))
      BY <3>4, PartsStart, StartsOn
    <3>6. Starts(saved) /\ Range(Save(ask)) \subseteq Range(saved)
      BY PartsStart, StartsOn
    <3> HIDE DEF saved
    <3>7. Starts(saved \o Warm(ask)) /\ Range(saved) \subseteq Range(saved \o Warm(ask))
      BY <3>6, PartsStart, StartsOn
    <3>8. QED
      BY <3>1, <3>5, <3>6, <3>7
  <2>2. CASE ask.kind # "prepare"
    <3> DEFINE first == <<"unpack", "complete", "config", "cache", "edit">>
               saved == first \o Save(ask)
               again == <<"edit", "config", "cache">>
    <3>1. NewSteps(ask) = saved \o <<"manifest">> /\ ReuseSteps(ask) = again \o Save(ask)
      BY <2>2 DEF NewSteps, ReuseSteps
    <3>2. Starts(first) /\ Starts(again)
      BY PartsStart
    <3> HIDE DEF first, again
    <3>3. Starts(saved) /\ Range(Save(ask)) \subseteq Range(saved)
      BY <3>2, PartsStart, StartsOn
    <3> HIDE DEF saved
    <3>4. /\ Starts(saved \o <<"manifest">>)
          /\ Range(saved) \subseteq Range(saved \o <<"manifest">>)
      BY <3>3, PartsStart, StartsOn
    <3>5. Starts(again \o Save(ask)) /\ Range(Save(ask)) \subseteq Range(again \o Save(ask))
      BY <3>2, PartsStart, StartsOn
    <3>6. QED
      BY <3>1, <3>3, <3>4, <3>5
  <2>3. QED
    BY <2>1, <2>2
<1>2. /\ Starts(<<"remove">> \o NewSteps(ask))
      /\ Range(NewSteps(ask)) \subseteq Range(<<"remove">> \o NewSteps(ask))
  BY <1>1, PartsStart, StartsOn
<1>3. QED
  BY <1>1, <1>2, PartsStart

LEMMA InsertedAt ==
    ASSUME NEW S, NEW p \in Seq(S), NEW e \in S, NEW n \in 1..(Len(p) + 1)
    PROVE  /\ InsertAt(p, n, e) \in Seq(S)
           /\ Contains(InsertAt(p, n, e), e)
           /\ \A x : Contains(p, x) => Contains(InsertAt(p, n, e), x)
           /\ \A x : Contains(InsertAt(p, n, e), x) => Contains(p, x) \/ x = e
           /\ n > 1 => InsertAt(p, n, e)[1] = p[1]
<1> DEFINE q == InsertAt(p, n, e)
           before == SubSeq(p, 1, n - 1)
           after == SubSeq(p, n, Len(p))
           front == before \o <<e>>
<1>1. Len(p) \in Nat /\ n \in Nat /\ n >= 1 /\ n <= Len(p) + 1 /\ DOMAIN p = 1..Len(p)
  OBVIOUS
<1>2. /\ before \in Seq(S) /\ Len(before) = n - 1
      /\ \A i \in 1..(n - 1) : before[i] = p[i]
  BY <1>1
<1>3. /\ after \in Seq(S) /\ Len(after) = Len(p) - n + 1
      /\ \A i \in 1..(Len(p) - n + 1) : after[i] = p[n + i - 1]
  BY <1>1
<1> HIDE DEF before, after
<1>4. /\ front \in Seq(S) /\ Len(front) = n /\ front[n] = e
      /\ \A i \in 1..(n - 1) : front[i] = p[i]
  BY <1>1, <1>2
<1>5. q = front \o after
  BY DEF InsertAt, before, after
<1> HIDE DEF front, q
<1>6. /\ q \in Seq(S) /\ Len(q) = Len(p) + 1
      /\ \A i \in 1..n : q[i] = front[i]
      /\ \A i \in 1..Len(after) : q[n + i] = after[i]
  <2>1. front \in Seq(S) /\ after \in Seq(S) /\ q = front \o after
    BY <1>3, <1>4, <1>5
  <2>2. /\ q \in Seq(S) /\ Len(q) = Len(front) + Len(after)
        /\ \A i \in 1..Len(front) : q[i] = front[i]
        /\ \A i \in 1..Len(after) : q[Len(front) + i] = after[i]
    BY <2>1
  <2>3. Len(front) = n /\ Len(front) + Len(after) = Len(p) + 1
    BY <1>1, <1>3, <1>4
  <2>4. QED
    BY <2>2, <2>3
<1>7. /\ q[n] = e
      /\ \A i \in 1..(n - 1) : q[i] = p[i]
      /\ \A i \in 1..(Len(p) - n + 1) : q[n + i] = p[n + i - 1]
  <2>1. n \in 1..n /\ \A i \in 1..(n - 1) : i \in 1..n
    BY <1>1
  <2>2. QED
    BY <1>3, <1>4, <1>6, <2>1
<1>8. Contains(q, e)
  BY <1>1, <1>6, <1>7 DEF Contains
<1>9. ASSUME NEW x, Contains(p, x) PROVE Contains(q, x)
  <2>1. PICK i \in 1..Len(p) : p[i] = x
    BY <1>9 DEF Contains
  <2>2. CASE i <= n - 1
    <3>1. i \in 1..(n - 1) /\ i \in 1..Len(q)
      BY <1>1, <1>6, <2>2
    <3>2. QED
      BY <1>7, <2>1, <3>1 DEF Contains
  <2>3. CASE i > n - 1
    <3>1. /\ i - n + 1 \in 1..(Len(p) - n + 1) /\ n + (i - n + 1) - 1 = i
          /\ n + (i - n + 1) = i + 1 /\ i + 1 \in 1..Len(q)
      BY <1>1, <1>6, <2>3
    <3>2. q[i + 1] = x
      BY <1>7, <2>1, <3>1
    <3>3. QED
      BY <3>1, <3>2 DEF Contains
  <2>4. QED
    BY <1>1, <2>2, <2>3
<1>10. ASSUME NEW x, Contains(q, x) PROVE Contains(p, x) \/ x = e
  <2>1. PICK i \in 1..Len(q) : q[i] = x
    BY <1>10 DEF Contains
  <2>2. CASE i < n
    <3>1. i \in 1..(n - 1) /\ i \in 1..Len(p)
      BY <1>1, <1>6, <2>2
    <3>2. QED
      BY <1>7, <2>1, <3>1 DEF Contains
  <2>3. CASE i = n
    BY <1>7, <2>1, <2>3
  <2>4. CASE i > n
    <3>1. /\ i - n \in 1..(Len(p) - n + 1) /\ n + (i - n) = i
          /\ n + (i - n) - 1 = i - 1 /\ i - 1 \in 1..Len(p)
      BY <1>1, <1>6, <2>4
    <3>2. q[i] = p[i - 1]
      BY <1>7, <3>1
    <3>3. QED
      BY <2>1, <3>1, <3>2 DEF Contains
  <2>5. QED
    BY <1>1, <1>6, <2>2, <2>3, <2>4
<1>11. n > 1 => q[1] = p[1]
  BY <1>1, <1>7
<1>12. QED
  BY <1>6, <1>8, <1>9, <1>10, <1>11 DEF q

LEMMA AnchorsKnown ==
    ASSUME NEW slot
    PROVE  /\ DOMAIN Anchors(slot) \subseteq Nat
           /\ \E k \in DOMAIN Anchors(slot) : Anchors(slot)[k] = CleanTree
<1>1. CASE slot = "prepared_kernel_src_dir"
  <2>1. Anchors(slot) = <<CleanTree>>
    BY <1>1 DEF Anchors, CleanTree
  <2>2. QED
    BY <2>1
<1>2. CASE slot # "prepared_kernel_src_dir"
  <2> DEFINE list == <<"kernel_src_dir", "prepared_kernel_src_dir",
                       "vendor_kernel_src_dir", CleanTree>>
  <2>1. Anchors(slot) = list
    BY <1>2 DEF Anchors, CleanTree
  <2>2. DOMAIN list = 1..4 /\ list[4] = CleanTree
    OBVIOUS
  <2> HIDE DEF list
  <2>3. QED
    BY <2>1, <2>2
<1>3. QED
  BY <1>1, <1>2

LEMMA LeastOf ==
    ASSUME NEW S \in SUBSET Nat, S # {}
    PROVE  Min(S) \in S
<1>1. \E n \in S : \A m \in S : n <= m
  BY LeastNumber
<1>2. QED
  BY <1>1, Zenon DEF Min

\* A slot is listed behind another one or, if the clean tree is not listed, first.
LEMMA ListedIs ==
    ASSUME NEW p \in Seq(Names), CleanFirst(p), NEW slot \in Slots
    PROVE  /\ Listed(p, slot) \in Seq(Names) /\ CleanFirst(Listed(p, slot))
           /\ Contains(Listed(p, slot), slot)
           /\ \A x : Contains(p, x) => Contains(Listed(p, slot), x)
<1>1. CASE Contains(p, slot)
  <2>1. Listed(p, slot) = p
    BY <1>1, Zenon DEF Listed
  <2>2. QED
    BY <1>1, <2>1
<1>2. CASE ~Contains(p, slot)
  <2> DEFINE anchors == Anchors(slot)
             found == {k \in DOMAIN anchors : Contains(p, anchors[k])}
             places == {i \in DOMAIN p : p[i] = anchors[Min(found)]}
             n == IF found = {} THEN 1 ELSE Min(places) + 1
  <2>1. Listed(p, slot) = InsertAt(p, n, slot)
    BY <1>2, Zenon DEF Listed
  <2>2. /\ DOMAIN anchors \subseteq Nat
        /\ \E k \in DOMAIN anchors : anchors[k] = CleanTree
    BY AnchorsKnown
  <2>3. found \in SUBSET Nat /\ (found = {} => ~Contains(p, CleanTree))
    BY <2>2
  <2>4. found # {} => Min(found) \in found
    BY <2>3, LeastOf
  <2>5. found # {} => Contains(p, anchors[Min(found)])
    BY <2>4
  <2> HIDE DEF anchors, found
  <2>6. DOMAIN p = 1..Len(p) /\ Len(p) \in Nat
    OBVIOUS
  <2>7. places \in SUBSET Nat /\ places \subseteq 1..Len(p)
    BY <2>6
  <2>8. found # {} => places # {}
    BY <2>5, <2>6 DEF Contains
  <2> HIDE DEF places
  <2>9. found # {} => Min(places) \in 1..Len(p)
    BY <2>7, <2>8, LeastOf
  <2>10. n \in 1..(Len(p) + 1) /\ (found # {} => n > 1)
    BY <2>6, <2>9
  <2>11. slot \in Names
    BY DEF Names
  <2> HIDE DEF n
  <2> DEFINE q == InsertAt(p, n, slot)
  <2>12. /\ q \in Seq(Names) /\ Contains(q, slot)
         /\ \A x : Contains(p, x) => Contains(q, x)
         /\ \A x : Contains(q, x) => Contains(p, x) \/ x = slot
         /\ n > 1 => q[1] = p[1]
    BY <2>10, <2>11, InsertedAt
  <2> HIDE DEF q
  <2>13. slot # CleanTree
    BY DEF Slots, SlotOf, CleanTree
  <2>14. CleanFirst(q)
    BY <2>3, <2>10, <2>12, <2>13 DEF CleanFirst
  <2>15. QED
    BY <2>1, <2>12, <2>14 DEF q
<1>3. QED
  BY <1>1, <1>2

LEMMA SavedIs ==
    ASSUME NEW s, NEW slots, WellSet(s, slots), NEW d \in Directories
    PROVE  WellSet(Saved(s, d), slots) /\ Has(Saved(s, d), SlotOf(d))
<1> DEFINE slot == SlotOf(d)
           p == s.priority
           new == Listed(p, slot)
           t == Saved(s, d)
<1>1. /\ s \in [broken : BOOLEAN, others : BOOLEAN, priority : Seq(Names),
               path : [Slots -> Directories \cup {NoDir}]]
      /\ CleanFirst(p) /\ ~s.broken /\ s.others
      /\ \A x \in slots : Has(s, x)
  BY DEF WellSet, SettingsTyped
<1>2. slot \in Slots /\ p \in Seq(Names)
  BY <1>1 DEF Slots
<1>3. /\ new \in Seq(Names) /\ CleanFirst(new) /\ Contains(new, slot)
      /\ \A x : Contains(p, x) => Contains(new, x)
  BY <1>1, <1>2, ListedIs
<1>4. t = [s EXCEPT !.path[slot] = d, !.priority = new]
  BY DEF Saved
<1> HIDE DEF slot, new, t
<1>5. /\ t \in [broken : BOOLEAN, others : BOOLEAN, priority : Seq(Names),
               path : [Slots -> Directories \cup {NoDir}]]
      /\ t.broken = s.broken /\ t.others = s.others /\ t.priority = new
      /\ t.path[slot] = d
      /\ \A x \in Slots : x # slot => t.path[x] = s.path[x]
  BY <1>1, <1>2, <1>3, <1>4
<1>6. d # NoDir
  BY PreparedIsNoBaseline DEF Directories, Prepared, NoDir
<1>7. Has(t, slot)
  BY <1>3, <1>5, <1>6 DEF Has
<1>8. ASSUME NEW x \in slots PROVE Has(t, x)
  <2>1. s.path[x] # NoDir /\ Contains(p, x)
    BY <1>1 DEF Has
  <2>2. t.path[x] # NoDir
    <3>1. CASE x = slot
      BY <1>5, <1>6, <3>1
    <3>2. CASE x # slot /\ x \in Slots
      BY <1>5, <2>1, <3>2
    <3>3. CASE x \notin Slots
      BY <1>1, <1>2, <1>4, <2>1, <3>3
    <3>4. QED
      BY <3>1, <3>2, <3>3
  <2>3. QED
    BY <1>3, <1>5, <2>1, <2>2 DEF Has
<1>9. QED
  BY <1>1, <1>3, <1>5, <1>7, <1>8 DEF WellSet, SettingsTyped, slot, t

LEMMA InOrderStays ==
    ASSUME NEW todo \in Seq(StepNames), todo # <<>>, InOrder(todo)
    PROVE  /\ InOrder(Tail(todo))
           /\ Tail(todo) # <<>> /\ Head(Tail(todo)) = "truncate" => Head(todo) = "read"
           /\ Tail(todo) # <<>> /\ Head(Tail(todo)) = "write" => Head(todo) = "truncate"
           /\ Head(todo) = "truncate" => Tail(todo) # <<>> /\ Head(Tail(todo)) = "write"
<1> DEFINE rest == Tail(todo)
<1>1. /\ rest \in Seq(StepNames)
      /\ Len(todo) \in Nat /\ Len(todo) > 0 /\ Len(rest) = Len(todo) - 1
      /\ \A i \in 1..Len(rest) : rest[i] = todo[i + 1]
      /\ Head(todo) = todo[1]
      /\ rest # <<>> => Len(rest) > 0 /\ Head(rest) = rest[1]
      /\ Len(rest) > 0 => rest # <<>>
  <2>1. /\ rest \in Seq(StepNames)
        /\ Len(todo) \in Nat /\ Len(todo) > 0 /\ Len(rest) = Len(todo) - 1
        /\ \A i \in 1..Len(rest) : rest[i] = todo[i + 1]
        /\ Head(todo) = todo[1]
    BY StepsAhead
  <2> HIDE DEF rest
  <2>2. /\ rest # <<>> => Len(rest) > 0 /\ Head(rest) = rest[1]
        /\ Len(rest) > 0 => rest # <<>>
    BY <2>1
  <2>3. QED
    BY <2>1, <2>2
<1> HIDE DEF rest
<1>2. \A i \in 1..Len(todo) :
         /\ i > 1 /\ todo[i] = "truncate" => todo[i - 1] = "read"
         /\ i > 1 /\ todo[i] = "write" => todo[i - 1] = "truncate"
         /\ todo[i] = "truncate" => i < Len(todo) /\ todo[i + 1] = "write"
  BY DEF InOrder
<1>3. ASSUME NEW i \in 1..Len(rest)
      PROVE  /\ i > 1 /\ rest[i] = "truncate" => rest[i - 1] = "read"
             /\ i > 1 /\ rest[i] = "write" => rest[i - 1] = "truncate"
             /\ rest[i] = "truncate" => i < Len(rest) /\ rest[i + 1] = "write"
  <2>1. i + 1 \in 1..Len(todo) /\ i + 1 > 1 /\ (i + 1) - 1 = i
    BY <1>1
  <2>2. ASSUME i > 1 PROVE i - 1 \in 1..Len(rest) /\ (i - 1) + 1 = i
    BY <1>1, <2>2
  <2>3. i > 1 => rest[i - 1] = todo[i]
    BY <1>1, <2>2
  <2>4. rest[i] = todo[i + 1]
    BY <1>1
  <2>5. rest[i] = "truncate" => i < Len(rest) /\ rest[i + 1] = "write"
    <3>1. SUFFICES ASSUME rest[i] = "truncate" PROVE i < Len(rest) /\ rest[i + 1] = "write"
      OBVIOUS
    <3>2. i + 1 < Len(todo) /\ todo[(i + 1) + 1] = "write"
      BY <1>2, <2>1, <2>4, <3>1
    <3>3. i < Len(rest) /\ i + 1 \in 1..Len(rest)
      BY <1>1, <3>2
    <3>4. QED
      BY <1>1, <3>2, <3>3
  <2>6. /\ rest[i] = "truncate" => todo[i] = "read"
        /\ rest[i] = "write" => todo[i] = "truncate"
    BY <1>2, <2>1, <2>4
  <2>7. QED
    BY <2>3, <2>5, <2>6
<1>4. InOrder(rest)
  BY <1>3 DEF InOrder
<1>5. rest # <<>> =>
         /\ Head(rest) = "truncate" => Head(todo) = "read"
         /\ Head(rest) = "write" => Head(todo) = "truncate"
  <2>1. SUFFICES ASSUME rest # <<>>
                 PROVE  /\ Head(rest) = "truncate" => Head(todo) = "read"
                        /\ Head(rest) = "write" => Head(todo) = "truncate"
    OBVIOUS
  <2>2. 1 \in 1..Len(rest) /\ 2 \in 1..Len(todo) /\ 1 + 1 = 2 /\ 2 - 1 = 1
    BY <1>1, <2>1
  <2>3. Head(rest) = todo[2]
    BY <1>1, <2>1, <2>2
  <2>4. QED
    BY <1>1, <1>2, <2>2, <2>3
<1>6. Head(todo) = "truncate" => rest # <<>> /\ Head(rest) = "write"
  <2>1. SUFFICES ASSUME Head(todo) = "truncate" PROVE rest # <<>> /\ Head(rest) = "write"
    OBVIOUS
  <2>2. 1 \in 1..Len(todo) /\ 1 + 1 = 2
    BY <1>1
  <2>3. 1 < Len(todo) /\ todo[2] = "write"
    BY <1>1, <1>2, <2>1, <2>2
  <2>4. Len(rest) > 0 /\ 1 \in 1..Len(rest)
    BY <1>1, <2>3
  <2>5. QED
    BY <1>1, <2>2, <2>3, <2>4
<1>7. QED
  BY <1>4, <1>5, <1>6 DEF rest

\* What a step of j leaves of its own and of the other jobs' saving.
LEMMA SavesAfter ==
    ASSUME TreesOK, SavesOK, NEW j \in Jobs, NEW step, At(j, step), NEW held, Advance(j, held)
    PROVE  /\ \A i \in Jobs : Going(i)' => InOrder(job'[i].todo)
           /\ \A i \in Jobs \ {j} :
                 /\ job'[i] = job[i]
                 /\ At(i, "write")' = At(i, "write") /\ Saving(i)' = Saving(i)
           /\ job'[j].ask = job[j].ask /\ job'[j].held = held
           /\ job[j].ask.dir \in Directories
           /\ At(j, "truncate")' => step = "read"
           /\ At(j, "write")' <=> step = "truncate"
           /\ Saving(j) <=> step = "truncate" \/ step = "write"
           /\ At(j, "write") <=> step = "write"
           /\ Registered' \subseteq Registered \cup {SlotOf(job[j].ask.dir)}
           /\ step # "write" => Registered' \subseteq Registered
<1> DEFINE d == job[j].ask.dir
           todo == job[j].todo
           rest == Tail(todo)
<1>1. /\ \A i \in Jobs \ {j} : job'[i] = job[i]
      /\ job'[j].ask = job[j].ask /\ job'[j].todo = rest
      /\ job'[j].status = IF rest = <<>> THEN "done" ELSE "going"
      /\ Going(j) /\ d \in Directories /\ TodoOK(todo, d)
      /\ Range(todo) = {step} \cup Range(rest)
  BY AdvanceIs
<1>2. job'[j].held = held
  BY DEF Advance, TreesOK, JobsTyped
<1>3. /\ todo \in Seq(StepNames) /\ todo # <<>> /\ Head(todo) = step /\ InOrder(todo)
  BY <1>1 DEF TreesOK, TodoOK, SavesOK, At
<1>4. /\ InOrder(rest)
      /\ rest # <<>> /\ Head(rest) = "truncate" => step = "read"
      /\ rest # <<>> /\ Head(rest) = "write" => step = "truncate"
      /\ step = "truncate" => rest # <<>> /\ Head(rest) = "write"
  BY <1>3, InOrderStays
<1> HIDE DEF rest, todo
<1>5. /\ \A i \in Jobs \ {j} : Going(i)' = Going(i)
      /\ Going(j)' <=> rest # <<>>
  BY <1>1 DEF Going
<1>6. \A i \in Jobs : Going(i)' => InOrder(job'[i].todo)
  BY <1>1, <1>4, <1>5 DEF SavesOK
<1>7. \A i \in Jobs \ {j} : At(i, "write")' = At(i, "write") /\ Saving(i)' = Saving(i)
  BY <1>1, <1>5 DEF At, Saving
<1>8. /\ At(j, "truncate")' => step = "read"
      /\ At(j, "write")' <=> step = "truncate"
  BY <1>1, <1>4, <1>5 DEF At
<1>9. /\ Saving(j) <=> step = "truncate" \/ step = "write"
      /\ At(j, "write") <=> step = "write"
  BY <1>1, <1>3 DEF At, Saving, todo
<1>10. ASSUME NEW i \in Jobs, Through(i)'
       PROVE  SlotOf(job'[i].ask.dir) \in Registered
              \/ (step = "write" /\ SlotOf(job'[i].ask.dir) = SlotOf(d))
  <2>1. CASE i # j
    <3>1. Through(i) /\ job'[i] = job[i]
      BY <1>1, <1>5, <1>10, <2>1 DEF Through
    <3>2. QED
      BY <3>1 DEF Registered
  <2>2. CASE i = j
    <3>1. job[j].ask.write /\ "write" \notin Range(rest)
      <4>1. job[j].ask.write
        BY <1>1, <1>10, <2>2 DEF Through
      <4>2. rest = <<>> => "write" \notin Range(rest)
        BY DEF Range
      <4>3. rest # <<>> => job'[j].status = "going"
        BY <1>1
      <4>4. rest # <<>> => "write" \notin Range(rest)
        BY <1>1, <1>10, <2>2, <4>3 DEF Through
      <4>5. QED
        BY <4>1, <4>2, <4>4
    <3>2. CASE step # "write"
      <4>1. Through(j)
        BY <1>1, <3>1, <3>2 DEF Through, todo
      <4>2. QED
        BY <1>1, <2>2, <4>1 DEF Registered
    <3>3. QED
      BY <1>1, <2>2, <3>2
  <2>3. QED
    BY <2>1, <2>2
<1>11. /\ Registered' \subseteq Registered \cup {SlotOf(d)}
       /\ step # "write" => Registered' \subseteq Registered
  <2>1. ASSUME NEW x \in Registered'
        PROVE  x \in Registered \/ (step = "write" /\ x = SlotOf(d))
    <3>1. PICK i \in Jobs : Through(i)' /\ x = SlotOf(job'[i].ask.dir)
      BY <2>1 DEF Registered
    <3>2. QED
      BY <1>10, <3>1
  <2>2. QED
    BY <2>1
<1>12. QED
  BY <1>1, <1>2, <1>6, <1>7, <1>8, <1>9, <1>11

LEMMA GoodForFewer ==
    \A s, slots : \A some \in SUBSET slots : WellSet(s, slots) => WellSet(s, some)
BY DEF WellSet

LEMMA SettingsLeft ==
    ASSUME TreesOK, SavesOK, NEW j \in Jobs, NEW step, At(j, step), NEW held, Advance(j, held),
           step \notin {"read", "truncate", "write"}, settings' = settings, raced' = raced
    PROVE  SavesOK'
<1>1. /\ \A i \in Jobs : Going(i)' => InOrder(job'[i].todo)
      /\ \A i \in Jobs \ {j} :
            /\ job'[i] = job[i]
            /\ At(i, "write")' = At(i, "write") /\ Saving(i)' = Saving(i)
      /\ ~Saving(j)' /\ ~At(j, "write")' /\ ~Saving(j) /\ ~At(j, "write")
      /\ Registered' \subseteq Registered
  BY SavesAfter DEF Saving
<1>2. ASSUME ~raced
      PROVE  /\ \A i, k \in Jobs : Saving(i)' /\ Saving(k)' => i = k
             /\ \A i \in Jobs : At(i, "write")' => settings' = Empty
             /\ \A i \in Jobs : Saving(i)' =>
                   /\ WellSet(job'[i].held, Registered')
                   /\ Has(job'[i].held, SlotOf(job'[i].ask.dir))
             /\ (\A i \in Jobs : ~At(i, "write")') => WellSet(settings', Registered')
  <2>1. /\ \A i, k \in Jobs : Saving(i) /\ Saving(k) => i = k
        /\ \A i \in Jobs : At(i, "write") => settings = Empty
        /\ \A i \in Jobs : Saving(i) =>
              WellSet(job[i].held, Registered) /\ Has(job[i].held, SlotOf(job[i].ask.dir))
        /\ (\A i \in Jobs : ~At(i, "write")) => WellSet(settings, Registered)
    BY <1>2 DEF SavesOK
  <2>2. QED
    BY <1>1, <2>1, GoodForFewer
<1>3. QED
  BY <1>1, <1>2 DEF SavesOK

LEMMA SettingsRead ==
    ASSUME TreesOK, SavesOK, NEW j \in Jobs, ReadSettings(j)
    PROVE  SavesOK'
<1> DEFINE d == job[j].ask.dir
           held == Saved(settings, d)
<1>1. /\ At(j, "read") /\ Advance(j, held) /\ settings' = settings
      /\ raced' = (raced \/ \E i \in Jobs \ {j} : Saving(i))
  BY DEF ReadSettings
<1> HIDE DEF held
<1>2. /\ \A i \in Jobs : Going(i)' => InOrder(job'[i].todo)
      /\ \A i \in Jobs \ {j} :
            /\ job'[i] = job[i]
            /\ At(i, "write")' = At(i, "write") /\ Saving(i)' = Saving(i)
      /\ job'[j].ask = job[j].ask /\ job'[j].held = held /\ d \in Directories
      /\ ~At(j, "write")' /\ ~Saving(j)
      /\ Registered' \subseteq Registered
  BY <1>1, SavesAfter
<1>3. ASSUME ~raced'
      PROVE  /\ \A i, k \in Jobs : Saving(i)' /\ Saving(k)' => i = k
             /\ \A i \in Jobs : At(i, "write")' => settings' = Empty
             /\ \A i \in Jobs : Saving(i)' =>
                   /\ WellSet(job'[i].held, Registered')
                   /\ Has(job'[i].held, SlotOf(job'[i].ask.dir))
             /\ (\A i \in Jobs : ~At(i, "write")') => WellSet(settings', Registered')
  <2>1. ~raced /\ \A i \in Jobs : ~Saving(i)
    BY <1>1, <1>2, <1>3
  <2>2. \A i \in Jobs : ~At(i, "write")
    BY <2>1 DEF Saving
  <2>3. WellSet(settings, Registered)
    BY <2>1, <2>2 DEF SavesOK
  <2>4. WellSet(held, Registered) /\ Has(held, SlotOf(d))
    BY <1>2, <2>3, SavedIs DEF held
  <2>5. \A i \in Jobs : Saving(i)' => i = j
    BY <1>2, <2>1
  <2>6. \A i \in Jobs : ~At(i, "write")'
    BY <1>2, <2>2
  <2>7. WellSet(held, Registered') /\ WellSet(settings', Registered')
    BY <1>1, <1>2, <2>3, <2>4, GoodForFewer
  <2>8. QED
    BY <1>2, <2>4, <2>5, <2>6, <2>7
<1>4. QED
  BY <1>2, <1>3 DEF SavesOK

LEMMA SettingsTruncated ==
    ASSUME TreesOK, SavesOK, NEW j \in Jobs, TruncateSettings(j)
    PROVE  SavesOK'
<1> DEFINE d == job[j].ask.dir
<1>1. /\ At(j, "truncate") /\ Advance(j, job[j].held) /\ settings' = Empty /\ raced' = raced
  BY DEF TruncateSettings
<1>2. /\ \A i \in Jobs : Going(i)' => InOrder(job'[i].todo)
      /\ \A i \in Jobs \ {j} :
            /\ job'[i] = job[i]
            /\ At(i, "write")' = At(i, "write") /\ Saving(i)' = Saving(i)
      /\ job'[j].ask = job[j].ask /\ job'[j].held = job[j].held
      /\ At(j, "write")' /\ Saving(j)
      /\ Registered' \subseteq Registered
  BY <1>1, SavesAfter
<1>3. ASSUME ~raced
      PROVE  /\ \A i, k \in Jobs : Saving(i)' /\ Saving(k)' => i = k
             /\ \A i \in Jobs : Saving(i)' =>
                   /\ WellSet(job'[i].held, Registered')
                   /\ Has(job'[i].held, SlotOf(job'[i].ask.dir))
  <2>1. /\ \A i, k \in Jobs : Saving(i) /\ Saving(k) => i = k
        /\ \A i \in Jobs : Saving(i) =>
              WellSet(job[i].held, Registered) /\ Has(job[i].held, SlotOf(job[i].ask.dir))
    BY <1>3 DEF SavesOK
  <2>2. \A i \in Jobs : Saving(i)' => i = j
    BY <1>2, <2>1
  <2>3. WellSet(job[j].held, Registered') /\ Has(job[j].held, SlotOf(d))
    BY <1>2, <2>1, GoodForFewer
  <2>4. QED
    BY <1>2, <2>2, <2>3
<1>4. QED
  BY <1>1, <1>2, <1>3 DEF SavesOK

LEMMA SettingsWritten ==
    ASSUME TreesOK, SavesOK, NEW j \in Jobs, WriteSettings(j)
    PROVE  SavesOK'
<1> DEFINE d == job[j].ask.dir
           held == job[j].held
<1>1. /\ At(j, "write") /\ Advance(j, Empty) /\ raced' = raced
      /\ \E tail \in {FALSE, settings # Empty} : settings' = [held EXCEPT !.broken = tail]
  BY DEF WriteSettings
<1>2. /\ \A i \in Jobs : Going(i)' => InOrder(job'[i].todo)
      /\ \A i \in Jobs \ {j} :
            /\ job'[i] = job[i]
            /\ At(i, "write")' = At(i, "write") /\ Saving(i)' = Saving(i)
      /\ ~Saving(j)' /\ Saving(j)
      /\ Registered' \subseteq Registered \cup {SlotOf(d)}
  BY <1>1, SavesAfter DEF Saving
<1>3. ASSUME ~raced
      PROVE  /\ \A i \in Jobs : ~Saving(i)'
             /\ WellSet(settings', Registered')
  <2>1. /\ \A i, k \in Jobs : Saving(i) /\ Saving(k) => i = k
        /\ settings = Empty
        /\ WellSet(held, Registered) /\ Has(held, SlotOf(d))
    BY <1>1, <1>2, <1>3 DEF SavesOK
  <2>2. settings' = [held EXCEPT !.broken = FALSE]
    BY <1>1, <2>1
  <2>3. held \in [broken : BOOLEAN, others : BOOLEAN, priority : Seq(Names),
                  path : [Slots -> Directories \cup {NoDir}]] /\ ~held.broken
    BY <2>1 DEF WellSet, SettingsTyped
  <2>4. settings' = held
    BY <2>2, <2>3
  <2>5. WellSet(held, Registered')
    BY <1>2, <2>1 DEF WellSet
  <2>6. QED
    BY <1>2, <2>1, <2>4, <2>5
<1>4. \A i \in Jobs : At(i, "write")' => Saving(i)'
  BY DEF Saving
<1>5. QED
  BY <1>1, <1>2, <1>3, <1>4 DEF SavesOK

LEMMA SettingsAbandoned ==
    ASSUME TreesOK, SavesOK, NEW j \in Jobs, BreakOff(j)
    PROVE  SavesOK'
<1>1. /\ Going(j) /\ settings' = settings /\ raced' = (raced \/ At(j, "write"))
      /\ job' = [job EXCEPT ![j].todo = <<>>, ![j].status = "failed"]
  BY DEF BreakOff
<1>2. /\ job = [i \in Jobs |-> job[i]]
      /\ \A i \in Jobs : job[i] = [k \in {"ask", "todo", "held", "status"} |-> job[i][k]]
  BY DEF TreesOK, JobsTyped
<1>3. (\A i \in Jobs \ {j} : job'[i] = job[i]) /\ job'[j].status = "failed"
  BY <1>1, <1>2
<1>4. /\ \A i \in Jobs \ {j} : Going(i)' = Going(i)
      /\ ~Going(j)'
  BY <1>3 DEF Going
<1>5. /\ \A i \in Jobs \ {j} :
            At(i, "write")' = At(i, "write") /\ Saving(i)' = Saving(i)
      /\ ~Saving(j)' /\ ~At(j, "write")'
  BY <1>3, <1>4 DEF At, Saving
<1>6. \A i \in Jobs : Through(i)' => i # j /\ Through(i)
  BY <1>3, <1>4 DEF Through
<1>7. Registered' \subseteq Registered
  BY <1>3, <1>6 DEF Registered
<1>8. \A i \in Jobs : Going(i)' => InOrder(job'[i].todo)
  BY <1>3, <1>4 DEF SavesOK
<1>9. ASSUME ~raced'
      PROVE  /\ \A i, k \in Jobs : Saving(i)' /\ Saving(k)' => i = k
             /\ \A i \in Jobs : At(i, "write")' => settings' = Empty
             /\ \A i \in Jobs : Saving(i)' =>
                   /\ WellSet(job'[i].held, Registered')
                   /\ Has(job'[i].held, SlotOf(job'[i].ask.dir))
             /\ (\A i \in Jobs : ~At(i, "write")') => WellSet(settings', Registered')
  <2>1. ~raced /\ ~At(j, "write")
    BY <1>1, <1>9
  <2>2. /\ \A i, k \in Jobs : Saving(i) /\ Saving(k) => i = k
        /\ \A i \in Jobs : At(i, "write") => settings = Empty
        /\ \A i \in Jobs : Saving(i) =>
              WellSet(job[i].held, Registered) /\ Has(job[i].held, SlotOf(job[i].ask.dir))
        /\ (\A i \in Jobs : ~At(i, "write")) => WellSet(settings, Registered)
    BY <2>1 DEF SavesOK
  <2>3. QED
    BY <1>1, <1>3, <1>5, <1>7, <2>1, <2>2, GoodForFewer
<1>10. QED
  BY <1>8, <1>9 DEF SavesOK

LEMMA SettingsBefore ==
    ASSUME TreesOK, SavesOK, NEW j \in Jobs, Begin(j)
    PROVE  SavesOK'
<1>1. PICK ask \in Requests : ReuseService(j, ask) \/ StartJob(j, ask)
  BY DEF Begin
<1>2. job[j].status = "idle" /\ ~Going(j)
  BY DEF Begin, Going
<1>3. settings' = settings /\ raced' = raced
  BY <1>1 DEF ReuseService, StartJob
<1>4. /\ job = [i \in Jobs |-> job[i]]
      /\ \A i \in Jobs : job[i] = [k \in {"ask", "todo", "held", "status"} |-> job[i][k]]
  BY DEF TreesOK, JobsTyped
<1> DEFINE steps == IF "dir" \notin dirs[ask.dir] THEN NewSteps(ask)
                    ELSE IF ask.force THEN <<"remove">> \o NewSteps(ask)
                    ELSE IF LooksPrepared(ask.dir) THEN ReuseSteps(ask)
                    ELSE <<>>
           begun == IF steps = <<>> THEN "failed" ELSE "going"
<1>5. \/ job' = [job EXCEPT ![j].ask = ask, ![j].status = "reused"]
      \/ job' = [job EXCEPT ![j].ask = ask, ![j].todo = steps, ![j].status = begun]
  BY <1>1 DEF ReuseService, StartJob
<1>6. /\ steps = <<>> => begun = "failed"
      /\ steps # <<>> => /\ begun = "going" /\ Starts(steps)
                         /\ ask.write => "write" \in Range(steps)
  <2>1. \/ steps = NewSteps(ask) \/ steps = <<"remove">> \o NewSteps(ask)
        \/ steps = ReuseSteps(ask) \/ steps = <<>>
    OBVIOUS
  <2>2. begun = IF steps = <<>> THEN "failed" ELSE "going"
    OBVIOUS
  <2> HIDE DEF steps, begun
  <2>3. QED
    BY <2>1, <2>2, StepsStart
<1> HIDE DEF steps, begun
<1>7. /\ \A i \in Jobs \ {j} : job'[i] = job[i]
      /\ \/ job'[j].status = "reused"
         \/ job'[j].ask = ask /\ job'[j].todo = steps /\ job'[j].status = begun
  <2>1. CASE job' = [job EXCEPT ![j].ask = ask, ![j].status = "reused"]
    BY <1>4, <2>1
  <2>2. CASE job' = [job EXCEPT ![j].ask = ask, ![j].todo = steps, ![j].status = begun]
    BY <1>4, <2>2
  <2>3. QED
    BY <1>5, <2>1, <2>2
<1>8. /\ \A i \in Jobs \ {j} : Going(i)' = Going(i)
      /\ Going(j)' => /\ job'[j].ask = ask /\ job'[j].todo = steps /\ steps # <<>>
                      /\ Starts(steps) /\ (ask.write => "write" \in Range(steps))
  BY <1>6, <1>7 DEF Going
<1>9. Going(j)' => Head(job'[j].todo) # "truncate" /\ Head(job'[j].todo) # "write"
  <2>1. Starts(steps) /\ steps # <<>> =>
           Head(steps) = steps[1] /\ steps[1] # "truncate" /\ steps[1] # "write"
    BY DEF Starts
  <2>2. QED
    BY <1>8, <2>1
<1>10. /\ \A i \in Jobs \ {j} :
             At(i, "write")' = At(i, "write") /\ Saving(i)' = Saving(i)
       /\ ~Saving(j)' /\ ~At(j, "write")' /\ ~At(j, "write")
  BY <1>2, <1>7, <1>8, <1>9 DEF At, Saving
<1>11. \A i \in Jobs : Through(i)' => i # j /\ Through(i)
  <2>1. ~Through(j)'
    <3>1. CASE Going(j)'
      <4>1. job'[j].status = "going"
        BY <3>1 DEF Going
      <4>2. QED
        BY <1>8, <3>1, <4>1 DEF Through
    <3>2. CASE ~Going(j)'
      <4>1. job'[j].status = "reused" \/ job'[j].status = "failed" \/ job'[j].status = "going"
        BY <1>6, <1>7
      <4>2. QED
        BY <3>2, <4>1 DEF Through
    <3>3. QED
      BY <3>1, <3>2
  <2>2. QED
    BY <1>7, <1>8, <2>1 DEF Through
<1>12. Registered' \subseteq Registered
  BY <1>7, <1>11 DEF Registered
<1>13. \A i \in Jobs : Going(i)' => InOrder(job'[i].todo)
  BY <1>7, <1>8 DEF SavesOK, Starts
<1>14. ASSUME ~raced
       PROVE  /\ \A i, k \in Jobs : Saving(i)' /\ Saving(k)' => i = k
              /\ \A i \in Jobs : At(i, "write")' => settings' = Empty
              /\ \A i \in Jobs : Saving(i)' =>
                    /\ WellSet(job'[i].held, Registered')
                    /\ Has(job'[i].held, SlotOf(job'[i].ask.dir))
              /\ (\A i \in Jobs : ~At(i, "write")') => WellSet(settings', Registered')
  <2>1. /\ \A i, k \in Jobs : Saving(i) /\ Saving(k) => i = k
        /\ \A i \in Jobs : At(i, "write") => settings = Empty
        /\ \A i \in Jobs : Saving(i) =>
              WellSet(job[i].held, Registered) /\ Has(job[i].held, SlotOf(job[i].ask.dir))
        /\ (\A i \in Jobs : ~At(i, "write")) => WellSet(settings, Registered)
    BY <1>14 DEF SavesOK
  <2>2. QED
    BY <1>3, <1>7, <1>10, <1>12, <2>1, GoodForFewer
<1>15. QED
  BY <1>3, <1>13, <1>14 DEF SavesOK

LEMMA SavesStay == TreesOK /\ SavesOK /\ [TreesNext]_treeVars => SavesOK'
<1> SUFFICES ASSUME TreesOK, SavesOK, [TreesNext]_treeVars PROVE SavesOK'
  OBVIOUS
<1>1. ASSUME NEW j \in Jobs, RemoveTree(j) \/ Unpack(j) PROVE SavesOK'
  <2>1. PICK step \in {"remove", "unpack"} : At(j, step)
    BY <1>1 DEF RemoveTree, Unpack
  <2>2. Advance(j, job[j].held) /\ settings' = settings /\ raced' = raced
    BY <1>1 DEF RemoveTree, Unpack
  <2>3. QED
    BY <2>1, <2>2, SettingsLeft
<1>2. ASSUME NEW j \in Jobs, WorkOnTree(j) PROVE SavesOK'
  <2>1. PICK step \in {"complete", "overlay", "config", "cache", "edit", "warm", "manifest"} :
           At(j, step)
    BY <1>2 DEF WorkOnTree
  <2>2. Advance(j, job[j].held) /\ settings' = settings /\ raced' = raced
    BY <1>2 DEF WorkOnTree
  <2>3. QED
    BY <2>1, <2>2, SettingsLeft
<1>3. CASE UNCHANGED treeVars
  BY <1>3 DEF treeVars, SavesOK, Going, At, Saving, Registered, Through
<1>4. QED
  BY <1>1, <1>2, <1>3, SettingsBefore, SettingsRead, SettingsTruncated, SettingsWritten,
     SettingsAbandoned DEF TreesNext

LEMMA SavesFirst == TreesInit => SavesOK
<1> SUFFICES ASSUME TreesInit PROVE SavesOK
  OBVIOUS
<1>1. PICK p \in Priorities : settings = [Empty EXCEPT !.priority = p, !.others = TRUE]
  BY DEF TreesInit
<1>2. \A j \in Jobs : job[j].status = "idle"
  BY DEF TreesInit
<1>3. \A j \in Jobs : ~Going(j) /\ ~Saving(j) /\ ~Through(j)
  BY <1>2 DEF Going, At, Saving, Through
<1>4. p \in Seq(Names) /\ CleanFirst(p)
  <2>1. p \in Seq(Range(p)) /\ (Contains(p, CleanTree) => p[1] = CleanTree)
    BY PrioritiesKnown DEF CleanTree
  <2>2. Range(p) \subseteq Names
    BY DEF Names
  <2>3. QED
    BY <2>1, <2>2 DEF CleanFirst
<1>5. /\ settings.broken = FALSE /\ settings.others = TRUE /\ settings.priority = p
      /\ settings.path = [s \in {SlotOf(d) : d \in Directories} |-> NoDir]
      /\ settings = [broken |-> FALSE, others |-> TRUE, priority |-> p,
                     path |-> [s \in {SlotOf(d) : d \in Directories} |-> NoDir]]
  BY <1>1 DEF Empty
<1>6. SettingsTyped(settings)
  BY <1>4, <1>5 DEF SettingsTyped, Slots
<1>7. Registered = {}
  BY <1>3 DEF Registered
<1>8. WellSet(settings, Registered)
  BY <1>5, <1>6, <1>7 DEF WellSet
<1>9. QED
  BY <1>3, <1>8 DEF SavesOK, Saving

\* While nobody races and nobody dies writing, build.yaml keeps what was in it
\* and names a tree in every slot a job has reported, the clean one still first.
THEOREM SettingsStay == TreesSpec => []SettingsKept
<1>1. TreesInit => TreesOK /\ SavesOK
  BY TreesFirst, SavesFirst
<1>2. TreesOK /\ SavesOK /\ [TreesNext]_treeVars => TreesOK' /\ SavesOK'
  BY TreesStay, SavesStay
<1>3. TreesOK /\ SavesOK => SettingsKept
  <2> SUFFICES ASSUME SavesOK, ~raced
               PROVE  /\ ~settings.broken
                      /\ \/ \E j \in Jobs : At(j, "write")
                         \/ /\ settings.others
                            /\ \A j \in Jobs :
                                 (job[j].status = "done" /\ job[j].ask.write) =>
                                    /\ settings.path[SlotOf(job[j].ask.dir)] # NoDir
                                    /\ Contains(settings.priority, SlotOf(job[j].ask.dir))
                            /\ Contains(settings.priority, "clean_kernel_src_dir") =>
                                 settings.priority[1] = "clean_kernel_src_dir"
    BY DEF SettingsKept
  <2>1. CASE \E j \in Jobs : At(j, "write")
    <3>1. settings = Empty
      BY <2>1 DEF SavesOK
    <3>2. QED
      BY <2>1, <3>1 DEF Empty
  <2>2. CASE \A j \in Jobs : ~At(j, "write")
    <3>1. WellSet(settings, Registered)
      BY <2>2 DEF SavesOK
    <3>2. \A j \in Jobs :
             job[j].status = "done" /\ job[j].ask.write =>
                SlotOf(job[j].ask.dir) \in Registered
      BY DEF Registered, Through
    <3>3. QED
      BY <3>1, <3>2 DEF WellSet, Has, SettingsTyped, CleanFirst, CleanTree
  <2>3. QED
    BY <2>1, <2>2
<1>4. QED
  BY <1>1, <1>2, <1>3, PTL DEF TreesSpec

----------------------------------------------------------------------------
(* The commits to try *)

\* How many of these places come up to i.
UpTo(places, i) == Cardinality({j \in places : j <= i})

LEMMA FinitePlaces ==
    ASSUME NEW n \in Nat, NEW places \in SUBSET (1..n)
    PROVE  IsFiniteSet(places) /\ Cardinality(places) \in Nat
<1>1. IsFiniteSet(1..n)
  BY FS_Interval
<1>2. IsFiniteSet(places)
  BY <1>1, FS_Subset
<1>3. QED
  BY <1>2, FS_CardinalityType

\* Whoever counts through some places comes to each number once.
LEMMA PlacesCounted ==
    \A n \in Nat : \A places \in SUBSET (1..n) :
        \A k \in 1..Cardinality(places) : \E i \in places : UpTo(places, i) = k
<1> DEFINE Counted(n) ==
      \A places \in SUBSET (1..n) :
          \A k \in 1..Cardinality(places) : \E i \in places : UpTo(places, i) = k
<1> DEFINE Bad == {n \in Nat : ~Counted(n)}
<1>0. Counted(0)
  <2>1. \A places \in SUBSET (1..0) : places = {}
    OBVIOUS
  <2>2. QED
    BY <2>1, FS_EmptySet
<1>1. ASSUME NEW n \in Nat, Counted(n) PROVE Counted(n + 1)
  <2> SUFFICES ASSUME NEW places \in SUBSET (1..(n + 1)), NEW k \in 1..Cardinality(places)
               PROVE  \E i \in places : UpTo(places, i) = k
    OBVIOUS
  <2> DEFINE rest == places \ {n + 1}
  <2>1. rest \in SUBSET (1..n)
    OBVIOUS
  <2>7. n + 1 \in Nat
    OBVIOUS
  <2>2. IsFiniteSet(places)
    BY <2>7, FinitePlaces, Zenon
  <2>3. Cardinality(places) \in Nat
    BY <2>2, FS_CardinalityType
  <2>4. CASE n + 1 \notin places
    <3>1. places \in SUBSET (1..n)
      BY <2>4
    <3>2. QED
      BY <1>1, <3>1
  <2>5. CASE n + 1 \in places
    <3>1. Cardinality(rest) = Cardinality(places) - 1
      BY <2>2, <2>5, FS_RemoveElement
    <3>2. CASE k = Cardinality(places)
      <4>1. \A j \in places : j <= n + 1
        OBVIOUS
      <4>3. {j \in places : j <= n + 1} = places
        BY <4>1, Zenon
      <4>2. QED
        BY <2>5, <3>2, <4>3 DEF UpTo
    <3>3. CASE k # Cardinality(places)
      <4>1. k \in 1..Cardinality(rest)
        BY <2>3, <3>1, <3>3
      <4>2. PICK i \in rest : UpTo(rest, i) = k
        BY <1>1, <2>1, <4>1
      <4>3. {j \in rest : j <= i} = {j \in places : j <= i}
        BY <2>1
      <4>4. QED
        BY <4>2, <4>3 DEF UpTo
    <3>4. QED
      BY <3>2, <3>3
  <2>6. QED
    BY <2>4, <2>5
<1> HIDE DEF Counted
<1>2. CASE Bad # {}
  <2>1. PICK n \in Bad : \A m \in Bad : n <= m
    BY <1>2, LeastNumber
  <2>2. n # 0 /\ n \in Nat
    BY <1>0
  <2>3. n - 1 \in Nat /\ n - 1 \notin Bad
    BY <2>1, <2>2
  <2>4. Counted(n - 1)
    BY <2>3
  <2>5. Counted((n - 1) + 1)
    BY <1>1, <2>3, <2>4
  <2>6. (n - 1) + 1 = n
    BY <2>2
  <2>7. QED
    BY <2>5, <2>6
<1>3. CASE Bad = {}
  <2>1. \A n \in Nat : Counted(n)
    BY <1>3
  <2>2. QED
    BY <2>1 DEF Counted
<1>4. QED
  BY <1>2, <1>3

\* Of two places the later one counts more.
LEMMA LaterCountsMore ==
    ASSUME NEW n \in Nat, NEW places \in SUBSET (1..n),
           NEW i \in places, NEW j \in places, i < j
    PROVE  UpTo(places, i) < UpTo(places, j)
<1> DEFINE A == {x \in places : x <= i}
           B == {x \in places : x <= j}
<1>1. IsFiniteSet(places)
  BY FinitePlaces
<1>2. IsFiniteSet(A) /\ IsFiniteSet(B)
  BY <1>1, FS_Subset
<1>3. A \subseteq B /\ j \in B /\ j \notin A
  <2>1. i \in Nat /\ j \in Nat /\ \A x \in places : x \in Nat
    OBVIOUS
  <2>5. \A x \in places : x <= i => x <= j
    BY <2>1
  <2>2. A \subseteq B
    BY <2>5, Zenon
  <2>3. j \in B /\ j \notin A
    BY <2>1
  <2>4. QED
    BY <2>2, <2>3
<1> HIDE DEF A, B
<1>4. A # B /\ A \in SUBSET B
  BY <1>3
<1>6. Cardinality(A) <= Cardinality(B) /\ Cardinality(A) # Cardinality(B)
  BY <1>2, <1>4, FS_Subset
<1>7. Cardinality(A) \in Nat /\ Cardinality(B) \in Nat
  BY <1>2, FS_CardinalityType
<1>5. Cardinality(A) < Cardinality(B)
  BY <1>6, <1>7
<1>8. QED
  BY <1>5 DEF UpTo, A, B

\* What is picked is what is at the places, and all of it.
LEMMA PickedIs ==
    ASSUME NEW T, NEW s \in Seq(T), NEW places \in SUBSET (DOMAIN s)
    PROVE  /\ Picked(s, places) \in Seq(T)
           /\ ToSet(Picked(s, places)) = {s[i] : i \in places}
<1> DEFINE n == Len(s)
           c == Cardinality(places)
           AtCount(k) == CHOOSE i \in places : UpTo(places, i) = k
<1>1. n \in Nat /\ places \in SUBSET (1..n)
  OBVIOUS
<1>2. c \in Nat
  BY <1>1, FinitePlaces
<1>3. ASSUME NEW k \in 1..c PROVE AtCount(k) \in places /\ UpTo(places, AtCount(k)) = k
  <2>1. \E i \in places : UpTo(places, i) = k
    BY <1>1, PlacesCounted
  <2>2. QED
    BY <2>1
<1>4. ASSUME NEW i \in places PROVE UpTo(places, i) \in 1..c /\ AtCount(UpTo(places, i)) = i
  <2> DEFINE A == {x \in places : x <= i}
             k == UpTo(places, i)
  <2>0. IsFiniteSet(places)
    BY <1>1, FinitePlaces, Zenon
  <2>1. IsFiniteSet(places) /\ i \in A /\ A \in SUBSET places
    BY <1>1, <2>0
  <2> HIDE DEF A
  <2>2. IsFiniteSet(A) /\ Cardinality(A) <= c
    BY <2>1, FS_Subset
  <2>3. Cardinality(A) \in Nat /\ Cardinality(A) # 0
    BY <2>1, <2>2, FS_CardinalityType, FS_EmptySet
  <2>4. k \in 1..c
    BY <1>2, <2>2, <2>3 DEF UpTo, A
  <2> HIDE DEF k, AtCount
  <2>5. AtCount(k) \in places /\ UpTo(places, AtCount(k)) = k
    BY <1>3, <2>4
  <2> DEFINE j == AtCount(k)
  <2>10. j \in places /\ UpTo(places, j) = UpTo(places, i) /\ UpTo(places, i) \in Nat
    BY <2>4, <2>5 DEF k
  <2> HIDE DEF j
  <2>11. \A m \in Nat : ~(m < m)
    OBVIOUS
  <2> HIDE DEF n
  <2>6. ~(j < i)
    BY <1>1, <2>10, <2>11, LaterCountsMore, Zenon
  <2>7. ~(i < j)
    BY <1>1, <2>10, <2>11, LaterCountsMore, Zenon
  <2>8. AtCount(k) = i
    BY <1>1, <2>10, <2>6, <2>7 DEF j
  <2>9. QED
    BY <2>4, <2>8 DEF k
<1>5. Picked(s, places) = [k \in 1..c |-> s[AtCount(k)]]
  BY DEF Picked, UpTo
<1> HIDE DEF AtCount, c
<1>6. \A k \in 1..c : s[AtCount(k)] \in T
  BY <1>1, <1>3
<1>7. Picked(s, places) \in [1..c -> T]
  BY <1>5, <1>6
<1>8. Picked(s, places) \in Seq(T)
  BY <1>2, <1>7
<1>9. ToSet(Picked(s, places)) \subseteq {s[i] : i \in places}
  BY <1>3, <1>5 DEF ToSet
<1>10. ASSUME NEW i \in places PROVE s[i] \in ToSet(Picked(s, places))
  BY <1>4, <1>5 DEF ToSet
<1>11. QED
  BY <1>8, <1>9, <1>10
----------------------------------------------------------------------------
(* Where a fix comes from: types *)

AskPcs == {"cache", "ask", "fill", "date", "stale"}

StableOnes == {r \in Refs : r.source = "linux-stable"}
UpstreamOnes == {r \in Refs : r.source = "upstream"}

Tries == 0..MaxTries
Places == Nat \ {0}

LookTexts == {"none", "torn", "other", "whole"}

Looks ==
    [pc : AskPcs \cup {"collect", "series", "git", "done"}, url : Urls, try : Tries,
     text : LookTexts, got : SUBSET {"nvd", "cvelist"},
     stable : Seq(StableOnes), upstream : Seq(UpstreamOnes),
     known : [Commits -> {"unknown", "target", "other"}],
     cands : Seq(Refs), next : Places, mirrored : SUBSET Refs, spent : SUBSET Urls,
     out : {"none", "passed", "failed", "broken", "sourceless"}, ref : Refs \cup {NoRef}]

LookOK ==
    /\ world \in Worlds
    /\ cache \in [Keys -> [text : LookTexts, age : Ages]]
    /\ look \in Looks

PatchAddresses == UNION {ToSet(PatchUrls(r)) : r \in Refs}

\* A reference gives one address or two, of its own.
LEMMA TheAddresses ==
    ASSUME NEW ref \in Refs
    PROVE  /\ ToSet(PatchUrls(ref)) = {PatchUrls(ref)[1], Last(PatchUrls(ref))}
           /\ \A u \in ToSet(PatchUrls(ref)) :
                u \in PatchAddresses /\ u \in Urls /\ u.kind = "patch" /\ u.ref = ref
<1>1. CASE ref.file # "none"
  <2>1. PatchUrls(ref) = <<PatchUrl(ref.file, ref)>>
    BY <1>1 DEF PatchUrls
  <2>2. ToSet(PatchUrls(ref)) = {PatchUrls(ref)[1], Last(PatchUrls(ref))}
    BY <2>1 DEF ToSet, Last
  <2>3. \A u \in ToSet(PatchUrls(ref)) : u = PatchUrl(ref.file, ref)
    BY <2>1 DEF ToSet
  <2>4. \A u \in ToSet(PatchUrls(ref)) : u.kind = "patch" /\ u.ref = ref
    BY <2>3 DEF PatchUrl
  <2>5. QED
    BY <2>2, <2>4 DEF Urls, PatchAddresses
<1>2. CASE ref.file = "none"
  <2>1. PatchUrls(ref) = <<PatchUrl("kernel.org", ref), PatchUrl("github", ref)>>
    BY <1>2 DEF PatchUrls
  <2>2. ToSet(PatchUrls(ref)) = {PatchUrls(ref)[1], Last(PatchUrls(ref))}
    BY <2>1 DEF ToSet, Last
  <2>3. \A u \in ToSet(PatchUrls(ref)) :
           u \in {PatchUrl("kernel.org", ref), PatchUrl("github", ref)}
    BY <2>1 DEF ToSet
  <2>4. \A u \in ToSet(PatchUrls(ref)) : u.kind = "patch" /\ u.ref = ref
    BY <2>3 DEF PatchUrl
  <2>5. QED
    BY <2>2, <2>4 DEF Urls, PatchAddresses
<1>3. QED
  BY <1>1, <1>2

\* What there is to ask for.
LEMMA UrlKinds ==
    ASSUME NEW u \in Urls
    PROVE  /\ CacheKey(u) \in Keys
           /\ \/ u = NvdUrl /\ u.kind = "nvd"
              \/ u = CdnUrl /\ u.kind = "cvelist"
              \/ u = RawUrl /\ u.kind = "cvelist" /\ u # CdnUrl
              \/ u.kind = "makefile" /\ u.ref.commit \in Commits
              \/ u.kind = "patch" /\ u.ref \in Refs /\ u \in ToSet(PatchUrls(u.ref))
<1>1. CacheKey(u) \in Keys
  BY DEF Keys
<1>2. CASE u \in {NvdUrl, CdnUrl, RawUrl}
  BY <1>1, <1>2 DEF NvdUrl, CdnUrl, RawUrl
<1>3. CASE u \in {MakefileUrl(c) : c \in Commits}
  BY <1>1, <1>3 DEF MakefileUrl, StableRef
<1>4. CASE u \in PatchAddresses
  <2>1. PICK r \in Refs : u \in ToSet(PatchUrls(r))
    BY <1>4 DEF PatchAddresses
  <2>2. u.kind = "patch" /\ u.ref = r
    BY <2>1, TheAddresses
  <2>3. QED
    BY <1>1, <2>1, <2>2
<1>5. QED
  BY <1>2, <1>3, <1>4 DEF Urls, PatchAddresses

LEMMA KnownAddresses ==
    /\ {NvdUrl, CdnUrl, RawUrl} \subseteq Urls
    /\ \A c \in Commits : MakefileUrl(c) \in Urls
BY DEF Urls

\* The same in other words: two ranges of commits, and each a Refs.
LEMMA CommitsAreRefs ==
    /\ StableOnes \subseteq Refs /\ UpstreamOnes \subseteq Refs
    /\ \A r \in Refs : r.source = "linux-stable" /\ r.commit \in Commits => r \in StableOnes
    /\ \A r \in StableOnes : r.source = "linux-stable" /\ r.commit \in Commits
    /\ \A r \in UpstreamOnes : r.source = "upstream" /\ r.commit \in Commits
    /\ \A r \in Refs : r.source = "upstream" => r \in UpstreamOnes
    /\ \A r \in Refs : r.source \in {"linux-stable", "upstream"} /\ r.commit \in Commits
BY DEF StableOnes, UpstreamOnes, Refs

----------------------------------------------------------------------------
(* The commits to try *)

\* The commits a record names are of the tree they are asked of.
LEMMA ReferencesOfOneTree ==
    ASSUME NEW w \in Worlds, w = world, NEW got
    PROVE  /\ CommitReferences(got, "linux-stable") \in Seq(StableOnes)
           /\ CommitReferences(got, "upstream") \in Seq(UpstreamOnes)
<1>1. world.nvd \in Seq(Refs) /\ world.cvelist \in Seq(Refs)
  BY WorldsTyped DEF WorldType
<1>2. Named(got) \in Seq(Refs)
  BY <1>1 DEF Named
<1>3. ASSUME NEW source, NEW T, \A r \in Refs : r.source = source => r \in T
      PROVE  CommitReferences(got, source) \in Seq(T)
  <2> DEFINE named == Named(got)
             places == {i \in DOMAIN named : named[i].source = source
                                            /\ \A j \in 1..(i - 1) :
                                                 named[j].source = source =>
                                                    named[j].commit # named[i].commit}
             found == Picked(named, places)
  <2>1. named \in Seq(Refs) /\ places \in SUBSET (DOMAIN named)
    BY <1>2
  <2>2. \A i \in places : named[i] \in T
    BY <1>3, <2>1
  <2>5. CommitReferences(got, source) = found
    BY DEF CommitReferences
  <2> HIDE DEF places, named
  <2>3. found \in Seq(Refs) /\ ToSet(found) = {named[i] : i \in places}
    BY <2>1, PickedIs
  <2>4. \A k \in DOMAIN found : found[k] \in T
    BY <2>2, <2>3 DEF ToSet
  <2> HIDE DEF found
  <2>6. found \in Seq(T)
    BY <2>3, <2>4
  <2>7. QED
    BY <2>5, <2>6
<1>4. CommitReferences(got, "linux-stable") \in Seq(StableOnes)
  BY <1>3, CommitsAreRefs
<1>5. CommitReferences(got, "upstream") \in Seq(UpstreamOnes)
  BY <1>3, CommitsAreRefs
<1>6. QED
  BY <1>4, <1>5

LEMMA CollectedRefs ==
    ASSUME NEW w \in Worlds, w = world, NEW got
    PROVE  StableRefs(got) \in Seq(StableOnes) /\ UpstreamRefs(got) \in Seq(UpstreamOnes)
<1>1. CommitReferences(got, "linux-stable") \in Seq(StableOnes)
      /\ CommitReferences(got, "upstream") \in Seq(UpstreamOnes)
  BY ReferencesOfOneTree
<1>2. world.text # NoCommit => UpstreamRef(world.text) \in UpstreamOnes
  BY WorldsTyped DEF WorldType, UpstreamOnes, UpstreamRef, Refs
<1>3. UpstreamRefs(got) \in Seq(UpstreamOnes)
  BY <1>1, <1>2 DEF UpstreamRefs
<1> DEFINE up == UpstreamRefs(got)
           probed == [i \in DOMAIN up |-> StableRef(up[i].commit)]
<1>4. probed \in Seq(StableOnes)
  <2>1. \A i \in DOMAIN up : up[i].commit \in Commits
    BY <1>3, CommitsAreRefs
  <2>2. \A i \in DOMAIN up : StableRef(up[i].commit) \in StableOnes
    BY <2>1 DEF StableOnes, StableRef, Refs
  <2>3. DOMAIN up = 1..Len(up) /\ Len(up) \in Nat
    BY <1>3
  <2>4. QED
    BY <2>2, <2>3
<1>5. StableRefs(got) = IF CommitReferences(got, "linux-stable") = <<>> THEN probed
                        ELSE CommitReferences(got, "linux-stable")
  BY DEF StableRefs
<1> HIDE DEF probed
<1>6. QED
  BY <1>1, <1>3, <1>4, <1>5

LEMMA OfSeriesIs ==
    ASSUME NEW refs \in Seq(StableOnes), NEW known, NEW series
    PROVE  /\ OfSeries(refs, known, series) \in Seq(StableOnes)
           /\ ToSet(OfSeries(refs, known, series))
              = {r \in ToSet(refs) : known[r.commit] = series}
<1> DEFINE places == {i \in DOMAIN refs : known[refs[i].commit] = series}
<1>1. places \in SUBSET (DOMAIN refs)
  OBVIOUS
<1>4. \A i \in DOMAIN refs : i \in places <=> known[refs[i].commit] = series
  OBVIOUS
<1>5. OfSeries(refs, known, series) = Picked(refs, places)
  BY DEF OfSeries
<1> HIDE DEF places
<1>2. Picked(refs, places) \in Seq(StableOnes)
      /\ ToSet(Picked(refs, places)) = {refs[i] : i \in places}
  BY <1>1, PickedIs
<1>3. {refs[i] : i \in places} = {r \in ToSet(refs) : known[r.commit] = series}
  BY <1>1, <1>4 DEF ToSet
<1>6. QED
  BY <1>2, <1>3, <1>5

LEMMA SelectableIs ==
    ASSUME NEW refs \in Seq(StableOnes), NEW known \in [Commits -> {"unknown", "target", "other"}]
    PROVE  /\ SelectableStable(refs, known) \in Seq(StableOnes)
           /\ ToSet(SelectableStable(refs, known))
              = {r \in ToSet(refs) : world.targeted => known[r.commit] # "other"}
           /\ world.targeted =>
                \A i, j \in DOMAIN SelectableStable(refs, known) :
                   (/\ known[SelectableStable(refs, known)[i].commit] = "target"
                    /\ known[SelectableStable(refs, known)[j].commit] = "unknown") => i < j
<1> DEFINE a == OfSeries(refs, known, "target")
           b == OfSeries(refs, known, "unknown")
<1>1. a \in Seq(StableOnes) /\ ToSet(a) = {r \in ToSet(refs) : known[r.commit] = "target"}
  BY OfSeriesIs
<1>2. b \in Seq(StableOnes) /\ ToSet(b) = {r \in ToSet(refs) : known[r.commit] = "unknown"}
  BY OfSeriesIs
<1>3. SelectableStable(refs, known) = IF ~world.targeted THEN refs ELSE a \o b
  BY DEF SelectableStable
<1> HIDE DEF a, b
<1>4. CASE ~world.targeted
  BY <1>3, <1>4
<1>5. CASE world.targeted
  <2> DEFINE s == a \o b
  <2>1. s \in Seq(StableOnes) /\ Len(s) = Len(a) + Len(b) /\ Len(a) \in Nat /\ Len(b) \in Nat
    BY <1>1, <1>2
  <2>2. \A k \in 1..Len(a) : s[k] = a[k]
    BY <1>1, <1>2
  <2>3. \A k \in 1..Len(b) : s[Len(a) + k] = b[k]
    BY <1>1, <1>2
  <2>4. \A k \in 1..Len(s) : k \in 1..Len(a) \/ k - Len(a) \in 1..Len(b)
    BY <2>1
  <2>5. \A k \in 1..Len(s) : k \in 1..Len(a) \/ s[k] = b[k - Len(a)]
    <3>1. ASSUME NEW k \in 1..Len(s), k \notin 1..Len(a) PROVE s[k] = b[k - Len(a)]
      <4>1. k - Len(a) \in 1..Len(b) /\ Len(a) + (k - Len(a)) = k
        BY <2>1, <2>4, <3>1
      <4>2. QED
        BY <2>3, <4>1
    <3>2. QED
      BY <3>1
  <2>6. \A k \in 1..Len(a) : known[a[k].commit] = "target"
    BY <1>1 DEF ToSet
  <2>7. \A k \in 1..Len(b) : known[b[k].commit] = "unknown"
    BY <1>2 DEF ToSet
  <2> HIDE DEF s
  <2>8. \A i \in 1..Len(s) : known[s[i].commit] = "target" => i \in 1..Len(a)
    BY <2>4, <2>5, <2>7
  <2>9. \A j \in 1..Len(s) : known[s[j].commit] = "unknown" => j \notin 1..Len(a)
    BY <2>2, <2>6
  <2>10. ASSUME NEW i \in 1..Len(s), NEW j \in 1..Len(s),
                known[s[i].commit] = "target", known[s[j].commit] = "unknown"
         PROVE  i < j
    <3>1. i \in 1..Len(a) /\ j \notin 1..Len(a)
      BY <2>8, <2>9, <2>10
    <3>2. QED
      BY <2>1, <3>1
  <2>11. DOMAIN s = 1..Len(s)
    BY <2>1
  <2>12. ToSet(s) = ToSet(a) \cup ToSet(b)
    <3>1. ToSet(s) \subseteq ToSet(a) \cup ToSet(b)
      <4>1. \A k \in 1..Len(s) : s[k] \in ToSet(a) \cup ToSet(b)
        <5>1. ASSUME NEW k \in 1..Len(s) PROVE s[k] \in ToSet(a) \cup ToSet(b)
          <6>1. CASE k \in 1..Len(a)
            BY <1>1, <2>2, <6>1 DEF ToSet
          <6>2. CASE k \notin 1..Len(a)
            <7>1. k - Len(a) \in 1..Len(b) /\ s[k] = b[k - Len(a)]
              BY <2>4, <2>5, <6>2
            <7>2. b[k - Len(a)] \in ToSet(b)
              BY <1>2, <7>1 DEF ToSet
            <7>3. QED
              BY <7>1, <7>2
          <6>3. QED
            BY <6>1, <6>2
        <5>2. QED
          BY <5>1
      <4>2. QED
        BY <2>11, <4>1 DEF ToSet
    <3>2. \A k \in 1..Len(a) : a[k] \in ToSet(s)
      <4>1. \A k \in 1..Len(a) : k \in 1..Len(s)
        BY <2>1
      <4>2. QED
        BY <2>2, <2>11, <4>1 DEF ToSet
    <3>3. \A k \in 1..Len(b) : b[k] \in ToSet(s)
      <4>1. \A k \in 1..Len(b) : Len(a) + k \in 1..Len(s)
        BY <2>1
      <4>2. QED
        BY <2>3, <2>11, <4>1 DEF ToSet
    <3>4. DOMAIN a = 1..Len(a) /\ DOMAIN b = 1..Len(b)
      BY <1>1, <1>2
    <3>5. ToSet(a) \subseteq ToSet(s)
      BY <3>2, <3>4 DEF ToSet
    <3>6. ToSet(b) \subseteq ToSet(s)
      BY <3>3, <3>4 DEF ToSet
    <3>7. QED
      BY <3>1, <3>5, <3>6
  <2>13. \A r \in ToSet(refs) : known[r.commit] \in {"unknown", "target", "other"}
    BY CommitsAreRefs DEF ToSet
  <2>14. ToSet(s) = {r \in ToSet(refs) : known[r.commit] # "other"}
    BY <1>1, <1>2, <2>12, <2>13
  <2>15. SelectableStable(refs, known) = s
    BY <1>3, <1>5 DEF s
  <2>16. \A i, j \in DOMAIN s :
           (known[s[i].commit] = "target" /\ known[s[j].commit] = "unknown") => i < j
    BY <2>10, <2>11
  <2>17. QED
    BY <1>5, <2>1, <2>14, <2>15, <2>16
<1>6. QED
  BY <1>4, <1>5

----------------------------------------------------------------------------
(* They are tried in their order *)

\* The first candidates, up to the next one, have been tried in vain.
TriedInVain ==
    /\ look.cands = SelectableStable(look.stable, look.known) \o look.upstream
    /\ look.next \in 1..(Len(look.cands) + 1)
    /\ \A i \in 1..(look.next - 1) : Exhausted(look.cands[i])

Candidate == look.cands[look.next]

\* While a candidate's patch is asked for, whoever comes before this address has
\* been asked.
Asked ==
    /\ TriedInVain /\ look.next <= Len(look.cands)
    /\ look.url.ref = Candidate /\ look.url \in ToSet(PatchUrls(Candidate))
    /\ (Candidate.source = "linux-stable" /\ Candidate.commit \in world.mirror) =>
          Candidate \in look.mirrored
    /\ look.url # PatchUrls(Candidate)[1] => PatchUrls(Candidate)[1] \in look.spent

OrderOK ==
    /\ look.pc = "done" \/ look.out = "none"
    /\ look.pc = "stale" => look.try = MaxTries
    /\ look.pc = "git" => TriedInVain
    /\ look.pc \in AskPcs /\ look.url.kind = "patch" => Asked
    /\ look.out = "passed" =>
         TriedInVain /\ look.next <= Len(look.cands) /\ look.ref = Candidate
    /\ look.out = "failed" => TriedInVain /\ look.next > Len(look.cands)

SourcesOK == LookOK /\ OrderOK

\* What the tries so far are about stays, and only more is tried.
LEMMA StaysTried ==
    ASSUME TriedInVain, world' = world, look'.cands = look.cands, look'.next = look.next,
           look'.stable = look.stable, look'.upstream = look.upstream,
           look'.known = look.known, look.mirrored \subseteq look'.mirrored,
           look.spent \subseteq look'.spent
    PROVE  TriedInVain'
<1>1. \A r : Exhausted(r) => Exhausted(r)'
  BY DEF Exhausted
<1>2. (look.cands = SelectableStable(look.stable, look.known) \o look.upstream)'
  BY DEF TriedInVain, SelectableStable
<1>3. (look.next \in 1..(Len(look.cands) + 1))'
  BY DEF TriedInVain
<1>4. ASSUME NEW i \in 1..(look'.next - 1) PROVE Exhausted(look.cands[i])'
  <2>1. Exhausted(look.cands[i])
    BY DEF TriedInVain
  <2>2. PICK r : r = look.cands[i]
    OBVIOUS
  <2>3. Exhausted(r)'
    BY <1>1, <2>1, <2>2
  <2>4. (look.cands[i] = r)'
    BY <2>2
  <2>5. QED
    BY <2>3, <2>4 DEF Exhausted
<1>5. QED
  BY <1>2, <1>3, <1>4 DEF TriedInVain

LEMMA OneMoreTried ==
    ASSUME TriedInVain, look.next <= Len(look.cands), NEW r, r = Candidate, Exhausted(r)',
           world' = world, look'.cands = look.cands, look'.next = look.next + 1,
           look'.stable = look.stable, look'.upstream = look.upstream,
           look'.known = look.known, look.mirrored \subseteq look'.mirrored,
           look.spent \subseteq look'.spent, look.cands \in Seq(Refs)
    PROVE  TriedInVain'
<1>1. \A x : Exhausted(x) => Exhausted(x)'
  BY DEF Exhausted
<1>2. (look.cands = SelectableStable(look.stable, look.known) \o look.upstream)'
  BY DEF TriedInVain, SelectableStable
<1>3. (look.next \in 1..(Len(look.cands) + 1))'
  <2>1. Len(look.cands) \in Nat
    OBVIOUS
  <2>4. look.next \in 1..(Len(look.cands) + 1)
    BY Zenon DEF TriedInVain
  <2>2. look.next + 1 \in 1..(Len(look.cands) + 1)
    BY <2>1, <2>4
  <2>3. QED
    BY <2>2
<1>4. ASSUME NEW i \in 1..(look'.next - 1) PROVE Exhausted(look.cands[i])'
  <2>1. i = look.next \/ i \in 1..(look.next - 1)
    BY DEF TriedInVain
  <2>2. PICK x : x = look.cands[i]
    OBVIOUS
  <2>3. x = r \/ Exhausted(x)
    BY <2>1, <2>2 DEF TriedInVain, Candidate
  <2>4. Exhausted(x)'
    BY <1>1, <2>3
  <2>5. (look.cands[i] = x)'
    BY <2>2
  <2>6. QED
    BY <2>4, <2>5 DEF Exhausted
<1>5. QED
  BY <1>2, <1>3, <1>4 DEF TriedInVain

\* While the same address is asked, only the step of it changes.
LEMMA AsksOn ==
    ASSUME SourcesOK, look.pc \in AskPcs, look'.pc \in AskPcs \ {"stale"},
           look'.url = look.url, look'.out = look.out,
           look'.cands = look.cands, look'.next = look.next, look'.stable = look.stable,
           look'.upstream = look.upstream, look'.known = look.known,
           look'.mirrored = look.mirrored, look'.spent = look.spent, world' = world
    PROVE  OrderOK'
<1>1. Asked => Asked'
  BY StaysTried DEF Asked, Candidate
<1>2. QED
  BY <1>1 DEF OrderOK, SourcesOK, AskPcs

LEMMA AgainOK ==
    ASSUME SourcesOK, look.pc \in AskPcs, look' = Again(look), world' = world
    PROVE  look' \in Looks /\ OrderOK'
<1>1. look' \in Looks
  <2>1. look \in Looks /\ MaxTries \in Nat /\ look.try \in 0..MaxTries
    BY TriesPositive DEF SourcesOK, LookOK, Looks, Tries
  <2>2. CASE look.try < MaxTries
    <3> DEFINE t == look.try + 1
    <3>1. t \in Tries
      BY <2>1, <2>2 DEF Tries
    <3>2. look' = [look EXCEPT !.pc = "ask", !.try = t, !.text = "none"]
      BY <2>2 DEF Again
    <3> HIDE DEF t
    <3>4. "ask" \in AskPcs /\ "none" \in LookTexts
      BY DEF AskPcs, LookTexts
    <3>5. look \in Looks
      BY <2>1
    <3>6. [look EXCEPT !.pc = "ask", !.try = t, !.text = "none"] \in Looks
      BY <3>1, <3>5 DEF Looks, AskPcs, LookTexts
    <3>7. QED
      BY <3>2, <3>6
  <2>3. CASE ~(look.try < MaxTries)
    <3>2. look' = [look EXCEPT !.pc = "stale", !.text = "none"]
      BY <2>3 DEF Again
    <3>3. QED
      BY <2>1, <3>2 DEF Looks, AskPcs, LookTexts
  <2>4. QED
    BY <2>2, <2>3
<1>2. /\ look'.pc \in {"ask", "stale"} /\ look'.url = look.url
      /\ look'.pc = "stale" => look'.try = MaxTries
      /\ look'.out = look.out
  BY TriesPositive DEF SourcesOK, LookOK, Looks, AskPcs, Again, Tries
<1>3. /\ look'.cands = look.cands /\ look'.next = look.next /\ look'.stable = look.stable
      /\ look'.upstream = look.upstream /\ look'.known = look.known
      /\ look'.mirrored = look.mirrored /\ look'.spent = look.spent
  BY DEF SourcesOK, LookOK, Looks, Again
<1>4. Asked => Asked'
  BY <1>2, <1>3, StaysTried DEF Asked, Candidate
<1>5. QED
  BY <1>1, <1>2, <1>4 DEF OrderOK, SourcesOK, AskPcs

LEMMA TurnTyped ==
    ASSUME NEW l \in Looks, NEW u \in Urls
    PROVE  TurnTo(l, u) \in Looks
<1>1. 0 \in Tries
  BY TriesPositive DEF Tries
<1>2. QED
  BY <1>1 DEF Looks, TurnTo, AskPcs, LookTexts

LEMMA EndTyped ==
    ASSUME NEW l \in Looks, NEW out \in {"passed", "failed", "broken", "sourceless"},
           NEW ref \in Refs \cup {NoRef}, NEW text \in LookTexts
    PROVE  EndLook(l, out, ref, text) \in Looks
BY DEF Looks, EndLook

\* Away from the candidates, nothing is claimed.
LEMMA NothingTaken ==
    ASSUME look'.out = "none", look'.pc \notin {"git", "done", "stale"},
           look'.pc \in AskPcs => look'.url.kind # "patch"
    PROVE  OrderOK'
BY DEF OrderOK

LEMMA TurnedAside ==
    ASSUME NEW l \in Looks, l.out = "none",
           NEW u \in {NvdUrl, CdnUrl, RawUrl} \cup {MakefileUrl(c) : c \in Commits},
           look' = TurnTo(l, u)
    PROVE  look' \in Looks /\ OrderOK'
<1>1. u \in Urls /\ u.kind # "patch"
  BY DEF Urls, NvdUrl, CdnUrl, RawUrl, MakefileUrl
<1>2. TurnTo(l, u) \in Looks
  BY <1>1, TurnTyped
<1>3. TurnTo(l, u).out = "none" /\ TurnTo(l, u).pc = "cache" /\ TurnTo(l, u).url = u
  BY DEF Looks, TurnTo
<1>4. QED
  BY <1>1, <1>2, <1>3, NothingTaken

LEMMA DeliveredOK ==
    ASSUME SourcesOK, look.pc \in AskPcs, NEW text \in LookTexts,
           look' = Delivered(look, text), world' = world
    PROVE  look' \in Looks /\ OrderOK'
<1>1. look \in Looks /\ look.out = "none" /\ look.url \in Urls
  BY DEF SourcesOK, LookOK, OrderOK, AskPcs, Looks
<1>2. CASE look.url = NvdUrl
  <2> DEFINE l == IF text = "whole" THEN [look EXCEPT !.got = @ \cup {"nvd"}] ELSE look
  <2>1. look' = TurnTo(l, CdnUrl)
    BY <1>2 DEF Delivered, NvdUrl
  <2>2. l \in Looks /\ l.out = "none"
    BY <1>1 DEF Looks
  <2> HIDE DEF l
  <2>3. QED
    BY <2>1, <2>2, TurnedAside
<1>3. CASE look.url.kind = "cvelist" /\ look.url \in {CdnUrl, RawUrl}
  <2>1. CASE text = "whole"
    <3>1. look' = [look EXCEPT !.got = @ \cup {"cvelist"}, !.pc = "collect"]
      BY <1>3, <2>1 DEF Delivered
    <3>2. [look EXCEPT !.got = @ \cup {"cvelist"}, !.pc = "collect"] \in Looks
      BY <1>1 DEF Looks, AskPcs
    <3>3. look'.pc = "collect" /\ look'.out = "none"
      BY <1>1, <3>1 DEF Looks
    <3>4. QED
      BY <3>1, <3>2, <3>3, NothingTaken DEF AskPcs
  <2>2. CASE text # "whole" /\ look.url = CdnUrl
    <3>1. look' = TurnTo(look, RawUrl)
      BY <1>3, <2>2 DEF Delivered
    <3>2. QED
      BY <1>1, <3>1, TurnedAside
  <2>3. CASE text # "whole" /\ look.url # CdnUrl
    <3>1. look' = [look EXCEPT !.pc = "collect"]
      BY <1>3, <2>3 DEF Delivered
    <3>2. [look EXCEPT !.pc = "collect"] \in Looks
      BY <1>1 DEF Looks, AskPcs
    <3>3. look'.pc = "collect" /\ look'.out = "none"
      BY <1>1, <3>1 DEF Looks
    <3>4. QED
      BY <3>1, <3>2, <3>3, NothingTaken DEF AskPcs
  <2>4. QED
    BY <2>1, <2>2, <2>3
<1>4. CASE look.url.kind = "makefile" /\ look.url.ref.commit \in Commits
  <2> DEFINE c == look.url.ref.commit
             series == IF text = "whole" THEN world.series[c] ELSE "unknown"
             next == look.next + 1
  <2>1. series \in {"unknown", "target", "other"}
    BY <1>4, WorldsTyped DEF SourcesOK, LookOK, WorldType
  <2>2. next \in Places
    BY <1>1 DEF Looks, Places
  <2>3. look' = [look EXCEPT !.pc = "series", !.next = next, !.known[c] = series]
    BY <1>4 DEF Delivered
  <2>4. c \in Commits
    BY <1>4
  <2> HIDE DEF c, series, next
  <2>5. look' = [look EXCEPT !.pc = "series", !.next = next,
                             !.known = [look.known EXCEPT ![c] = series]]
    BY <1>1, <2>3 DEF Looks
  <2>6. [look.known EXCEPT ![c] = series] \in [Commits -> {"unknown", "target", "other"}]
    BY <1>1, <2>1, <2>4 DEF Looks
  <2> DEFINE k == [look.known EXCEPT ![c] = series]
  <2> HIDE DEF k
  <2>7. [look EXCEPT !.pc = "series", !.next = next, !.known = k] \in Looks
    BY <1>1, <2>2, <2>6 DEF Looks, AskPcs, k
  <2>8. look'.pc = "series" /\ look'.out = "none"
    BY <1>1, <2>5 DEF Looks
  <2>9. QED
    BY <2>5, <2>7, <2>8, NothingTaken DEF AskPcs, k
<1>5. CASE look.url.kind = "patch" /\ look.url.ref \in Refs
  <2>1. look' = EndLook(look, "passed", look.url.ref, text)
    BY <1>5 DEF Delivered
  <2>2. EndLook(look, "passed", look.url.ref, text) \in Looks
    BY <1>1, <1>5, EndTyped
  <2>3. Asked
    BY <1>5 DEF SourcesOK, OrderOK
  <2>4. /\ look'.pc = "done" /\ look'.out = "passed" /\ look'.ref = look.url.ref
        /\ look'.cands = look.cands /\ look'.next = look.next /\ look'.stable = look.stable
        /\ look'.upstream = look.upstream /\ look'.known = look.known
        /\ look'.mirrored = look.mirrored /\ look'.spent = look.spent
    BY <1>1, <2>1 DEF Looks, EndLook
  <2>5. TriedInVain'
    BY <2>3, <2>4, StaysTried DEF Asked
  <2>6. look'.next <= Len(look'.cands) /\ look'.ref = Candidate'
    BY <2>3, <2>4 DEF Asked, Candidate
  <2>7. OrderOK'
    BY <2>4, <2>5, <2>6 DEF OrderOK, AskPcs
  <2>8. QED
    BY <2>1, <2>2, <2>7
<1>6. QED
  BY <1>1, <1>2, <1>3, <1>4, <1>5, UrlKinds

LEMMA MissedOK ==
    ASSUME SourcesOK, world' = world,
           \/ look.pc = "ask" /\ look' = Missed(look, TRUE)
           \/ look.pc = "stale" /\ look' = Missed(look, FALSE)
    PROVE  look' \in Looks /\ OrderOK'
<1>1. /\ look \in Looks /\ look.out = "none" /\ look.url \in Urls
      /\ look.next \in Places /\ look.cands \in Seq(Refs)
  BY DEF SourcesOK, LookOK, OrderOK, AskPcs, Looks
<1>8. \/ look' = Missed(look, TRUE)
      \/ look' = Missed(look, FALSE) /\ look.try = MaxTries
  BY DEF SourcesOK, OrderOK
<1> DEFINE next == look.next + 1
<1>9. next \in Places
  BY <1>1 DEF Places
<1>2. CASE look.url = NvdUrl
  <2>1. look' = TurnTo(look, CdnUrl)
    BY <1>8, <1>2 DEF Missed, NvdUrl, CdnUrl, RawUrl
  <2>3. QED
    BY <1>1, <2>1, TurnedAside
<1>3. CASE look.url = CdnUrl
  <2>1. look' = TurnTo(look, RawUrl)
    BY <1>8, <1>3 DEF Missed, CdnUrl, RawUrl
  <2>3. QED
    BY <1>1, <2>1, TurnedAside
<1>4. CASE look.url = RawUrl
  <2>1. look' = [look EXCEPT !.pc = "collect"]
    BY <1>8, <1>4 DEF Missed, CdnUrl, RawUrl
  <2>2. [look EXCEPT !.pc = "collect"] \in Looks
    BY <1>1 DEF Looks, AskPcs
  <2>3. look'.pc = "collect" /\ look'.out = "none"
    BY <1>1, <2>1 DEF Looks
  <2>4. QED
    BY <2>1, <2>2, <2>3, NothingTaken DEF AskPcs
<1>5. CASE look.url.kind = "makefile"
  <2>1. look' = [look EXCEPT !.pc = "series", !.next = next]
    BY <1>8, <1>5 DEF Missed, CdnUrl, RawUrl
  <2> HIDE DEF next
  <2>2. [look EXCEPT !.pc = "series", !.next = next] \in Looks
    BY <1>1, <1>9 DEF Looks, AskPcs
  <2>3. look'.pc = "series" /\ look'.out = "none"
    BY <1>1, <2>1 DEF Looks
  <2>4. QED
    BY <2>1, <2>2, <2>3, NothingTaken DEF AskPcs
<1>6. CASE look.url.kind = "patch" /\ look.url.ref \in Refs
  <2> DEFINE more == look.spent \cup {look.url}
             spent == [look EXCEPT !.spent = more]
  <2>9. PICK r : r = look.url.ref
    OBVIOUS
  <2>10. PICK head, last : head = PatchUrls(r)[1] /\ last = Last(PatchUrls(r))
    OBVIOUS
  <2>11. /\ ToSet(PatchUrls(r)) = {head, last} /\ r \in Refs
         /\ last \in Urls /\ last.kind = "patch" /\ last.ref = r
    <3>1. r \in Refs
      BY <1>6, <2>9
    <3>2. QED
      BY <2>10, <3>1, TheAddresses
  <2>1. look' = IF look.url # last THEN TurnTo(spent, last)
                ELSE [spent EXCEPT !.pc = "git", !.next = next]
    <3>1. spent.next = look.next
      BY <1>1 DEF Looks
    <3>2. look.url # CdnUrl /\ look.url # RawUrl
      BY <1>6 DEF CdnUrl, RawUrl
    <3>3. QED
      BY <1>1, <1>6, <1>8, <2>9, <2>10, <3>1, <3>2 DEF Missed
  <2>2. more \in SUBSET Urls /\ look.spent \subseteq more /\ look.url \in more
    BY <1>1 DEF Looks
  <2> HIDE DEF more
  <2>3. spent \in Looks
    BY <1>1, <2>2 DEF Looks
  <2>4. Asked
    BY <1>1, <1>6 DEF SourcesOK, OrderOK, AskPcs
  <2>12. /\ r = Candidate /\ look.url \in {head, last}
         /\ look.url # head => head \in look.spent
    BY <2>4, <2>9, <2>10, <2>11 DEF Asked
  <2>5. CASE look.url # last
    <3>2. TurnTo(spent, last) \in Looks
      BY <2>3, <2>11, TurnTyped
    <3>3. look' = TurnTo(spent, last)
      BY <2>1, <2>5
    <3>4. /\ look'.pc = "cache" /\ look'.url = last /\ look'.out = "none" /\ look'.spent = more
          /\ look'.cands = look.cands /\ look'.next = look.next /\ look'.stable = look.stable
          /\ look'.upstream = look.upstream /\ look'.known = look.known
          /\ look'.mirrored = look.mirrored
      BY <1>1, <3>3 DEF Looks, TurnTo
    <3>5. TriedInVain'
      BY <2>2, <2>4, <3>4, StaysTried DEF Asked
    <3>6. Asked'
      <4>1. Candidate' = r
        BY <2>12, <3>4 DEF Candidate
      <4>2. head \in look'.spent
        BY <2>2, <2>5, <2>12, <3>4
      <4>3. (PatchUrls(Candidate) = PatchUrls(r))'
        BY <4>1
      <4>4. PatchUrls(r)' = PatchUrls(r)
        BY DEF PatchUrls, PatchUrl
      <4>5. look'.url.ref = Candidate' /\ look'.url \in ToSet(PatchUrls(Candidate))'
        BY <2>10, <2>11, <3>4, <4>1
      <4>6. look'.next <= Len(look'.cands)
        BY <2>4, <3>4 DEF Asked
      <4>7. (r.source = "linux-stable" /\ r.commit \in world'.mirror) => r \in look'.mirrored
        BY <2>4, <2>12, <3>4 DEF Asked
      <4>8. (PatchUrls(Candidate)[1])' \in look'.spent
        BY <2>10, <4>1, <4>2
      <4>9. QED
        BY <3>5, <4>1, <4>5, <4>6, <4>7, <4>8 DEF Asked
    <3>7. OrderOK'
      BY <3>4, <3>6 DEF OrderOK, AskPcs
    <3>8. QED
      BY <3>2, <3>3, <3>7
  <2>6. CASE look.url = last
    <3>1. look' = [look EXCEPT !.spent = more, !.pc = "git", !.next = next]
      BY <1>1, <2>1, <2>6 DEF Looks
    <3> HIDE DEF next
    <3>2. [look EXCEPT !.spent = more, !.pc = "git", !.next = next] \in Looks
      BY <1>1, <1>9, <2>2 DEF Looks, AskPcs
    <3>4. /\ look'.pc = "git" /\ look'.out = "none" /\ look'.spent = more /\ look'.next = next
          /\ look'.cands = look.cands /\ look'.stable = look.stable
          /\ look'.upstream = look.upstream /\ look'.known = look.known
          /\ look'.mirrored = look.mirrored
      BY <1>1, <3>1 DEF Looks
    <3>9. Exhausted(r)'
      <4>2. head \in look'.spent /\ last \in look'.spent
        BY <2>2, <2>6, <2>12, <3>4
      <4>3. (r.source = "linux-stable" /\ r.commit \in world'.mirror) => r \in look'.mirrored
        BY <2>4, <2>12, <3>4 DEF Asked
      <4>4. ToSet(PatchUrls(r)) \subseteq look'.spent
        BY <2>11, <4>2
      <4>5. QED
        BY <4>3, <4>4 DEF Exhausted
    <3>6. TriedInVain'
      BY <1>1, <2>2, <2>4, <2>12, <3>4, <3>9, OneMoreTried DEF next, Asked
    <3>7. OrderOK'
      BY <3>4, <3>6 DEF OrderOK, AskPcs
    <3>8. QED
      BY <3>1, <3>2, <3>7
  <2>7. QED
    BY <2>5, <2>6
<1>7. QED
  BY <1>1, <1>2, <1>3, <1>4, <1>5, <1>6, UrlKinds

LEMMA ListedOK ==
    ASSUME SourcesOK, RankCandidates
    PROVE  look' \in Looks /\ OrderOK'
<1> DEFINE first == SelectableStable(look.stable, look.known)
           cands == first \o look.upstream
<1>1. look \in Looks /\ look.out = "none"
  BY DEF SourcesOK, LookOK, OrderOK, RankCandidates
<1>2. first \in Seq(StableOnes)
  BY <1>1, SelectableIs DEF Looks
<1>3. first \in Seq(Refs) /\ look.upstream \in Seq(Refs)
  <2>1. look.upstream \in Seq(UpstreamOnes)
    BY <1>1 DEF Looks
  <2>2. QED
    BY <1>2, <2>1, CommitsAreRefs
<1>4. cands \in Seq(Refs)
  BY <1>3
<1>5. look' = [look EXCEPT !.pc = "git", !.next = 1, !.cands = cands] /\ world' = world
  BY DEF RankCandidates
<1> HIDE DEF cands
<1>6. 1 \in Places
  BY DEF Places
<1>7. [look EXCEPT !.pc = "git", !.next = 1, !.cands = cands] \in Looks
  BY <1>1, <1>4, <1>6 DEF Looks, AskPcs
<1>8. /\ look'.pc = "git" /\ look'.next = 1 /\ look'.cands = cands /\ look'.out = "none"
      /\ look'.stable = look.stable /\ look'.known = look.known
      /\ look'.upstream = look.upstream
  BY <1>1, <1>5 DEF Looks
<1>9. TriedInVain'
  <2>1. (look.cands = SelectableStable(look.stable, look.known) \o look.upstream)'
    BY <1>5, <1>8 DEF cands, SelectableStable
  <2>2. (look.next \in 1..(Len(look.cands) + 1))'
    <3>1. Len(cands) \in Nat
      BY <1>4
    <3>2. QED
      BY <1>8, <3>1
  <2>3. \A i \in 1..(look'.next - 1) : FALSE
    BY <1>8
  <2>4. QED
    BY <2>1, <2>2, <2>3 DEF TriedInVain
<1>10. OrderOK'
  BY <1>8, <1>9 DEF OrderOK, AskPcs
<1>11. QED
  BY <1>5, <1>7, <1>10

\* The candidate whose turn it is is asked for at the first server.
LEMMA AskingOK ==
    ASSUME SourcesOK, look.pc = "git", look.next <= Len(look.cands),
           NEW ref, ref = Candidate, NEW mirrored \in SUBSET Refs, look.mirrored \subseteq mirrored,
           (ref.source = "linux-stable" /\ ref.commit \in world.mirror) => ref \in mirrored,
           look' = TurnTo([look EXCEPT !.mirrored = mirrored], PatchUrls(ref)[1]),
           world' = world
    PROVE  look' \in Looks /\ OrderOK'
<1>1. look \in Looks /\ look.out = "none" /\ TriedInVain
  BY DEF SourcesOK, LookOK, OrderOK
<1>2. ref \in Refs
  <2>1. look.cands \in Seq(Refs) /\ look.next \in Nat \ {0}
    BY <1>1 DEF Looks, Places
  <2>2. QED
    BY <2>1 DEF Candidate
<1> DEFINE url == PatchUrls(ref)[1]
           l == [look EXCEPT !.mirrored = mirrored]
<1>3. url \in Urls /\ url.kind = "patch" /\ url.ref = ref /\ url \in ToSet(PatchUrls(ref))
  BY <1>2, TheAddresses
<1> HIDE DEF url
<1>4. l \in Looks
  BY <1>1 DEF Looks
<1>5. TurnTo(l, url) \in Looks /\ look' = TurnTo(l, url)
  BY <1>3, <1>4, TurnTyped DEF url
<1>6. /\ look'.pc = "cache" /\ look'.url = url /\ look'.out = "none"
      /\ look'.cands = look.cands /\ look'.next = look.next /\ look'.stable = look.stable
      /\ look'.upstream = look.upstream /\ look'.known = look.known
      /\ look'.mirrored = mirrored /\ look'.spent = look.spent
  BY <1>1, <1>5 DEF Looks, TurnTo
<1>7. TriedInVain'
  BY <1>1, <1>6, StaysTried
<1>8. Asked'
  BY <1>3, <1>6, <1>7 DEF Asked, Candidate, url
<1>9. OrderOK'
  BY <1>6, <1>8 DEF OrderOK, AskPcs
<1>10. QED
  BY <1>5, <1>9

\* The step to an end.
LEMMA EndedOK ==
    ASSUME SourcesOK, look.pc = "git", NEW out \in {"passed", "failed", "sourceless"},
           NEW ref \in Refs \cup {NoRef}, NEW text \in LookTexts,
           out = "passed" => look.next <= Len(look.cands) /\ ref = Candidate,
           out = "failed" => look.next > Len(look.cands),
           look' = EndLook(look, out, ref, text), world' = world
    PROVE  look' \in Looks /\ OrderOK'
<1>1. look \in Looks /\ look.out = "none" /\ TriedInVain
  BY DEF SourcesOK, LookOK, OrderOK
<1>2. EndLook(look, out, ref, text) \in Looks
  BY <1>1, EndTyped
<1>3. /\ look'.pc = "done" /\ look'.out = out /\ look'.ref = ref
      /\ look'.cands = look.cands /\ look'.next = look.next /\ look'.stable = look.stable
      /\ look'.upstream = look.upstream /\ look'.known = look.known
      /\ look'.mirrored = look.mirrored /\ look'.spent = look.spent
  BY <1>1 DEF Looks, EndLook
<1>4. TriedInVain'
  BY <1>1, <1>3, StaysTried
<1>5. OrderOK'
  BY <1>3, <1>4 DEF OrderOK, AskPcs, Candidate
<1>6. QED
  BY <1>2, <1>5

----------------------------------------------------------------------------
(* The steps *)

LEMMA SourcesInitOK == SourcesInit => SourcesOK
<1> SUFFICES ASSUME SourcesInit PROVE SourcesOK
  OBVIOUS
<1>1. world \in Worlds /\ world.left \in [text : LookTexts, age : Ages]
  BY WorldsTyped DEF SourcesInit, WorldType, LookTexts
<1>2. cache \in [Keys -> [text : LookTexts, age : Ages]]
  BY <1>1 DEF SourcesInit
<1>3. look = FirstLook /\ 0 \in Tries /\ 1 \in Places /\ NvdUrl \in Urls
  BY TriesPositive, KnownAddresses DEF SourcesInit, Tries, Places
<1>4. [c \in Commits |-> "unknown"] \in [Commits -> {"unknown", "target", "other"}]
  OBVIOUS
<1>5. <<>> \in Seq(StableOnes) /\ <<>> \in Seq(UpstreamOnes) /\ <<>> \in Seq(Refs)
  OBVIOUS
<1>6. FirstLook \in Looks
  BY <1>3, <1>4, <1>5 DEF FirstLook, Looks, AskPcs, LookTexts
<1>7. OrderOK
  BY <1>3 DEF FirstLook, OrderOK, NvdUrl
<1>8. QED
  BY <1>1, <1>2, <1>3, <1>6, <1>7 DEF SourcesOK, LookOK

LEMMA SourcesStepOK == SourcesOK /\ [SourcesNext]_sourceVars => SourcesOK'
<1> SUFFICES ASSUME SourcesOK, [SourcesNext]_sourceVars PROVE SourcesOK'
  OBVIOUS
<1>0. /\ world \in Worlds /\ cache \in [Keys -> [text : LookTexts, age : Ages]]
      /\ look \in Looks /\ look.url \in Urls /\ look.next \in Places
      /\ CacheKey(look.url) \in Keys
  BY UrlKinds DEF SourcesOK, LookOK, Looks
<1> DEFINE key == CacheKey(look.url)
<1>20. cache[key].text \in LookTexts
  BY <1>0
<1>1. CASE ReadFresh
  <2>1. CASE Cached(look.url, {"fresh"})
    <3>1. look' = Delivered(look, cache[key].text) /\ look.pc \in AskPcs
      BY <1>1, <2>1 DEF ReadFresh, AskPcs
    <3>2. look' \in Looks /\ OrderOK'
      BY <1>1, <1>20, <3>1, DeliveredOK DEF ReadFresh
    <3>3. QED
      BY <1>0, <1>1, <3>2 DEF ReadFresh, SourcesOK, LookOK
  <2>2. CASE ~Cached(look.url, {"fresh"})
    <3>1. look' = [look EXCEPT !.pc = "ask", !.try = 1]
      BY <1>1, <2>2 DEF ReadFresh
    <3>2. 1 \in Tries
      BY TriesPositive DEF Tries
    <3>3. [look EXCEPT !.pc = "ask", !.try = 1] \in Looks
      BY <1>0, <3>2 DEF Looks, AskPcs
    <3>4. OrderOK'
      BY <1>0, <1>1, <3>1, AsksOn DEF ReadFresh, AskPcs, Looks
    <3>5. QED
      BY <1>0, <1>1, <3>1, <3>3, <3>4 DEF ReadFresh, SourcesOK, LookOK
  <2>3. QED
    BY <2>1, <2>2
<1>2. CASE NoAnswer
  <2>1. look' \in Looks /\ OrderOK'
    BY <1>2, AgainOK DEF NoAnswer, AskPcs
  <2>2. QED
    BY <1>0, <1>2, <2>1 DEF NoAnswer, SourcesOK, LookOK
<1>3. CASE Refused
  <2>1. look.pc = "ask" /\ look' = Missed(look, TRUE) /\ world' = world
    BY <1>3 DEF Refused
  <2>2. look' \in Looks /\ OrderOK'
    BY <2>1, MissedOK
  <2>3. QED
    BY <1>0, <1>3, <2>2 DEF Refused, SourcesOK, LookOK
<1>4. CASE CutOff
  <2>1. look' = EndLook(look, "broken", NoRef, "none") /\ "none" \in LookTexts
    BY <1>4 DEF CutOff, LookTexts
  <2>2. look' \in Looks
    BY <1>0, <2>1, EndTyped
  <2>3. look'.pc = "done" /\ look'.out = "broken"
    BY <1>0, <2>1 DEF Looks, EndLook
  <2>4. OrderOK'
    BY <2>3 DEF OrderOK, AskPcs
  <2>5. QED
    BY <1>0, <1>4, <2>2, <2>4 DEF CutOff, SourcesOK, LookOK
<1>5. CASE Answered
  <2>1. PICK text \in {"whole", "other"} : look' = [look EXCEPT !.pc = "fill", !.text = text]
    BY <1>5 DEF Answered
  <2>2. [look EXCEPT !.pc = "fill", !.text = text] \in Looks
    BY <1>0 DEF Looks, AskPcs, LookTexts
  <2>3. OrderOK'
    BY <1>0, <1>5, <2>1, AsksOn DEF Answered, AskPcs, Looks
  <2>4. cache' = [cache EXCEPT ![key] = [cache[key] EXCEPT !.text = "torn"]]
    BY <1>5 DEF Answered
  <2>5. cache' \in [Keys -> [text : LookTexts, age : Ages]]
    BY <1>0, <2>4 DEF LookTexts
  <2>6. QED
    BY <1>0, <1>5, <2>1, <2>2, <2>3, <2>5 DEF Answered, SourcesOK, LookOK
<1>6. CASE FillCache
  <2>1. look' = [look EXCEPT !.pc = "date"]
    BY <1>6 DEF FillCache
  <2>2. [look EXCEPT !.pc = "date"] \in Looks
    BY <1>0 DEF Looks, AskPcs
  <2>3. OrderOK'
    BY <1>0, <1>6, <2>1, AsksOn DEF FillCache, AskPcs, Looks
  <2>4. cache' = [cache EXCEPT ![key] = [cache[key] EXCEPT !.text = look.text]]
    BY <1>6 DEF FillCache
  <2>5. look.text \in LookTexts
    BY <1>0 DEF Looks
  <2>6. cache' \in [Keys -> [text : LookTexts, age : Ages]]
    BY <1>0, <2>4, <2>5
  <2>7. QED
    BY <1>0, <1>6, <2>1, <2>2, <2>3, <2>6 DEF FillCache, SourcesOK, LookOK
<1>7. CASE DateCache
  <2>1. look.text \in LookTexts
    BY <1>0 DEF Looks
  <2>2. look' \in Looks /\ OrderOK'
    BY <1>7, <2>1, DeliveredOK DEF DateCache, AskPcs
  <2>3. cache' = [cache EXCEPT ![key] = [cache[key] EXCEPT !.age = "fresh"]]
    BY <1>7 DEF DateCache
  <2>4. cache' \in [Keys -> [text : LookTexts, age : Ages]]
    BY <1>0, <2>3 DEF Ages
  <2>5. QED
    BY <1>0, <1>7, <2>2, <2>4 DEF DateCache, SourcesOK, LookOK
<1>8. CASE CacheFails
  <2>1. look' \in Looks /\ OrderOK'
    BY <1>8, AgainOK DEF CacheFails, AskPcs
  <2>2. cache' \in {cache, [cache EXCEPT ![key] = [cache[key] EXCEPT !.age = "none"]]}
    BY <1>8 DEF CacheFails
  <2>3. cache' \in [Keys -> [text : LookTexts, age : Ages]]
    BY <1>0, <2>2 DEF Ages
  <2>4. QED
    BY <1>0, <1>8, <2>1, <2>3 DEF CacheFails, SourcesOK, LookOK
<1>9. CASE ReadStale
  <2>1. look' \in Looks /\ OrderOK'
    <3>1. CASE look' = Delivered(look, cache[key].text)
      BY <1>9, <1>20, <3>1, DeliveredOK DEF ReadStale, AskPcs
    <3>2. CASE look' = Missed(look, FALSE)
      BY <1>9, <3>2, MissedOK DEF ReadStale
    <3>3. QED
      BY <1>9, <3>1, <3>2 DEF ReadStale
  <2>2. QED
    BY <1>0, <1>9, <2>1 DEF ReadStale, SourcesOK, LookOK
<1>10. CASE Collect
  <2> DEFINE stable == StableRefs(look.got)
             upstream == UpstreamRefs(look.got)
  <2>1. stable \in Seq(StableOnes) /\ upstream \in Seq(UpstreamOnes)
    BY <1>0, CollectedRefs
  <2>2. look' = [look EXCEPT !.pc = "series", !.next = 1, !.stable = stable,
                             !.upstream = upstream]
    BY <1>10 DEF Collect
  <2> HIDE DEF stable, upstream
  <2>3. 1 \in Places
    BY DEF Places
  <2>4. [look EXCEPT !.pc = "series", !.next = 1, !.stable = stable, !.upstream = upstream]
        \in Looks
    BY <1>0, <2>1, <2>3 DEF Looks, AskPcs
  <2>5. look'.pc = "series" /\ look'.out = "none"
    BY <1>0, <1>10, <2>2 DEF Collect, Looks, SourcesOK, OrderOK
  <2>6. OrderOK'
    BY <2>5, NothingTaken DEF AskPcs
  <2>7. QED
    BY <1>0, <1>10, <2>2, <2>4, <2>6 DEF Collect, SourcesOK, LookOK
<1>11. CASE LookUpSeries
  <2> DEFINE c == look.stable[look.next].commit
             next == look.next + 1
  <2>1. c \in Commits
    <3>1. look.stable \in Seq(StableOnes) /\ look.next \in Nat \ {0}
      BY <1>0 DEF Looks, Places
    <3>2. look.next <= Len(look.stable)
      BY <1>11 DEF LookUpSeries
    <3>3. look.stable[look.next] \in StableOnes
      BY <3>1, <3>2
    <3>4. QED
      BY <3>3, CommitsAreRefs
  <2>2. look.out = "none"
    BY <1>11 DEF LookUpSeries, SourcesOK, OrderOK
  <2>3. CASE look' = TurnTo(look, MakefileUrl(c))
    <3>1. look' \in Looks /\ OrderOK'
      BY <1>0, <2>1, <2>2, <2>3, TurnedAside
    <3>2. QED
      BY <1>0, <1>11, <3>1 DEF LookUpSeries, SourcesOK, LookOK
  <2>4. CASE look' = [look EXCEPT !.known[c] = world.series[c], !.next = @ + 1]
    <3> DEFINE known == [look.known EXCEPT ![c] = world.series[c]]
    <3>1. world.series[c] \in {"target", "other"}
      BY <1>0, <2>1, WorldsTyped DEF WorldType
    <3>2. known \in [Commits -> {"unknown", "target", "other"}]
      BY <1>0, <2>1, <3>1 DEF Looks
    <3>3. next \in Places
      BY <1>0 DEF Places
    <3>4. look' = [look EXCEPT !.known = known, !.next = next]
      BY <1>0, <2>4 DEF Looks
    <3> HIDE DEF known, next
    <3>5. [look EXCEPT !.known = known, !.next = next] \in Looks
      BY <1>0, <3>2, <3>3 DEF Looks
    <3>6. look'.pc = "series" /\ look'.out = "none"
      BY <1>0, <1>11, <2>2, <3>4 DEF LookUpSeries, Looks
    <3>7. OrderOK'
      BY <3>6, NothingTaken DEF AskPcs
    <3>8. QED
      BY <1>0, <1>11, <3>4, <3>5, <3>7 DEF LookUpSeries, SourcesOK, LookOK
  <2>5. QED
    BY <1>11, <2>3, <2>4 DEF LookUpSeries
<1>12. CASE RankCandidates
  <2>1. look' \in Looks /\ OrderOK'
    BY <1>12, ListedOK
  <2>2. QED
    BY <1>0, <1>12, <2>1 DEF RankCandidates, SourcesOK, LookOK
<1>13. CASE TryMirror \/ TryServers
  <2>1. PICK ref : ref = Candidate
    OBVIOUS
  <2>2. look.pc = "git" /\ look.next <= Len(look.cands) /\ UNCHANGED <<world, cache, faults>>
    BY <1>13 DEF TryMirror, TryServers
  <2>3. ref \in Refs
    <3>1. look.cands \in Seq(Refs) /\ look.next \in Nat \ {0}
      BY <1>0 DEF Looks, Places
    <3>2. QED
      BY <2>1, <2>2, <3>1 DEF Candidate
  <2>4. "whole" \in LookTexts
    BY DEF LookTexts
  <2> DEFINE onMirror == ref.source = "linux-stable" /\ ref.commit \in world.mirror
  <2> SUFFICES look' \in Looks /\ OrderOK'
    BY <1>0, <2>2 DEF SourcesOK, LookOK
  <2>5. CASE look' = EndLook(look, "passed", ref, "whole")
    <3>1. PICK out : out = "passed"
      OBVIOUS
    <3>2. look' = EndLook(look, out, ref, "whole") /\ out \in {"passed", "failed", "sourceless"}
          /\ out # "failed" /\ ref \in Refs \cup {NoRef} /\ world' = world
      BY <2>2, <2>3, <2>5, <3>1
    <3>3. QED
      BY <2>1, <2>2, <2>4, <3>2, EndedOK
  <2>6. ASSUME NEW mirrored \in SUBSET Refs, look.mirrored \subseteq mirrored,
               onMirror => ref \in mirrored,
               look' = TurnTo([look EXCEPT !.mirrored = mirrored], PatchUrls(ref)[1])
        PROVE  look' \in Looks /\ OrderOK'
    <3>1. world' = world /\ look.pc = "git" /\ look.next <= Len(look.cands)
      BY <2>2
    <3>2. QED
      BY <2>1, <2>2, <2>6, <3>1, AskingOK
  <2>7. CASE TryMirror
    <3> DEFINE mirrored == look.mirrored \cup {ref}
    <3>1. mirrored \in SUBSET Refs /\ look.mirrored \subseteq mirrored /\ ref \in mirrored
      BY <1>0, <2>3 DEF Looks
    <3>2. \/ look' = EndLook(look, "passed", ref, "whole")
          \/ look' = TurnTo([look EXCEPT !.mirrored = mirrored], PatchUrls(ref)[1])
      BY <2>1, <2>7 DEF TryMirror, Candidate
    <3> HIDE DEF mirrored, onMirror
    <3>3. QED
      BY <2>5, <2>6, <3>1, <3>2
  <2>8. CASE TryServers
    <3>1. look' = TurnTo(look, PatchUrls(ref)[1]) /\ ~onMirror
      BY <2>1, <2>8 DEF TryServers, Candidate
    <3> DEFINE mirrored == look.mirrored
    <3>2. look = [look EXCEPT !.mirrored = mirrored] /\ mirrored \in SUBSET Refs
          /\ look.mirrored \subseteq mirrored
      BY <1>0 DEF Looks
    <3>3. look' = TurnTo([look EXCEPT !.mirrored = mirrored], PatchUrls(ref)[1])
      BY <3>1, <3>2
    <3> HIDE DEF mirrored, onMirror
    <3>4. QED
      BY <2>6, <3>1, <3>2, <3>3
  <2>9. QED
    BY <1>13, <2>7, <2>8
<1>14. CASE GiveUp
  <2> DEFINE out == IF look.cands = <<>> THEN "sourceless" ELSE "failed"
  <2>1. look' = EndLook(look, out, NoRef, "none") /\ "none" \in LookTexts
    BY <1>14 DEF GiveUp, LookTexts
  <2>2. out \in {"failed", "sourceless"} /\ look.pc = "git" /\ look.next > Len(look.cands)
        /\ world' = world
    BY <1>14 DEF GiveUp
  <2> HIDE DEF out
  <2>5. out # "passed" /\ out \in {"passed", "failed", "sourceless"} /\ NoRef \in Refs \cup {NoRef}
    BY <2>2
  <2>3. look' \in Looks /\ OrderOK'
    BY <2>1, <2>2, <2>5, EndedOK
  <2>4. QED
    BY <1>0, <1>14, <2>3 DEF GiveUp, SourcesOK, LookOK
<1>15. CASE UNCHANGED sourceVars
  <2>1. TriedInVain => TriedInVain'
    BY <1>15, StaysTried DEF sourceVars
  <2>2. QED
    BY <1>15, <2>1 DEF sourceVars, SourcesOK, LookOK, OrderOK, Asked, Candidate
<1>16. QED
  BY <1>1, <1>2, <1>3, <1>4, <1>5, <1>6, <1>7, <1>8, <1>9, <1>10, <1>11, <1>12, <1>13, <1>14,
     <1>15 DEF SourcesNext
----------------------------------------------------------------------------
(* The results *)

\* Whoever is among the candidates before the next one is exhausted; which are
\* the fitting stable commits, then the upstream ones.
LEMMA PassedOverInVain ==
    ASSUME SourcesOK, TriedInVain, NEW first, first = SelectableStable(look.stable, look.known)
    PROVE  /\ first \in Seq(StableOnes) /\ look.upstream \in Seq(UpstreamOnes)
           /\ ToSet(first) = {r \in ToSet(look.stable) : Fits(r)}
           /\ look.cands \in Seq(Refs) /\ look.next \in 1..(Len(look.cands) + 1)
           /\ Len(first) \in Nat /\ Len(look.upstream) \in Nat
           /\ Len(look.cands) = Len(first) + Len(look.upstream)
           /\ \A i \in 1..Len(first) : look.cands[i] = first[i]
           /\ \A i \in 1..Len(look.upstream) : look.cands[Len(first) + i] = look.upstream[i]
           /\ \A i \in 1..(look.next - 1) : Exhausted(look.cands[i])
<1>1. /\ look.stable \in Seq(StableOnes) /\ look.upstream \in Seq(UpstreamOnes)
      /\ look.known \in [Commits -> {"unknown", "target", "other"}]
  BY DEF SourcesOK, LookOK, Looks
<1>2. /\ first \in Seq(StableOnes)
      /\ ToSet(first) = {r \in ToSet(look.stable) : world.targeted => look.known[r.commit] # "other"}
  BY <1>1, SelectableIs
<1>3. ToSet(first) = {r \in ToSet(look.stable) : Fits(r)}
  BY <1>2 DEF Fits
<1>4. first \in Seq(Refs) /\ look.upstream \in Seq(Refs)
  BY <1>1, <1>2, CommitsAreRefs
<1>5. look.cands = first \o look.upstream
  BY DEF TriedInVain
<1>6. /\ look.cands \in Seq(Refs) /\ Len(first) \in Nat /\ Len(look.upstream) \in Nat
      /\ Len(look.cands) = Len(first) + Len(look.upstream)
      /\ \A i \in 1..Len(first) : look.cands[i] = first[i]
      /\ \A i \in 1..Len(look.upstream) : look.cands[Len(first) + i] = look.upstream[i]
  BY <1>4, <1>5, OneAfterTheOther
<1>7. look.next \in 1..(Len(look.cands) + 1)
      /\ \A i \in 1..(look.next - 1) : Exhausted(look.cands[i])
  BY DEF TriedInVain
<1>8. QED
  BY <1>1, <1>2, <1>3, <1>6, <1>7

LEMMA TakenInOrderHolds == SourcesOK => TakenInOrder
<1> SUFFICES ASSUME SourcesOK, TriedInVain, look.out \in {"failed", "passed"}
             PROVE  TakenInOrder
  BY DEF SourcesOK, OrderOK, TakenInOrder
<1> DEFINE first == SelectableStable(look.stable, look.known)
           next == look.next
           a == Len(first)
           b == Len(look.upstream)
           fitting == {s \in ToSet(look.stable) : Fits(s)}
<1>1. /\ first \in Seq(StableOnes) /\ look.upstream \in Seq(UpstreamOnes)
      /\ ToSet(first) = fitting
      /\ next \in 1..(a + b + 1) /\ a \in Nat /\ b \in Nat /\ Len(look.cands) = a + b
      /\ \A i \in 1..a : look.cands[i] = first[i]
      /\ \A i \in 1..b : look.cands[a + i] = look.upstream[i]
      /\ \A i \in 1..(next - 1) : Exhausted(look.cands[i])
  BY PassedOverInVain
<1>2. /\ \A r \in fitting : \E i \in 1..a : r = first[i]
      /\ \A r \in ToSet(look.upstream) : \E i \in 1..b : r = look.upstream[i]
      /\ \A i \in 1..a : first[i] \in fitting /\ first[i] \in StableOnes
      /\ \A i \in 1..b : look.upstream[i] \in UpstreamOnes
  <2>1. DOMAIN first = 1..a /\ DOMAIN look.upstream = 1..b
    BY <1>1
  <2>2. /\ \A i \in 1..a : first[i] \in StableOnes
        /\ \A i \in 1..b : look.upstream[i] \in UpstreamOnes
    BY <1>1, <2>1
  <2> HIDE DEF fitting
  <2>3. QED
    BY <1>1, <2>1, <2>2 DEF ToSet
<1>3. world.targeted =>
        \A i, j \in 1..a : (/\ look.known[first[i].commit] = "target"
                            /\ look.known[first[j].commit] = "unknown") => i < j
  <2>1. /\ look.stable \in Seq(StableOnes)
        /\ look.known \in [Commits -> {"unknown", "target", "other"}]
    BY DEF SourcesOK, LookOK, Looks
  <2>2. DOMAIN first = 1..a
    BY <1>1
  <2>3. world.targeted =>
          \A i, j \in DOMAIN first : (/\ look.known[first[i].commit] = "target"
                                      /\ look.known[first[j].commit] = "unknown") => i < j
    BY <2>1, SelectableIs
  <2>4. QED
    BY <2>2, <2>3
<1> HIDE DEF first, a, b, fitting
<1>4. \A i \in 1..a : i < next => Exhausted(first[i])
  BY <1>1
<1>5. CASE look.out = "failed"
  <2>1. next > a + b
    BY <1>1, <1>5 DEF SourcesOK, OrderOK
  <2>2. \A i \in 1..a : Exhausted(first[i])
    BY <1>1, <1>4, <2>1
  <2>3. ASSUME NEW i \in 1..b PROVE Exhausted(look.cands[a + i])
    <3>1. PICK place : place = a + i
      OBVIOUS
    <3>2. place \in 1..(next - 1)
      BY <1>1, <2>1, <3>1
    <3>3. Exhausted(look.cands[place])
      BY <1>1, <3>2
    <3>4. QED
      BY <3>1, <3>3
  <2>4. \A i \in 1..b : Exhausted(look.upstream[i])
    <3>1. ASSUME NEW i \in 1..b PROVE Exhausted(look.upstream[i])
      <4>1. look.cands[a + i] = look.upstream[i] /\ Exhausted(look.cands[a + i])
        BY <1>1, <2>3
      <4>2. QED
        BY <4>1, Zenon DEF Exhausted
    <3>2. QED
      BY <3>1
  <2>5. \A r \in fitting \cup ToSet(look.upstream) : Exhausted(r)
    BY <1>2, <2>2, <2>4
  <2>6. QED
    BY <1>5, <2>5 DEF TakenInOrder, fitting
<1>6. CASE look.out = "passed"
  <2>1. next <= a + b /\ look.ref = look.cands[next]
    BY <1>1, <1>6 DEF SourcesOK, OrderOK, Candidate
  <2>2. CASE next \in 1..a
    <3>1. look.ref = first[next] /\ look.ref \in fitting /\ look.ref.source = "linux-stable"
      BY <1>1, <1>2, <2>1, <2>2, CommitsAreRefs
    <3>2. Fits(look.ref)
      BY <3>1 DEF fitting
    <3>3. ASSUME world.targeted, look.known[look.ref.commit] = "unknown",
                 NEW r \in ToSet(look.stable), look.known[r.commit] = "target"
          PROVE  Exhausted(r)
      <4>1. r \in fitting
        BY <3>3 DEF fitting, Fits
      <4>2. PICK i \in 1..a : r = first[i]
        BY <1>2, <4>1
      <4>3. i < next
        BY <1>3, <2>2, <3>1, <3>3, <4>2
      <4>4. QED
        BY <1>4, <4>2, <4>3
    <3>4. QED
      BY <1>6, <3>1, <3>2, <3>3 DEF TakenInOrder
  <2>3. CASE next \notin 1..a
    <3>1. next > a /\ next - a \in 1..b /\ a + (next - a) = next
      BY <1>1, <2>1, <2>3
    <3>2. look.ref = look.upstream[next - a]
      BY <1>1, <2>1, <3>1
    <3>3. look.ref.source = "upstream"
      BY <1>2, <3>1, <3>2, CommitsAreRefs
    <3>4. \A i \in 1..a : Exhausted(first[i])
      BY <1>1, <1>4, <3>1
    <3>5. \A r \in fitting : Exhausted(r)
      BY <1>2, <3>4
    <3>6. QED
      BY <1>6, <3>3, <3>5 DEF TakenInOrder, fitting
  <2>4. QED
    BY <2>2, <2>3
<1>7. QED
  BY <1>5, <1>6

LEMMA SourcesTypesHold == SourcesOK => SourcesTypeOK
<1> SUFFICES ASSUME SourcesOK PROVE SourcesTypeOK
  OBVIOUS
<1>1. /\ world \in Worlds /\ cache \in [Keys -> [text : LookTexts, age : Ages]]
      /\ look \in Looks
  BY DEF SourcesOK, LookOK
<1>2. /\ look.url \in Urls /\ look.try \in Tries /\ look.got \in SUBSET {"nvd", "cvelist"}
      /\ look.stable \in Seq(StableOnes) /\ look.upstream \in Seq(UpstreamOnes)
      /\ look.cands \in Seq(Refs) /\ look.ref \in Refs \cup {NoRef}
  BY <1>1 DEF Looks
<1>3. look.stable \in Seq(Refs) /\ look.upstream \in Seq(Refs)
  BY <1>2, CommitsAreRefs
<1>4. QED
  BY <1>1, <1>2, <1>3 DEF SourcesTypeOK, LookTexts, Tries

\* A resolution keeps the types of what it knows of the records, the trees and
\* the cache, whatever they hold.
THEOREM SourcesTyped == SourcesSpec => []SourcesTypeOK
<1>1. SourcesInit => SourcesOK
  BY SourcesInitOK
<1>2. SourcesOK /\ [SourcesNext]_sourceVars => SourcesOK'
  BY SourcesStepOK
<1>3. SourcesOK => SourcesTypeOK
  BY SourcesTypesHold
<1>4. QED
  BY <1>1, <1>2, <1>3, PTL DEF SourcesSpec

\* A fix is taken from a commit only when every better one was asked for at every
\* place that may hold it, and the resolution fails only when all were: whatever
\* the records name, however the requests and the writes of the cache end
\* (_fetch_patch_from_reference_candidates).
THEOREM FixesTakenInOrder == SourcesSpec => []TakenInOrder
<1>1. SourcesInit => SourcesOK
  BY SourcesInitOK
<1>2. SourcesOK /\ [SourcesNext]_sourceVars => SourcesOK'
  BY SourcesStepOK
<1>3. SourcesOK => TakenInOrder
  BY TakenInOrderHolds
<1>4. QED
  BY <1>1, <1>2, <1>3, PTL DEF SourcesSpec

----------------------------------------------------------------------------
(* A screening: types *)

Tiers ==
    {"none", Confirmed, "development_only_target_state", "development_only_feature_gate",
     "development_only_arch_gate", "environment_build_cache_incomplete",
     "blocked_by_run_timeout", "blocked_by_kpatch_constraint",
     "development_only_apply_precheck", "blocked_by_compile_failure",
     "environment_vermagic_mismatch", "positive_acceptance_evidence_incomplete",
     "positive_candidate_low_risk", "development_only_unstable_bucket",
     "development_only_high_risk", "positive_candidate_blocked_by_target_state",
     "positive_candidate_already_confirmed", "blocked_by_known_kpatch_constraint",
     "deferred_vmlinux_target", "positive_candidate_livepatchability_high",
     "deferred_livepatchability_low_score", "development_only_source_or_analysis_error",
     "blocked_by_stable_baseline_prepare_failed"}

Buckets ==
    {"none", "buildable_and_should_pass", "kpatch_constraint", "already_patched",
     "feature_not_enabled"}

Failures ==
    {"absent", "none", "kpatch_constraint", "compile_failed", "target_already_patched",
     "run_timeout", "run_error"}

Left == Known

Rows == {"missing", "none", "running", "built", "failed", "target_state"}

Endings == Rows \cup {"timeout", "error"}

Cases ==
    [cve : CVEs, finding : Findings \cup {NoFinding}, tier : Tiers, bucket : Buckets,
     candidate : BOOLEAN, known : {"none", "positive_pool", "kpatch_constraint_pool"},
     targeted : BOOLEAN, status : Endings, failure : Failures, runFailure : Failures,
     exhausted : BOOLEAN, attempt : Left, runs : Nat]

\* The steps before the first run.
Before == {"analyze", "pools", "modules", "scores", "baselines"}

Screens ==
    [step : Before \cup {"run", "update", "done", "broken"}, list : Batches, at : Nat,
     records : Seq(Cases)]

LEMMA AttemptsLeft ==
    /\ \A a \in Left : a.failure \in Failures /\ a.type \in Failures /\ a.row \in Rows
    /\ \A a \in Left : Good(a) => a.failure = "none"
    /\ NoAttempt \in Left /\ ~Good(NoAttempt) /\ NoTask \in Left /\ ~Good(NoTask)
    /\ Attempts \subseteq Left /\ Halves \subseteq Left
<1> DEFINE Typed(a) == /\ a.failure \in Failures /\ a.type \in Failures /\ a.row \in Rows
                       /\ Good(a) => a.failure = "none"
<1>1. Typed(NoAttempt) /\ ~Good(NoAttempt) /\ Typed(NoTask) /\ ~Good(NoTask)
  BY DEF NoTask, NoAttempt, Failures, Rows, Good
<1>2. \A v, m : Typed(Built(v, m))
  BY DEF Built, NoAttempt, Failures, Rows, Good
<1>3. /\ \A f \in {"kpatch_constraint", "compile_failed"} : Typed(Failed("failed", f))
      /\ Typed(Failed("target_state", "target_already_patched"))
  BY DEF Failed, NoAttempt, Failures, Rows, Good
<1>4. \A a \in Attempts : Typed(a)
  BY <1>2, <1>3 DEF Attempts
<1>5. ASSUME NEW a \in Attempts
      PROVE  Typed(Unvalidated(a)) /\ Typed(RecordOnly(a)) /\ Typed(RowOnly(a))
  <2> DEFINE Fields == {"row", "type", "build", "validation", "module", "failure"}
  <2>1. DOMAIN a = Fields
    <3>1. DOMAIN NoAttempt = Fields
      BY DEF NoAttempt
    <3>2. \A v, m : DOMAIN Built(v, m) = Fields
      BY DEF Built
    <3>3. \A r, f : DOMAIN Failed(r, f) = Fields
      BY <3>1 DEF Failed
    <3>4. QED
      BY <3>2, <3>3 DEF Attempts
  <2>2. Typed(a)
    BY <1>4
  <2>3. Typed(Unvalidated(a)) /\ DOMAIN Unvalidated(a) = Fields
    BY <2>1, <2>2 DEF Unvalidated, Good
  <2>4. Typed(RecordOnly(a)) /\ DOMAIN RecordOnly(a) = Fields
    BY <2>3 DEF RecordOnly, Good
  <2>5. Typed(RowOnly(a))
    BY <2>4 DEF RowOnly, RecordOnly, Unvalidated, Good, Failures
  <2>6. QED
    BY <2>3, <2>4, <2>5
<1>6. Typed([NoAttempt EXCEPT !.row = "running"])
  BY DEF NoAttempt, Failures, Rows, Good
<1>7. \A a \in Halves : Typed(a)
  BY <1>5, <1>6 DEF Halves
<1>8. \A a \in Left : Typed(a)
  BY <1>1, <1>4, <1>7 DEF Left, Known
<1>9. QED
  BY <1>1, <1>8 DEF Left, Known

LEMMA ClassesAre ==
    ASSUME NEW r
    PROVE  /\ ClassOf(r).tier \in Tiers /\ ClassOf(r).bucket \in Buckets
           /\ Good(r.attempt) => ClassOf(r) = Class(Confirmed, "buildable_and_should_pass")
<1> DEFINE type == Verdict(r)
           Classes == [tier : Tiers, bucket : Buckets]
<1>1. type \in DOMAIN ClassOfType => ClassOfType[type] \in Classes
  BY DEF ClassOfType, Class, Tiers, Buckets
<1>2. PromiseClass(r, type) \in Classes
  BY DEF PromiseClass, Class, Tiers, Buckets
<1>3. EvidenceClass(r.attempt.module) \in Classes
  BY DEF EvidenceClass, Class, Tiers, Buckets, Confirmed
<1>4. Class("positive_candidate_blocked_by_target_state", "already_patched") \in Classes
  BY DEF Class, Tiers, Buckets
<1> HIDE DEF type
<1>5. ClassOf(r) \in Classes
  BY <1>1, <1>2, <1>3, <1>4 DEF ClassOf, type
<1>6. Good(r.attempt) => ClassOf(r) = Class(Confirmed, "buildable_and_should_pass")
  BY DEF ClassOf, Good, EvidenceClass
<1>7. QED
  BY <1>5, <1>6

\* What filing a case changes.
LEMMA FiledIs ==
    ASSUME NEW r \in Cases, NEW tier \in Tiers, NEW bucket \in Buckets
    PROVE  /\ Filed(r, Class(tier, bucket)) \in Cases /\ Set(r, tier, bucket) \in Cases
           /\ \A q \in {Filed(r, Class(tier, bucket)), Set(r, tier, bucket)} :
                /\ q.tier = tier /\ q.bucket = bucket /\ q.cve = r.cve /\ q.known = r.known
                /\ q.attempt = r.attempt /\ q.runs = r.runs
                /\ q.failure = r.failure /\ q.runFailure = r.runFailure
<1> DEFINE candidate == tier \in {Confirmed, "positive_candidate_low_risk"}
           filed == [r EXCEPT !.tier = tier, !.bucket = bucket, !.candidate = candidate]
           turned == [r EXCEPT !.tier = tier, !.bucket = bucket, !.candidate = FALSE]
<1>1. candidate \in BOOLEAN
  OBVIOUS
<1>2. Filed(r, Class(tier, bucket)) = filed /\ Set(r, tier, bucket) = turned
  BY DEF Filed, Class, Set
<1> HIDE DEF candidate
<1>3. ASSUME NEW c \in BOOLEAN
      PROVE  LET q == [r EXCEPT !.tier = tier, !.bucket = bucket, !.candidate = c] IN
             /\ q \in Cases /\ q.tier = tier /\ q.bucket = bucket
             /\ q.cve = r.cve /\ q.known = r.known
             /\ q.attempt = r.attempt /\ q.runs = r.runs
             /\ q.failure = r.failure /\ q.runFailure = r.runFailure
  BY DEF Cases
<1>4. filed \in Cases /\ turned \in Cases
  BY <1>1, <1>3
<1> DEFINE Kept(q) ==
      /\ q.tier = tier /\ q.bucket = bucket /\ q.cve = r.cve /\ q.known = r.known
      /\ q.attempt = r.attempt /\ q.runs = r.runs
      /\ q.failure = r.failure /\ q.runFailure = r.runFailure
<1>7. Kept(filed)
  BY <1>1, <1>3
<1>8. Kept(turned)
  BY <1>1, <1>3
<1> HIDE DEF filed, turned
<1>5. \A q \in {filed, turned} : Kept(q)
  BY <1>7, <1>8
<1>6. QED
  BY <1>2, <1>4, <1>5

\* And classifying it.
LEMMA ClassifiedIs ==
    ASSUME NEW r \in Cases
    PROVE  LET q == Classified(r) IN
           /\ q \in Cases /\ q.cve = r.cve /\ q.known = r.known
           /\ q.attempt = r.attempt /\ q.runs = r.runs
           /\ q.failure = r.failure /\ q.runFailure = r.runFailure
           /\ Good(r.attempt) => q.tier = Confirmed /\ q.bucket = "buildable_and_should_pass"
<1>1. PICK tier \in Tiers, bucket \in Buckets : ClassOf(r) = Class(tier, bucket)
  <2>1. /\ ClassOf(r).tier \in Tiers /\ ClassOf(r).bucket \in Buckets
    BY ClassesAre
  <2>2. ClassOf(r) = Class(ClassOf(r).tier, ClassOf(r).bucket)
    BY DEF ClassOf, ClassOfType, PromiseClass, EvidenceClass, Class
  <2>3. QED
    BY <2>1, <2>2
<1>2. Classified(r) = Filed(r, Class(tier, bucket))
  BY <1>1 DEF Classified
<1>3. Good(r.attempt) => tier = Confirmed /\ bucket = "buildable_and_should_pass"
  BY <1>1, ClassesAre DEF Class
<1>4. QED
  BY <1>2, <1>3, FiledIs
----------------------------------------------------------------------------
(* What is known of a case *)

\* Nothing was run for it.
Fresh(r) == r.runs = 0 /\ ~Good(r.attempt)

\* An attempt that counts was seen by a run of this screening, whoever made it, and
\* no failure stands beside it.
Honest(r) ==
    Good(r.attempt) => /\ r.runs > 0 /\ r.tier = Confirmed
                       /\ r.bucket = "buildable_and_should_pass"
                       /\ r.failure = "none" /\ TaskOf[r.cve] \in proven

\* No other CVE of the list has the task of this one.
Alone(c) == \A d \in ToSet(screen.list) \ {c} : TaskOf[d] # TaskOf[c]

\* A constraint the command line does not set aside is marked.
Marked(r) ==
    (~options.includeKnown /\ options.update /\ r.cve \in constrained \ pool)
        => r.known = "kpatch_constraint_pool"

CaseOK(i, r) ==
    /\ r.cve = screen.list[i] /\ Honest(r)
    /\ screen.step \in Before => Fresh(r)
    /\ (r.runs > 0 /\ Alone(r.cve)) => r.attempt = latest[TaskOf[r.cve]]
    /\ r.runs <= options.maxRuns
    /\ screen.step = "run" => (i > screen.at => r.runs = 0)
                              /\ (i = screen.at => r.runs < options.maxRuns)
    /\ screen.step \notin {"analyze", "pools", "done", "broken"} => Marked(r)

ScreenOK ==
    /\ options \in CommandLines /\ pool \in SUBSET CVEs /\ constrained \in SUBSET CVEs
    /\ latest \in [Tasks -> Left]
    /\ \A t \in Tasks : Good(latest[t]) => t \in proven
    /\ screen \in Screens /\ screen.at \in 1..Len(screen.list)
    /\ Len(screen.records) = (IF screen.step = "analyze" THEN screen.at - 1
                              ELSE Len(screen.list))
    /\ \A i \in 1..Len(screen.records) : CaseOK(i, screen.records[i])
    /\ ProvenFixesJoin

\* A list and the records made of it so far.
LEMMA ListIs ==
    ASSUME ScreenOK
    PROVE  /\ screen.list \in Seq(CVEs) /\ Len(screen.list) \in Nat \ {0}
           /\ screen.records \in Seq(Cases) /\ Len(screen.records) \in Nat
           /\ screen.at \in 1..Len(screen.list) /\ screen.at \in Nat
           /\ \A i, j \in 1..Len(screen.list) : screen.list[i] = screen.list[j] => i = j
           /\ \A i \in 1..Len(screen.records) : i \in 1..Len(screen.list)
           /\ \A i \in 1..Len(screen.records) : screen.records[i] \in Cases
           /\ ToSet(screen.list) \subseteq CVEs
           /\ \A i \in 1..Len(screen.list) : screen.list[i] \in ToSet(screen.list)
<1>1. screen \in Screens /\ screen.at \in 1..Len(screen.list)
  BY DEF ScreenOK
<1>2. screen.list \in Batches /\ screen.records \in Seq(Cases)
  BY <1>1 DEF Screens
<1>3. screen.list \in Seq(CVEs) \ {<<>>} /\ IsInjective(screen.list)
  BY <1>2, BatchesTyped
<1>4. Len(screen.list) \in Nat \ {0} /\ DOMAIN screen.list = 1..Len(screen.list)
  BY <1>3
<1>5. \A i, j \in 1..Len(screen.list) : screen.list[i] = screen.list[j] => i = j
  BY <1>3, <1>4 DEF IsInjective
<1>6. Len(screen.records) \in Nat /\ \A i \in 1..Len(screen.records) : screen.records[i] \in Cases
  BY <1>2
<1>7. \A i \in 1..Len(screen.records) : i \in 1..Len(screen.list)
  <2>1. Len(screen.records) = (IF screen.step = "analyze" THEN screen.at - 1
                               ELSE Len(screen.list))
    BY DEF ScreenOK
  <2>2. Len(screen.records) <= Len(screen.list)
    BY <1>1, <1>4, <2>1
  <2>3. QED
    BY <1>4, <1>6, <2>2
<1>8. ToSet(screen.list) \subseteq CVEs
      /\ \A i \in 1..Len(screen.list) : screen.list[i] \in ToSet(screen.list)
  BY <1>3, <1>4 DEF ToSet
<1>9. QED
  BY <1>1, <1>2, <1>3, <1>4, <1>5, <1>6, <1>7, <1>8

LEMMA GoesOn ==
    ASSUME ScreenOK, NEW records \in Seq(Cases),
           NEW step \in Before \cup {"run", "update", "done", "broken"}, GoOn(step, records)
    PROVE  /\ screen' \in Screens /\ screen'.list = screen.list /\ screen'.records = records
           /\ screen'.at = 1 /\ screen'.step = step
<1>1. screen \in Screens /\ 1 \in Nat
  BY DEF ScreenOK
<1>2. screen' = [screen EXCEPT !.step = step, !.at = 1, !.records = records]
  BY DEF GoOn
<1>3. [screen EXCEPT !.step = step, !.at = 1, !.records = records] \in Screens
  BY <1>1 DEF Screens
<1>4. QED
  BY <1>1, <1>2, <1>3 DEF Screens

LEMMA NextIs ==
    ASSUME ScreenOK, NEW records \in Seq(Cases),
           NEW step \in Before \cup {"run", "update", "done", "broken"}, NextCase(records, step)
    PROVE  /\ screen' \in Screens /\ screen'.list = screen.list /\ screen'.records = records
           /\ \/ /\ screen.at = Len(screen.list) /\ screen'.at = 1 /\ screen'.step = step
              \/ /\ screen.at < Len(screen.list) /\ screen'.at = screen.at + 1
                 /\ screen'.step = screen.step
<1>1. screen \in Screens /\ screen.at \in 1..Len(screen.list) /\ Len(screen.list) \in Nat \ {0}
  BY ListIs DEF ScreenOK
<1>2. CASE screen.at = Len(screen.list)
  BY <1>2, GoesOn DEF NextCase
<1>3. CASE screen.at # Len(screen.list)
  <2> DEFINE at == screen.at + 1
  <2>1. screen' = [screen EXCEPT !.at = at, !.records = records] /\ at \in Nat
    BY <1>1, <1>3 DEF NextCase
  <2>2. screen.at < Len(screen.list)
    BY <1>1, <1>3
  <2> HIDE DEF at
  <2>3. [screen EXCEPT !.at = at, !.records = records] \in Screens
    BY <1>1, <2>1 DEF Screens
  <2>4. screen'.at = at /\ screen'.step = screen.step /\ screen'.list = screen.list
        /\ screen'.records = records
    BY <1>1, <2>1 DEF Screens
  <2>5. QED
    BY <2>1, <2>2, <2>3, <2>4 DEF at
<1>4. QED
  BY <1>2, <1>3
\* Before the first run, whatever leaves every case fresh is fine.
LEMMA StaysFresh ==
    ASSUME ScreenOK, options' = options, pool' = pool, constrained' = constrained,
           proven' = proven, latest' \in [Tasks -> Left],
           \A t \in Tasks : Good(latest'[t]) => t \in proven,
           screen' \in Screens, screen'.list = screen.list,
           screen'.at \in 1..Len(screen.list),
           \/ screen'.step \in Before \cup {"run"}
           \/ screen'.step = "done" /\ ~options.full,
           Len(screen'.records) = (IF screen'.step = "analyze" THEN screen'.at - 1
                                   ELSE Len(screen.list)),
           \A i \in 1..Len(screen'.records) :
              /\ screen'.records[i].cve = screen.list[i] /\ Fresh(screen'.records[i])
              /\ screen'.step \notin {"analyze", "pools", "done"} => Marked(screen'.records[i])
    PROVE  ScreenOK'
<1>1. options.maxRuns \in Nat \ {0}
  BY CommandLinesTyped DEF ScreenOK, OptionType
<1>2. ASSUME NEW i \in 1..Len(screen'.records)
      PROVE  CaseOK(i, screen.records[i])'
  <2>1. PICK r : r = screen'.records[i]
    OBVIOUS
  <2>2. r.cve = screen.list[i] /\ Fresh(r)
        /\ (screen'.step \notin {"analyze", "pools", "done"} => Marked(r))
    BY <2>1
  <2>3. r.runs = 0 /\ Honest(r)'
    BY <2>2 DEF Fresh, Honest
  <2>4. screen'.step \notin {"analyze", "pools", "done"} => Marked(r)'
    BY <2>2 DEF Marked
  <2>5. CaseOK(i, r)'
    BY <1>1, <2>2, <2>3, <2>4 DEF CaseOK
  <2>6. QED
    BY <2>1, <2>5
<1>3. ProvenFixesJoin'
  BY DEF ProvenFixesJoin, Before
<1>4. QED
  BY <1>2, <1>3 DEF ScreenOK

\* The current one was run once more.
LEMMA RunOnce ==
    ASSUME ScreenOK, Running, options' = options, pool' = pool, constrained' = constrained,
           proven \subseteq proven', latest' \in [Tasks -> Left],
           \A t \in Tasks : Good(latest'[t]) => t \in proven',
           \A t \in Tasks \ {Task} : latest'[t] = latest[t],
           NEW r \in Cases, r.cve = Case, r.runs = Current.runs + 1, r.known = Current.known,
           Honest(r)', r.attempt = latest'[Task],
           EndRun(r)
    PROVE  ScreenOK'
<1> DEFINE records == [screen.records EXCEPT ![screen.at] = r]
           n == Len(screen.list)
<1>1. /\ screen.step = "run" /\ screen \in Screens /\ n \in Nat \ {0} /\ screen.at \in 1..n
      /\ screen.list \in Seq(CVEs)
      /\ Len(screen.records) = n /\ screen.records \in Seq(Cases)
      /\ \A i \in 1..n : screen.records[i] \in Cases
      /\ \A i, j \in 1..n : screen.list[i] = screen.list[j] => i = j
      /\ \A i \in 1..n : screen.list[i] \in ToSet(screen.list)
      /\ \A i \in 1..n : CaseOK(i, screen.records[i])
  BY ListIs DEF ScreenOK, Running
<1>2. records \in Seq(Cases) /\ Len(records) = n /\ records[screen.at] = r
      /\ \A i \in (1..n) \ {screen.at} : records[i] = screen.records[i]
  BY <1>1
<1>3. r.runs \in Nat \ {0} /\ r.runs <= options.maxRuns /\ options.maxRuns \in Nat
  <2>1. Current.runs < options.maxRuns /\ Current.runs \in Nat
    BY <1>1 DEF CaseOK, Current, Cases
  <2>2. options.maxRuns \in Nat
    BY CommandLinesTyped DEF ScreenOK, OptionType
  <2>3. QED
    BY <2>1, <2>2
<1> HIDE DEF records
<1>4. /\ screen' \in Screens /\ screen'.list = screen.list /\ screen'.records = records
      /\ \/ /\ screen'.step = "run" /\ screen'.at = screen.at /\ r.runs < options.maxRuns
         \/ /\ screen'.step = "run" /\ screen'.at = screen.at + 1 /\ screen.at < n
         \/ /\ screen'.step = "update" /\ screen'.at = 1
  <2>1. CASE Continues(r)
    <3>1. screen' = [screen EXCEPT !.records = records]
      BY <2>1 DEF EndRun, records
    <3>2. [screen EXCEPT !.records = records] \in Screens
      BY <1>1, <1>2 DEF Screens
    <3>3. /\ screen'.list = screen.list /\ screen'.records = records
          /\ screen'.step = "run" /\ screen'.at = screen.at
      BY <1>1, <3>1 DEF Screens
    <3>4. QED
      BY <2>1, <3>1, <3>2, <3>3 DEF Continues
  <2>2. CASE ~Continues(r)
    <3>1. NextCase(records, "update")
      BY <2>2 DEF EndRun, records
    <3>2. "update" \in Before \cup {"run", "update", "done", "broken"}
      OBVIOUS
    <3>3. QED
      BY <1>1, <1>2, <3>1, <3>2, NextIs
  <2>3. QED
    BY <2>1, <2>2
<1>5. screen'.at \in 1..n /\ screen'.step \in {"run", "update"}
      /\ (screen'.step = "run" => screen'.at >= screen.at)
  BY <1>1, <1>4
<1>12. PICK k \in 1..n : k = screen.at
  BY <1>1
<1>6. CaseOK(k, r)'
  <2>1. r.cve = screen'.list[k]
    BY <1>4, <1>12 DEF Case
  <2>2. screen'.step \notin Before
    BY <1>5 DEF Before
  <2>3. r.attempt = latest'[TaskOf[r.cve]]
    BY DEF Task
  <2>4. screen'.step = "run" => (k > screen'.at => r.runs = 0)
                                /\ (k = screen'.at => r.runs < options.maxRuns)
    BY <1>1, <1>4, <1>5, <1>12
  <2>5. Marked(r)'
    <3>1. Marked(Current) /\ Current.cve = Case
      BY <1>1 DEF CaseOK, Current, Case
    <3>2. QED
      BY <3>1 DEF Marked
  <2>6. QED
    BY <1>3, <2>1, <2>2, <2>3, <2>4, <2>5 DEF CaseOK
<1>7. ASSUME NEW i \in (1..n) \ {screen.at}
      PROVE  CaseOK(i, screen.records[i])'
  <2>1. PICK q : q = screen.records[i]
    OBVIOUS
  <2>2. CaseOK(i, q) /\ q \in Cases /\ i \in 1..n /\ i # screen.at
    BY <1>1, <2>1
  <2>3. q.cve = screen.list[i] /\ Honest(q)' /\ Marked(q)' /\ q.runs <= options.maxRuns
    BY <1>1, <2>2 DEF CaseOK, Honest, Marked
  <2>4. screen'.step \notin Before
    BY <1>5 DEF Before
  <2>5. (q.runs > 0 /\ Alone(q.cve)') =>
           q.attempt = latest'[TaskOf[q.cve]]
    <3> SUFFICES ASSUME q.runs > 0, Alone(q.cve)'
                 PROVE  q.attempt = latest'[TaskOf[q.cve]]
      OBVIOUS
    <3>1. Alone(q.cve)
      BY <1>4 DEF Alone
    <3>2. q.attempt = latest[TaskOf[q.cve]]
      BY <2>2, <3>1 DEF CaseOK
    <3>3. Case \in ToSet(screen.list) \ {q.cve}
      BY <1>1, <2>2, <2>3 DEF Case
    <3>4. TaskOf[q.cve] # Task
      BY <3>1, <3>3 DEF Alone, Task
    <3>5. TaskOf[q.cve] \in Tasks
      BY <2>2 DEF Cases, Tasks
    <3>6. QED
      BY <3>2, <3>4, <3>5
  <2>6. screen'.step = "run" => (i > screen'.at => q.runs = 0)
                                /\ (i = screen'.at => q.runs < options.maxRuns)
    <3>1. i > screen.at => q.runs = 0
      BY <1>1, <2>2 DEF CaseOK
    <3>2. screen'.step = "run" => (i >= screen'.at => i > screen.at)
      BY <1>1, <1>5, <2>2
    <3>3. 0 < options.maxRuns
      BY <1>3
    <3>4. QED
      BY <1>1, <1>5, <2>2, <3>1, <3>2, <3>3
  <2>7. CaseOK(i, q)'
    BY <1>4, <2>3, <2>4, <2>5, <2>6 DEF CaseOK
  <2>8. screen'.records[i] = q
    BY <1>2, <1>4, <2>1
  <2>9. QED
    BY <2>7, <2>8
<1>8. \A i \in 1..Len(screen'.records) : CaseOK(i, screen.records[i])'
  <2>1. Len(screen'.records) = n /\ screen'.records[screen.at] = r
    BY <1>2, <1>4
  <2>2. ASSUME NEW i \in 1..n PROVE CaseOK(i, screen.records[i])'
    <3>1. CASE i = k
      <4>1. screen'.records[i] = r /\ CaseOK(i, r)'
        BY <1>6, <1>12, <2>1, <3>1
      <4>2. QED
        BY <4>1
    <3>2. CASE i # k
      BY <1>7, <1>12, <3>2
    <3>3. QED
      BY <3>1, <3>2
  <2>3. QED
    BY <2>1, <2>2
<1>9. ProvenFixesJoin'
  BY <1>5 DEF ProvenFixesJoin
<1>10. Len(screen'.records) = Len(screen'.list) /\ screen'.step # "analyze"
  BY <1>2, <1>4, <1>5
<1>11. QED
  BY <1>4, <1>5, <1>8, <1>9, <1>10 DEF ScreenOK
----------------------------------------------------------------------------
(* The steps of a screening *)

LEMMA ScreenInitOK == ScreenInit => ScreenOK
<1> SUFFICES ASSUME ScreenInit PROVE ScreenOK
  OBVIOUS
<1>1. options \in CommandLines /\ screen.list \in Batches /\ screen.step = "analyze"
      /\ screen.at = 1 /\ screen.records = <<>>
  BY DEF ScreenInit
<1>2. screen \in Screens
  <2>1. <<>> \in Seq(Cases) /\ 1 \in Nat
    OBVIOUS
  <2>2. QED
    BY <2>1 DEF ScreenInit, Screens, Before
<1>3. pool \in SUBSET CVEs /\ constrained \in SUBSET CVEs
  BY KnownPoolsTyped DEF ScreenInit
<1>4. latest \in [Tasks -> Left]
  BY LeftoversTyped DEF ScreenInit, Left
<1>5. \A t \in Tasks : Good(latest[t]) => t \in proven
  BY DEF ScreenInit
<1>6. screen.at \in 1..Len(screen.list)
  <2>1. screen.list \in Seq(CVEs) \ {<<>>}
    BY <1>1, BatchesTyped
  <2>2. Len(screen.list) \in Nat \ {0}
    BY <2>1
  <2>3. QED
    BY <1>1, <2>2
<1>7. Len(screen.records) = 0
  BY <1>1
<1>8. ProvenFixesJoin
  BY <1>1 DEF ProvenFixesJoin
<1>9. QED
  BY <1>1, <1>2, <1>3, <1>4, <1>5, <1>6, <1>7, <1>8 DEF ScreenOK

\* One more case was analyzed.
LEMMA AnalyzedOK ==
    ASSUME ScreenOK, screen.step = "analyze", NEW r \in Cases, r.cve = Case, Fresh(r),
           NextCase(Append(screen.records, r), "pools"),
           options' = options, pool' = pool, constrained' = constrained, proven' = proven,
           \/ latest' = latest
           \/ latest' = [latest EXCEPT ![Task] = NoAttempt]
    PROVE  ScreenOK'
<1> DEFINE records == Append(screen.records, r)
           n == Len(screen.list)
<1>1. /\ n \in Nat \ {0} /\ screen.at \in 1..n /\ Len(screen.records) = screen.at - 1
      /\ screen.records \in Seq(Cases) /\ screen \in Screens
      /\ \A i \in 1..Len(screen.records) : CaseOK(i, screen.records[i])
      /\ latest \in [Tasks -> Left] /\ \A t \in Tasks : Good(latest[t]) => t \in proven
  BY ListIs DEF ScreenOK
<1>2. records \in Seq(Cases) /\ Len(records) = screen.at /\ records[screen.at] = r
      /\ \A i \in 1..(screen.at - 1) : records[i] = screen.records[i]
  BY <1>1
<1> HIDE DEF records
<1>3. "pools" \in Before \cup {"run", "update", "done", "broken"}
  BY DEF Before
<1>4. /\ screen' \in Screens /\ screen'.list = screen.list /\ screen'.records = records
      /\ \/ screen.at = n /\ screen'.at = 1 /\ screen'.step = "pools"
         \/ /\ screen.at < n /\ screen'.at = screen.at + 1 /\ screen'.step = "analyze"
  BY <1>2, <1>3, NextIs DEF records
<1>5. latest' \in [Tasks -> Left] /\ \A t \in Tasks : Good(latest'[t]) => t \in proven
  BY <1>1, AttemptsLeft
<1>6. ASSUME NEW i \in 1..Len(screen'.records)
      PROVE  screen'.records[i].cve = screen.list[i] /\ Fresh(screen'.records[i])
  <2>1. CASE i = screen.at
    BY <1>2, <1>4, <2>1 DEF Case
  <2>2. CASE i # screen.at
    <3>1. i \in 1..Len(screen.records) /\ screen'.records[i] = screen.records[i]
      BY <1>1, <1>2, <1>4, <2>2
    <3>2. QED
      BY <1>1, <3>1 DEF CaseOK, Before
  <2>3. QED
    BY <2>1, <2>2
<1>7. screen'.step \in {"analyze", "pools"} /\ screen'.at \in 1..n
      /\ Len(screen'.records) = (IF screen'.step = "analyze" THEN screen'.at - 1
                                 ELSE Len(screen.list))
  BY <1>1, <1>2, <1>4
<1>8. screen'.step \in Before \cup {"run"}
  BY <1>7 DEF Before
<1>9. \A i \in 1..Len(screen'.records) :
        /\ screen'.records[i].cve = screen.list[i] /\ Fresh(screen'.records[i])
        /\ screen'.step \notin {"analyze", "pools", "done"} => Marked(screen'.records[i])
  BY <1>6, <1>7
<1>10. QED
  BY <1>4, <1>5, <1>7, <1>8, <1>9, StaysFresh

LEMMA RecordIs ==
    ASSUME NEW cve \in CVEs, NEW finding \in Findings \cup {NoFinding}
    PROVE  /\ Record(cve, finding) \in Cases /\ Record(cve, finding).cve = cve
           /\ Fresh(Record(cve, finding))
<1>1. NoAttempt \in Left /\ ~Good(NoAttempt)
  BY AttemptsLeft
<1>2. Record(cve, finding) \in Cases
  BY <1>1 DEF Record, Cases, Tiers, Buckets, Endings, Rows, Failures
<1>3. QED
  BY <1>1, <1>2 DEF Record, Fresh

\* A gate leaves a fresh case fresh.
LEMMA GatedIs ==
    ASSUME NEW r \in Cases, Fresh(r)
    PROVE  /\ \A q \in {KnownPoolGate(r), ModuleGate(r), ScoreGate(r)} :
                q \in Cases /\ q.cve = r.cve /\ Fresh(q)
           /\ Marked(KnownPoolGate(r))
           /\ Marked(r) => Marked(ModuleGate(r)) /\ Marked(ScoreGate(r))
<1> DEFINE Kept(q) == q \in Cases /\ q.cve = r.cve /\ Fresh(q)
<1>1. ASSUME NEW p \in Cases, p.cve = r.cve, Fresh(p), NEW tier \in Tiers, NEW bucket \in Buckets
      PROVE  Kept(Set(p, tier, bucket)) /\ Set(p, tier, bucket).known = p.known
  BY <1>1, FiledIs DEF Fresh
<1>2. ASSUME NEW p \in Cases, p.cve = r.cve, Fresh(p),
             NEW known \in {"positive_pool", "kpatch_constraint_pool"}
      PROVE  Kept([p EXCEPT !.known = known]) /\ [p EXCEPT !.known = known].known = known
  <2>1. [p EXCEPT !.known = known] \in Cases
    BY DEF Cases
  <2>2. QED
    BY <1>2, <2>1 DEF Fresh, Cases
<1>3. Kept(KnownPoolGate(r))
      /\ (r.cve \in constrained \ pool => KnownPoolGate(r).known = "kpatch_constraint_pool")
  <2>1. CASE r.cve \in pool
    <3> DEFINE p == Set(r, "positive_candidate_already_confirmed", "buildable_and_should_pass")
    <3>1. Kept(p)
      BY <1>1 DEF Tiers, Buckets
    <3>2. KnownPoolGate(r) = [p EXCEPT !.known = "positive_pool"]
      BY <2>1 DEF KnownPoolGate
    <3> HIDE DEF p
    <3>3. QED
      BY <1>2, <2>1, <3>1, <3>2
  <2>2. CASE r.cve \in constrained \ pool
    <3> DEFINE p == Set(r, "blocked_by_known_kpatch_constraint", "kpatch_constraint")
    <3>1. Kept(p)
      BY <1>1 DEF Tiers, Buckets
    <3>2. KnownPoolGate(r) = [p EXCEPT !.known = "kpatch_constraint_pool"]
      BY <2>2 DEF KnownPoolGate
    <3> HIDE DEF p
    <3>3. QED
      BY <1>2, <3>1, <3>2
  <2>3. CASE r.cve \notin pool \cup constrained
    BY <2>3 DEF KnownPoolGate
  <2>4. QED
    BY <2>1, <2>2, <2>3
<1>4. Kept(ModuleGate(r)) /\ ModuleGate(r).known = r.known
  <2> DEFINE seen == [r EXCEPT !.targeted = TRUE]
  <2>1. seen \in Cases /\ seen.cve = r.cve /\ Fresh(seen) /\ seen.known = r.known
    <3>1. seen \in Cases
      BY DEF Cases
    <3>2. QED
      BY <3>1 DEF Cases, Fresh
  <2>2. \/ ModuleGate(r) = seen
        \/ ModuleGate(r) = Set(seen, "development_only_feature_gate", "feature_not_enabled")
        \/ ModuleGate(r) = Set(seen, "deferred_vmlinux_target", "none")
    BY DEF ModuleGate
  <2> HIDE DEF seen
  <2>3. /\ "development_only_feature_gate" \in Tiers /\ "deferred_vmlinux_target" \in Tiers
        /\ "feature_not_enabled" \in Buckets /\ "none" \in Buckets
    BY DEF Tiers, Buckets
  <2>4. QED
    BY <1>1, <2>1, <2>2, <2>3
<1>5. Kept(ScoreGate(r)) /\ ScoreGate(r).known = r.known
  <2> DEFINE high == [r EXCEPT !.tier = "positive_candidate_livepatchability_high"]
  <2>1. high \in Cases /\ high.cve = r.cve /\ Fresh(high) /\ high.known = r.known
    <3>1. high \in Cases
      BY DEF Cases, Tiers
    <3>2. QED
      BY <3>1 DEF Cases, Fresh
  <2>2. \/ ScoreGate(r) = r
        \/ ScoreGate(r) = high
        \/ ScoreGate(r) = Set(r, "deferred_livepatchability_low_score", "none")
    BY DEF ScoreGate
  <2> HIDE DEF high
  <2>3. "deferred_livepatchability_low_score" \in Tiers /\ "none" \in Buckets
    BY DEF Tiers, Buckets
  <2>4. QED
    BY <1>1, <2>1, <2>2, <2>3
<1> DEFINE known == KnownPoolGate(r)
           module == ModuleGate(r)
           score == ScoreGate(r)
<1>6. Kept(known) /\ Kept(module) /\ Kept(score) /\ module.known = r.known
      /\ score.known = r.known
      /\ (r.cve \in constrained \ pool => known.known = "kpatch_constraint_pool")
  BY <1>3, <1>4, <1>5
<1> HIDE DEF known, module, score
<1>7. Marked(known) /\ (Marked(r) => Marked(module) /\ Marked(score))
  BY <1>6 DEF Marked
<1>8. QED
  BY <1>6, <1>7 DEF known, module, score
\* A gate before the first run.
LEMMA GateOK ==
    ASSUME ScreenOK, screen.step \in Before \ {"analyze"},
           options' = options, pool' = pool, constrained' = constrained, proven' = proven,
           latest' = latest,
           NEW records, records \in [1..Len(screen.records) -> Cases],
           NEW step,
           step \in {"modules", "scores", "baselines"} \/ (step = "done" /\ ~options.full),
           GoOn(step, records),
           \A i \in 1..Len(screen.records) :
              /\ records[i].cve = screen.records[i].cve /\ Fresh(records[i])
              /\ step # "done" => Marked(records[i])
    PROVE  ScreenOK'
<1> DEFINE n == Len(screen.list)
<1>1. /\ n \in Nat \ {0} /\ Len(screen.records) = n /\ screen \in Screens
      /\ \A i \in 1..n : CaseOK(i, screen.records[i])
      /\ latest \in [Tasks -> Left] /\ \A t \in Tasks : Good(latest[t]) => t \in proven
  BY ListIs DEF ScreenOK, Before
<1>2. records \in Seq(Cases) /\ Len(records) = n
  BY <1>1
<1>3. step \in Before \cup {"run", "update", "done", "broken"} /\ step # "analyze"
      /\ (step \in Before \/ (step = "done" /\ ~options.full))
  BY DEF Before
<1>4. /\ screen' \in Screens /\ screen'.list = screen.list /\ screen'.records = records
      /\ screen'.at = 1 /\ screen'.step = step
  BY <1>2, <1>3, GoesOn
<1>5. \A i \in 1..n : records[i].cve = screen.list[i]
  BY <1>1 DEF CaseOK
<1>6. screen'.at \in 1..n /\ Len(screen'.records) = n
  BY <1>1, <1>2, <1>4
<1>7. QED
  BY <1>1, <1>3, <1>4, <1>5, <1>6, StaysFresh

\* What reloading a case makes of it.
LEMMA ReloadedIs ==
    ASSUME NEW c \in Cases, NEW a \in Left, Good(a) => TaskOf[c.cve] \in proven'
    PROVE  /\ Reloaded(c, a) \in Cases /\ Reloaded(c, a).cve = c.cve
           /\ Reloaded(c, a).runs = c.runs + 1 /\ Reloaded(c, a).known = c.known
           /\ Reloaded(c, a).attempt = a /\ Honest(Reloaded(c, a))'
<1> DEFINE failure == IF a.failure # "absent" THEN a.failure ELSE c.failure
           runs == c.runs + 1
           l == [c EXCEPT !.attempt = a, !.runs = runs, !.failure = failure]
<1>1. failure \in Failures /\ runs \in Nat /\ runs > 0 /\ (Good(a) => failure = "none")
  BY AttemptsLeft DEF Cases
<1>2. Reloaded(c, a) = Classified(l)
  BY DEF Reloaded
<1> HIDE DEF failure, runs
<1>3. l \in Cases
  BY <1>1 DEF Cases
<1>4. /\ l.attempt = a /\ l.runs = runs /\ l.failure = failure
      /\ l.cve = c.cve /\ l.known = c.known
  BY DEF Cases
<1> HIDE DEF l
<1> DEFINE q == Classified(l)
<1>5. /\ q \in Cases /\ q.cve = c.cve /\ q.known = c.known /\ q.attempt = a
      /\ q.runs = runs /\ q.failure = failure
      /\ Good(a) => q.tier = Confirmed /\ q.bucket = "buildable_and_should_pass"
  BY <1>3, <1>4, ClassifiedIs
<1> HIDE DEF q
<1>6. Honest(q)'
  BY <1>1, <1>5 DEF Honest
<1>7. QED
  BY <1>2, <1>5, <1>6 DEF q, runs

\* The current case, while it is run.
LEMMA CurrentIs ==
    ASSUME ScreenOK, Running
    PROVE  /\ Current \in Cases /\ Current.cve = Case /\ Case \in CVEs /\ Task \in Tasks
           /\ Task = TaskOf[Current.cve] /\ Current.attempt \in Left
<1>1. /\ screen.step = "run" /\ screen.at \in 1..Len(screen.list)
      /\ Len(screen.records) = Len(screen.list)
      /\ \A i \in 1..Len(screen.list) : screen.records[i] \in Cases
      /\ screen.list \in Seq(CVEs)
      /\ \A i \in 1..Len(screen.list) : CaseOK(i, screen.records[i])
  BY ListIs DEF ScreenOK, Running
<1>2. Current \in Cases /\ CaseOK(screen.at, Current) /\ Case \in CVEs
  BY <1>1 DEF Current, Case
<1>3. Current.cve = Case /\ Current.attempt \in Left
  BY <1>2 DEF CaseOK, Case, Cases
<1>4. QED
  BY <1>2, <1>3 DEF Task, Tasks

\* However a run ended: what is left is reloaded.
LEMMA RanOK ==
    ASSUME ScreenOK, Running, NEW c \in Cases, NEW a \in Left,
           c.cve = Current.cve, c.runs = Current.runs, c.known = Current.known,
           latest' = [latest EXCEPT ![Task] = a], Good(a) => Task \in proven',
           proven \subseteq proven', EndRun(Reloaded(c, a)),
           options' = options, pool' = pool, constrained' = constrained
    PROVE  ScreenOK'
<1>1. /\ Current \in Cases /\ Current.cve = Case /\ Task \in Tasks
      /\ Task = TaskOf[Current.cve]
  BY CurrentIs
<1>2. latest \in [Tasks -> Left] /\ \A t \in Tasks : Good(latest[t]) => t \in proven
  BY DEF ScreenOK
<1>3. latest' \in [Tasks -> Left] /\ latest'[Task] = a
      /\ \A t \in Tasks \ {Task} : latest'[t] = latest[t]
  BY <1>1, <1>2
<1>4. \A t \in Tasks : Good(latest'[t]) => t \in proven'
  BY <1>2, <1>3
<1>5. PICK r : r = Reloaded(c, a)
  OBVIOUS
<1>6. r \in Cases /\ r.cve = Case /\ r.runs = Current.runs + 1 /\ r.known = Current.known
      /\ r.attempt = a /\ Honest(r)'
  BY <1>1, <1>5, ReloadedIs
<1>7. r.attempt = latest'[Task] /\ EndRun(r)
  BY <1>3, <1>5, <1>6
<1>8. QED
  BY <1>3, <1>4, <1>6, <1>7, RunOnce
\* The current case comes into the baselines.
LEMMA PreparedOK ==
    ASSUME ScreenOK, PrepareBaseline
    PROVE  ScreenOK'
<1> DEFINE n == Len(screen.list)
           broken == Set(Current, "blocked_by_stable_baseline_prepare_failed", "none")
<1>1. /\ screen.step = "baselines" /\ n \in Nat \ {0} /\ Len(screen.records) = n
      /\ screen \in Screens /\ screen.at \in 1..n /\ screen.records \in Seq(Cases)
      /\ \A i \in 1..n : screen.records[i] \in Cases /\ CaseOK(i, screen.records[i])
      /\ latest \in [Tasks -> Left] /\ \A t \in Tasks : Good(latest[t]) => t \in proven
  BY ListIs DEF ScreenOK, PrepareBaseline
<1>2. PICK after \in {Current, broken} :
         NextCase([screen.records EXCEPT ![screen.at] = after], "run")
  BY DEF PrepareBaseline
<1>3. \A i \in 1..n : /\ screen.records[i].cve = screen.list[i] /\ Fresh(screen.records[i])
                      /\ Marked(screen.records[i])
  BY <1>1 DEF CaseOK, Before
<1>4. Current \in Cases /\ Current.cve = screen.list[screen.at] /\ Fresh(Current)
      /\ Marked(Current)
  BY <1>1, <1>3 DEF Current
<1>5. broken \in Cases /\ broken.cve = Current.cve /\ Fresh(broken) /\ Marked(broken)
  <2>1. "blocked_by_stable_baseline_prepare_failed" \in Tiers /\ "none" \in Buckets
    BY DEF Tiers, Buckets
  <2>2. /\ broken \in Cases /\ broken.cve = Current.cve /\ broken.known = Current.known
        /\ broken.attempt = Current.attempt /\ broken.runs = Current.runs
    BY <1>4, <2>1, FiledIs
  <2> HIDE DEF broken
  <2>3. QED
    BY <1>4, <2>2 DEF Fresh, Marked
<1> HIDE DEF broken
<1>6. after \in Cases /\ after.cve = screen.list[screen.at] /\ Fresh(after) /\ Marked(after)
  BY <1>2, <1>4, <1>5
<1> DEFINE records == [screen.records EXCEPT ![screen.at] = after]
<1>7. records \in Seq(Cases) /\ Len(records) = n
      /\ \A i \in 1..n : records[i] = IF i = screen.at THEN after ELSE screen.records[i]
  BY <1>1, <1>6
<1>8. NextCase(records, "run")
  BY <1>2
<1> HIDE DEF records
<1>9. /\ screen' \in Screens /\ screen'.list = screen.list /\ screen'.records = records
      /\ \/ screen.at = n /\ screen'.at = 1 /\ screen'.step = "run"
         \/ screen.at < n /\ screen'.at = screen.at + 1 /\ screen'.step = "baselines"
  BY <1>1, <1>7, <1>8, NextIs
<1>10. screen'.at \in 1..n /\ screen'.step \in Before \cup {"run"} /\ screen'.step # "analyze"
  BY <1>1, <1>9 DEF Before
<1>11. \A i \in 1..n : records[i].cve = screen.list[i] /\ Fresh(records[i]) /\ Marked(records[i])
  BY <1>3, <1>6, <1>7
<1>12. options' = options /\ pool' = pool /\ constrained' = constrained /\ proven' = proven
       /\ latest' = latest
  BY DEF PrepareBaseline
<1>13. QED
  BY <1>1, <1>7, <1>9, <1>10, <1>11, <1>12, StaysFresh

\* Without the wish for a run, the next case.
LEMMA SkippedOK ==
    ASSUME ScreenOK, SkipRun
    PROVE  ScreenOK'
<1> DEFINE n == Len(screen.list)
<1>1. /\ screen.step = "run" /\ n \in Nat \ {0} /\ Len(screen.records) = n
      /\ screen \in Screens /\ screen.at \in 1..n /\ screen.records \in Seq(Cases)
      /\ \A i \in 1..n : screen.records[i] \in Cases /\ CaseOK(i, screen.records[i])
  BY ListIs DEF ScreenOK, SkipRun
<1>2. /\ screen' \in Screens /\ screen'.list = screen.list /\ screen'.records = screen.records
      /\ \/ screen.at = n /\ screen'.at = 1 /\ screen'.step = "update"
         \/ screen.at < n /\ screen'.at = screen.at + 1 /\ screen'.step = "run"
  BY <1>1, NextIs DEF SkipRun
<1>3. options' = options /\ pool' = pool /\ constrained' = constrained /\ proven' = proven
      /\ latest' = latest
  BY DEF SkipRun
<1>4. options.maxRuns \in Nat \ {0}
  BY CommandLinesTyped DEF ScreenOK, OptionType
<1>5. ASSUME NEW i \in 1..n PROVE CaseOK(i, screen.records[i])'
  <2>1. PICK q : q = screen.records[i]
    OBVIOUS
  <2>2. CaseOK(i, q) /\ q \in Cases
    BY <1>1, <2>1
  <2>3. Honest(q)' /\ Marked(q)' /\ (Alone(q.cve)' => Alone(q.cve))
    BY <1>1, <1>2, <1>3, <2>2 DEF CaseOK, Honest, Marked, Alone
  <2>4. screen'.step = "run" => (i > screen'.at => q.runs = 0)
                                /\ (i = screen'.at => q.runs < options.maxRuns)
    <3>1. i > screen.at => q.runs = 0
      BY <1>1, <2>2 DEF CaseOK
    <3>2. screen'.step = "run" => (i >= screen'.at => i > screen.at)
      BY <1>1, <1>2
    <3>3. screen'.step = "run" => screen'.at \in Nat
      BY <1>1, <1>2
    <3>4. QED
      BY <1>4, <3>1, <3>2, <3>3
  <2>5. CaseOK(i, q)'
    BY <1>1, <1>2, <1>3, <2>2, <2>3, <2>4 DEF CaseOK, Before
  <2>6. QED
    BY <1>2, <2>1, <2>5
<1>6. screen'.at \in 1..n /\ screen'.step \in {"run", "update"}
  BY <1>1, <1>2
<1>7. ProvenFixesJoin'
  BY <1>6 DEF ProvenFixesJoin
<1>8. QED
  BY <1>1, <1>2, <1>3, <1>5, <1>6, <1>7 DEF ScreenOK

\* Who has the evidence at the end has it in the record that counts.
LEMMA UpdatedOK ==
    ASSUME ScreenOK, UpdatePool
    PROVE  ScreenOK'
<1> DEFINE n == Len(screen.list)
<1>1. /\ screen.step = "update" /\ n \in Nat \ {0} /\ Len(screen.records) = n
      /\ screen \in Screens /\ screen.records \in Seq(Cases)
      /\ \A i \in 1..n : screen.records[i] \in Cases /\ CaseOK(i, screen.records[i])
  BY ListIs DEF ScreenOK, UpdatePool
<1>2. "done" \in Before \cup {"run", "update", "done", "broken"}
  OBVIOUS
<1>3. /\ screen' \in Screens /\ screen'.list = screen.list /\ screen'.records = screen.records
      /\ screen'.at = 1 /\ screen'.step = "done"
  BY <1>1, <1>2, GoesOn DEF UpdatePool
<1>4. options' = options /\ constrained' = constrained /\ proven' = proven /\ latest' = latest
  BY DEF UpdatePool
<1>5. pool' \in SUBSET CVEs /\ pool \subseteq pool'
      /\ (options.update => \A r \in ToSet(screen.records) : EvidenceOk(r) => r.cve \in pool')
  <2>1. \A r \in ToSet(screen.records) : r.cve \in CVEs
    BY <1>1 DEF ToSet, Cases
  <2>2. QED
    BY <2>1 DEF UpdatePool, ScreenOK
<1>6. ASSUME NEW i \in 1..n PROVE CaseOK(i, screen.records[i])'
  <2>1. PICK q : q = screen.records[i]
    OBVIOUS
  <2>2. CaseOK(i, q)
    BY <1>1, <2>1
  <2>3. Honest(q)' /\ (Alone(q.cve)' => Alone(q.cve))
    BY <1>3, <1>4, <2>2 DEF CaseOK, Honest, Alone
  <2>4. CaseOK(i, q)'
    BY <1>3, <1>4, <2>2, <2>3 DEF CaseOK, Before
  <2>5. QED
    BY <1>3, <2>1, <2>4
<1>7. ProvenFixesJoin'
  <2> SUFFICES ASSUME options.update, NEW r \in ToSet(screen.records),
                      r.runs > 0, Good(latest[TaskOf[r.cve]]), Alone(r.cve),
                      r.known # "kpatch_constraint_pool"
               PROVE  r.cve \in pool'
    BY <1>3, <1>4 DEF ProvenFixesJoin, Alone
  <2>1. PICK i \in 1..n : r = screen.records[i]
    BY <1>1 DEF ToSet
  <2>2. CaseOK(i, r)
    BY <1>1, <2>1
  <2>3. r.attempt = latest[TaskOf[r.cve]]
    BY <2>2, AttemptsLeft DEF CaseOK
  <2>4. Honest(r) /\ Good(r.attempt)
    BY <2>2, <2>3 DEF CaseOK
  <2>5. FailureType(r) \notin Blocked
    BY <2>4 DEF Honest, FailureType, Blocked
  <2>6. EvidenceOk(r)
    BY <2>4, <2>5 DEF Honest, EvidenceOk
  <2>7. QED
    BY <1>5, <2>6
<1>8. QED
  BY <1>1, <1>3, <1>4, <1>5, <1>6, <1>7 DEF ScreenOK
\* The cases so far, as fresh as they were; and marked.
AllKept(records) ==
    /\ records \in [1..Len(screen.records) -> Cases]
    /\ \A i \in 1..Len(screen.records) :
         records[i].cve = screen.records[i].cve /\ Fresh(records[i])

AllMarked(records) == \A i \in 1..Len(screen.records) : Marked(records[i])

\* The gates keep a case's place and mark.
LEMMA GatesOK ==
    ASSUME ScreenOK, GateKnownPools \/ GateModules \/ GateScores
    PROVE  ScreenOK'
<1> DEFINE n == Len(screen.records)
           known == [i \in DOMAIN screen.records |-> KnownPoolGate(screen.records[i])]
           module == [i \in DOMAIN screen.records |-> ModuleGate(screen.records[i])]
           score == [i \in DOMAIN screen.records |-> ScoreGate(screen.records[i])]
<1>1. /\ screen.records \in Seq(Cases) /\ DOMAIN screen.records = 1..n
      /\ \A i \in 1..n : screen.records[i] \in Cases /\ CaseOK(i, screen.records[i])
      /\ screen.step \in {"pools", "modules", "scores"}
  BY ListIs DEF ScreenOK, GateKnownPools, GateModules, GateScores
<1>2. /\ \A i \in 1..n : screen.records[i] \in Cases /\ Fresh(screen.records[i])
      /\ screen.step \in Before \ {"analyze"}
      /\ screen.step # "pools" => AllMarked(screen.records)
  BY <1>1 DEF CaseOK, Before, AllMarked
<1>3. AllKept(screen.records)
  BY <1>1, <1>2 DEF AllKept
<1>4. AllKept(known) /\ AllMarked(known)
  BY <1>1, <1>2, GatedIs DEF AllKept, AllMarked
<1>5. AllKept(module) /\ (AllMarked(screen.records) => AllMarked(module))
  BY <1>1, <1>2, GatedIs DEF AllKept, AllMarked
<1>6. AllKept(score) /\ (AllMarked(screen.records) => AllMarked(score))
  BY <1>1, <1>2, GatedIs DEF AllKept, AllMarked
<1>7. options' = options /\ pool' = pool /\ constrained' = constrained /\ proven' = proven
      /\ latest' = latest
  BY DEF GateKnownPools, GateModules, GateScores
<1>8. ASSUME NEW records, AllKept(records), NEW step, GoOn(step, records),
             step \in {"modules", "scores", "baselines"} \/ (step = "done" /\ ~options.full),
             step # "done" => AllMarked(records)
      PROVE  ScreenOK'
  BY <1>2, <1>7, <1>8, GateOK DEF AllKept, AllMarked
<1> HIDE DEF known, module, score
<1>9. CASE GateKnownPools
  <2> DEFINE gating == ~options.includeKnown
                       /\ (options.onlyCandidates \/ options.onlyModules \/ options.update)
  <2>1. \/ gating /\ GoOn("modules", known)
        \/ ~gating /\ GoOn("modules", screen.records)
    BY <1>9 DEF GateKnownPools, known
  <2>2. options.includeKnown \in BOOLEAN /\ options.update \in BOOLEAN
    BY CommandLinesTyped DEF ScreenOK, OptionType
  <2>3. ~gating => AllMarked(screen.records)
    BY <2>2 DEF AllMarked, Marked
  <2> HIDE DEF gating
  <2>4. QED
    BY <1>3, <1>4, <1>8, <2>1, <2>3
<1>10. CASE GateModules
  <2>1. GoOn("scores", module) \/ GoOn("scores", screen.records)
    BY <1>10 DEF GateModules, module
  <2>2. AllMarked(screen.records)
    BY <1>2, <1>10 DEF GateModules
  <2>3. QED
    BY <1>3, <1>5, <1>8, <2>1, <2>2
<1>11. CASE GateScores
  <2> DEFINE step == IF options.full THEN "baselines" ELSE "done"
  <2>1. GoOn(step, score) \/ GoOn(step, screen.records)
    BY <1>11 DEF GateScores, score
  <2>2. AllMarked(screen.records)
    BY <1>2, <1>11 DEF GateScores
  <2>5. options.full \in BOOLEAN
    BY CommandLinesTyped DEF ScreenOK, OptionType
  <2>3. step = "baselines" \/ (step = "done" /\ ~options.full)
    BY <2>5
  <2> HIDE DEF step
  <2>4. QED
    BY <1>3, <1>6, <1>8, <2>1, <2>2, <2>3
<1>12. QED
  BY <1>9, <1>10, <1>11

LEMMA ScreenStepOK == ScreenOK /\ [ScreenNext]_poolVars => ScreenOK'
<1> SUFFICES ASSUME ScreenOK, [ScreenNext]_poolVars PROVE ScreenOK'
  OBVIOUS
<1>1. ASSUME screen.step = "analyze" PROVE Case \in CVEs
  BY ListIs DEF Case
<1>2. CASE Analyze
  <2>1. PICK f \in Findings :
           NextCase(Append(screen.records, Classified(Record(Case, f))), "pools")
    BY <1>2 DEF Analyze
  <2> DEFINE r == Record(Case, f)
             q == Classified(r)
  <2>2. r \in Cases /\ r.cve = Case /\ Fresh(r)
    BY <1>1, <1>2, RecordIs DEF Analyze
  <2>3. NextCase(Append(screen.records, q), "pools")
    BY <2>1
  <2> HIDE DEF r
  <2>4. q \in Cases /\ q.cve = Case /\ Fresh(q)
    BY <2>2, ClassifiedIs DEF Fresh
  <2> HIDE DEF q
  <2>5. QED
    BY <1>2, <2>3, <2>4, AnalyzedOK DEF Analyze
<1>3. CASE AnalyzeFails
  <2> DEFINE r == Record(Case, NoFinding)
             q == Set(r, "development_only_source_or_analysis_error", "none")
  <2>1. NextCase(Append(screen.records, q), "pools") /\ screen.step = "analyze"
        /\ (latest' = latest \/ latest' = [latest EXCEPT ![Task] = NoAttempt])
    BY <1>3 DEF AnalyzeFails
  <2>2. r \in Cases /\ r.cve = Case /\ Fresh(r)
    BY <1>1, <2>1, RecordIs
  <2> HIDE DEF r
  <2>3. "development_only_source_or_analysis_error" \in Tiers /\ "none" \in Buckets
    BY DEF Tiers, Buckets
  <2>4. q \in Cases /\ q.cve = Case /\ Fresh(q)
    BY <2>2, <2>3, FiledIs DEF Fresh
  <2> HIDE DEF q
  <2>5. QED
    BY <1>3, <2>1, <2>4, AnalyzedOK DEF AnalyzeFails
<1>4. CASE GateKnownPools \/ GateModules \/ GateScores
  BY <1>4, GatesOK
<1>5. CASE PrepareBaseline
  BY <1>5, PreparedOK
<1>6. CASE SkipRun
  BY <1>6, SkippedOK
<1>7. ASSUME Running
      PROVE  /\ Current \in Cases /\ Task \in Tasks
             /\ latest \in [Tasks -> Left] /\ latest[Task] \in Left
             /\ Good(latest[Task]) => Task \in proven
  BY <1>7, CurrentIs DEF ScreenOK
<1>9. ASSUME NEW a \in Left, NEW exhausted \in BOOLEAN, Running,
             latest' = [latest EXCEPT ![Task] = a], Good(a) => Task \in proven',
             proven \subseteq proven', EndRun(RunAnswered(a, exhausted)),
             options' = options, pool' = pool, constrained' = constrained
      PROVE  ScreenOK'
  <2> DEFINE c == [Current EXCEPT !.status = a.row, !.runFailure = a.type,
                                  !.exhausted = exhausted]
  <2>1. a.row \in Endings /\ a.type \in Failures
    BY <1>9, AttemptsLeft DEF Endings
  <2>2. /\ c \in Cases /\ c.cve = Current.cve /\ c.runs = Current.runs
        /\ c.known = Current.known
    BY <1>7, <1>9, <2>1 DEF Cases
  <2> HIDE DEF c
  <2>4. EndRun(Reloaded(c, a))
    BY <1>9 DEF RunAnswered, c
  <2>5. PICK d \in Cases : d = c
    BY <2>2
  <2>6. /\ d.cve = Current.cve /\ d.runs = Current.runs /\ d.known = Current.known
        /\ EndRun(Reloaded(d, a))
    BY <2>2, <2>4, <2>5
  <2>7. QED
    BY <1>9, <2>6, RanOK
<1>10. CASE Run
  <2>1. PICK a \in Attempts :
           /\ latest' = [latest EXCEPT ![Task] = a]
           /\ proven' = proven \cup {t \in {Task} : Good(a)}
           /\ EndRun(RunAnswered(a, FALSE))
    BY <1>10 DEF Run
  <2>2. a \in Left /\ Running /\ options' = options /\ pool' = pool
        /\ constrained' = constrained
    BY <1>10, AttemptsLeft DEF Run
  <2>3. (Good(a) => Task \in proven') /\ proven \subseteq proven'
    BY <2>1
  <2>4. QED
    BY <1>9, <2>1, <2>2, <2>3
<1>11. CASE RunStops
  <2>1. PICK a : a = latest[Task]
    OBVIOUS
  <2>2. PICK exhausted \in BOOLEAN : EndRun(RunAnswered(a, exhausted))
    BY <1>11, <2>1 DEF RunStops
  <2>3. Running /\ UNCHANGED <<options, pool, constrained, latest, proven>>
    BY <1>11 DEF RunStops
  <2>4. a \in Left /\ (Good(a) => Task \in proven)
    BY <1>7, <2>1, <2>3
  <2>5. latest' = [latest EXCEPT ![Task] = a]
    BY <1>7, <2>1, <2>3
  <2>6. QED
    BY <1>9, <2>2, <2>3, <2>4, <2>5
<1>15. CASE RunBreaks
  <2>1. PICK a \in {latest[Task]} \cup Attempts \cup Halves,
             how \in {<<"timeout", "run_timeout">>, <<"error", "run_error">>} :
           /\ latest' = [latest EXCEPT ![Task] = a]
           /\ proven' = proven \cup {t \in {Task} : Good(a)}
           /\ EndRun(Reloaded([Current EXCEPT !.status = how[1], !.failure = how[2],
                                              !.runFailure = how[2]], a))
    BY <1>15 DEF RunBreaks
  <2>2. Running /\ options' = options /\ pool' = pool /\ constrained' = constrained
    BY <1>15 DEF RunBreaks
  <2>3. a \in Left
    BY <1>7, <2>1, <2>2, AttemptsLeft
  <2>4. (Good(a) => Task \in proven') /\ proven \subseteq proven'
    BY <2>1
  <2>5. PICK status \in Endings, failure \in Failures :
           EndRun(Reloaded([Current EXCEPT !.status = status, !.failure = failure,
                                           !.runFailure = failure], a))
    <3>1. how[1] \in Endings /\ how[2] \in Failures
      BY DEF Endings, Failures
    <3>2. QED
      BY <2>1, <3>1
  <2> DEFINE c == [Current EXCEPT !.status = status, !.failure = failure,
                                  !.runFailure = failure]
  <2>7. /\ c \in Cases /\ c.cve = Current.cve /\ c.runs = Current.runs
        /\ c.known = Current.known
    BY <1>7, <2>2 DEF Cases
  <2>8. EndRun(Reloaded(c, a))
    BY <2>5
  <2> HIDE DEF c
  <2>9. PICK d \in Cases : d = c
    BY <2>7
  <2>10. /\ d.cve = Current.cve /\ d.runs = Current.runs /\ d.known = Current.known
         /\ EndRun(Reloaded(d, a))
    BY <2>5, <2>7, <2>8, <2>9
  <2>11. latest' = [latest EXCEPT ![Task] = a]
    BY <2>1
  <2>12. QED
    BY <2>2, <2>3, <2>4, <2>10, <2>11, RanOK
<1>12. CASE RunGarbled
  <2>1. screen \in Screens
    BY DEF ScreenOK
  <2>2. screen' = [screen EXCEPT !.step = "broken"] /\ screen.step = "run"
    BY <1>12 DEF RunGarbled, Running
  <2>3. [screen EXCEPT !.step = "broken"] \in Screens
    BY <2>1 DEF Screens
  <2>4. /\ screen'.step = "broken" /\ screen'.list = screen.list /\ screen'.at = screen.at
        /\ screen'.records = screen.records
    BY <2>1, <2>2 DEF Screens
  <2>5. UNCHANGED <<options, pool, constrained, latest, proven>>
    BY <1>12 DEF RunGarbled
  <2>6. ASSUME NEW i \in 1..Len(screen.records) PROVE CaseOK(i, screen.records[i])'
    <3>1. PICK q : q = screen.records[i]
      OBVIOUS
    <3>2. CaseOK(i, q)
      BY <3>1 DEF ScreenOK
    <3>3. CaseOK(i, q)'
      BY <2>4, <2>5, <3>2 DEF CaseOK, Honest, Alone, Before
    <3>4. QED
      BY <2>4, <3>1, <3>3
  <2>7. ProvenFixesJoin'
    BY <2>4 DEF ProvenFixesJoin
  <2>8. QED
    BY <2>2, <2>3, <2>4, <2>5, <2>6, <2>7 DEF ScreenOK
<1>13. CASE UpdatePool
  BY <1>13, UpdatedOK
<1>14. CASE UNCHANGED poolVars
  BY <1>14 DEF poolVars, ScreenOK, CaseOK, Honest, Alone, Marked, ProvenFixesJoin
<1>16. QED
  BY <1>2, <1>3, <1>4, <1>5, <1>6, <1>10, <1>11, <1>12, <1>13, <1>14, <1>15 DEF ScreenNext
LEMMA ScreenTypesHold == ScreenOK => ScreenTypeOK
<1> SUFFICES ASSUME ScreenOK PROVE ScreenTypeOK
  OBVIOUS
<1>1. /\ screen.records \in Seq(Cases)
      /\ \A i \in 1..Len(screen.records) : screen.records[i] \in Cases
                                           /\ CaseOK(i, screen.records[i])
  BY ListIs DEF ScreenOK
<1>2. options.maxRuns \in Nat \ {0}
  BY CommandLinesTyped DEF ScreenOK, OptionType
<1>3. ASSUME NEW r \in ToSet(screen.records) PROVE r.cve \in CVEs /\ r.runs \in 0..options.maxRuns
  <2>1. PICK i \in 1..Len(screen.records) : r = screen.records[i]
    BY <1>1 DEF ToSet
  <2>2. r \in Cases /\ r.runs <= options.maxRuns
    BY <1>1, <2>1 DEF CaseOK
  <2>3. QED
    BY <1>2, <2>2 DEF Cases
<1>4. QED
  BY <1>3 DEF ScreenTypeOK, ScreenOK, Left

\* Only the update writes the pool, and what it adds was earned.
LEMMA AddedIsEarned ==
    ASSUME ScreenOK, ScreenNext, NEW c \in pool' \ pool
    PROVE  /\ TaskOf[c] \in proven
           /\ c \in constrained => options.includeKnown
           /\ \E r \in ToSet(screen.records) : r.cve = c /\ r.runs > 0 /\ Good(r.attempt)
           /\ \/ Good(latest[TaskOf[c]])
              \/ \E d \in ToSet(screen.list) \ {c} : TaskOf[d] = TaskOf[c]
<1>1. UpdatePool
  <2>1. pool' # pool
    OBVIOUS
  <2>2. QED
    BY <2>1 DEF ScreenNext, Analyze, AnalyzeFails, GateKnownPools, GateModules, GateScores,
                PrepareBaseline, SkipRun, Run, RunStops, RunBreaks, RunGarbled
<1>2. PICK r \in ToSet(screen.records) : options.update /\ EvidenceOk(r) /\ r.cve = c
  BY <1>1 DEF UpdatePool
<1>3. PICK i \in 1..Len(screen.records) : r = screen.records[i]
  <2>1. DOMAIN screen.records = 1..Len(screen.records)
    BY ListIs
  <2>2. QED
    BY <2>1 DEF ToSet
<1>4. CaseOK(i, r) /\ screen.step = "update"
  BY <1>1, <1>3 DEF ScreenOK, UpdatePool
<1>5. Honest(r) /\ Marked(r) /\ Good(r.attempt) /\ r.known # "kpatch_constraint_pool"
  BY <1>2, <1>4 DEF CaseOK, EvidenceOk
<1>6. TaskOf[c] \in proven /\ r.runs > 0
  BY <1>2, <1>5 DEF Honest
<1>7. options.includeKnown \in BOOLEAN
  BY CommandLinesTyped DEF ScreenOK, OptionType
<1>8. c \in constrained => options.includeKnown
  BY <1>2, <1>5, <1>7 DEF Marked
<1>9. Alone(c) => Good(latest[TaskOf[c]])
  BY <1>2, <1>4, <1>5, <1>6 DEF CaseOK
<1>10. QED
  BY <1>2, <1>5, <1>6, <1>8, <1>9 DEF Alone

\* A screening keeps the types of its files, tasks and records, whatever it finds.
THEOREM ScreenTyped == ScreenSpec => []ScreenTypeOK
<1>1. ScreenInit => ScreenOK
  BY ScreenInitOK
<1>2. ScreenOK /\ [ScreenNext]_poolVars => ScreenOK'
  BY ScreenStepOK
<1>3. ScreenOK => ScreenTypeOK
  BY ScreenTypesHold
<1>4. QED
  BY <1>1, <1>2, <1>3, PTL DEF ScreenSpec

\* Whatever a list, its findings, the command line and what earlier work left: a
\* CVE only joins the positive pool after a run of this screening, on an attempt of
\* its task that was built for this kernel and passed, whoever made it, and which is
\* still the latest of a task of its own; and none that is known to be constrained
\* does, unless the command line says so (update_positive_pool_fixture).
THEOREM PoolEarned == ScreenSpec => PoolIsEarned
<1>1. ScreenInit => ScreenOK
  BY ScreenInitOK
<1>2. ScreenOK /\ [ScreenNext]_poolVars => ScreenOK'
  BY ScreenStepOK
<1>3. ScreenOK /\ [ScreenNext]_poolVars
      => [\A c \in pool' \ pool :
            /\ TaskOf[c] \in proven
            /\ c \in constrained => options.includeKnown
            /\ \E r \in ToSet(screen.records) : r.cve = c /\ r.runs > 0 /\ Good(r.attempt)
            /\ \/ Good(latest[TaskOf[c]])
               \/ \E d \in ToSet(screen.list) \ {c} : TaskOf[d] = TaskOf[c]
         ]_pool
  BY AddedIsEarned DEF poolVars
<1>4. QED
  BY <1>1, <1>2, <1>3, PTL DEF ScreenSpec, PoolIsEarned

\* And whoever was run and ends with such an attempt joins, if its task is its own
\* and it is not known to be constrained, whatever its earlier runs met
\* (run_full_phase, load_full_artifacts, positive_acceptance_evidence_ok).
THEOREM ProvenJoin == ScreenSpec => []ProvenFixesJoin
<1>1. ScreenInit => ScreenOK
  BY ScreenInitOK
<1>2. ScreenOK /\ [ScreenNext]_poolVars => ScreenOK'
  BY ScreenStepOK
<1>3. ScreenOK => ProvenFixesJoin
  BY DEF ScreenOK
<1>4. QED
  BY <1>1, <1>2, <1>3, PTL DEF ScreenSpec

===============================================================================
