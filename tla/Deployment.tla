------------------------------ MODULE Deployment ------------------------------
(***************************************************************************)
(* How a version reaches the machine that validates, and what serves it    *)
(* there.  upload_to_validation replaces the code, has the kernel tree     *)
(* prepared, makes an environment, registers the service and tries it;     *)
(* install_patchweaver sets up code that is there already.  Every command  *)
(* may fail, or lose its connection half-way, and nothing is undone: the   *)
(* next rollout finds what the last one left.  Meanwhile systemd revives   *)
(* the service whenever it dies, and somebody may serve by hand on the     *)
(* same port, as the installer proposes.                                   *)
(*                                                                         *)
(* A version is the number of the rollout it was uploaded with.  A process *)
(* runs the version it was started with; what a module imported late would *)
(* find on the disk is left out.  SourceTrees has the preparation of the   *)
(* kernel tree in full.                                                    *)
(***************************************************************************)
EXTENDS Naturals, FiniteSets, FiniteSetsExt

CONSTANTS
    Plans,         \* the command lines
    MaxRollouts    \* bound: rollouts one after another

UploadPlans ==
    [kind : {"upload"}, frontend : BOOLEAN, clean : BOOLEAN, wipe : BOOLEAN,
     prepare : BOOLEAN, force : BOOLEAN, install : BOOLEAN, smoke : BOOLEAN]

InstallPlans == [kind : {"install"}, dry : BOOLEAN, pip : BOOLEAN, service : BOOLEAN]

ASSUME PlansKnown == Plans \subseteq UploadPlans \cup InstallPlans /\ MaxRollouts \in Nat

VARIABLES
    desk,       \* the version web/dist of the developer was built from, or None
    machine,    \* the remote directory, its interpreters and the kernel tree
    unit,       \* patchweaver-web, and who serves
    rollout     \* the upload or installation at work

deployVars == <<desk, machine, unit, rollout>>

None == 0

\* What a process runs that started from a half-extracted archive.
Mixed == 0

Versions == 1..MaxRollouts

\* files: versions with files there; torn: an extraction or a removal broke off;
\* named: build.yaml names the prepared tree.
Machines ==
    [files : SUBSET Versions, torn : BOOLEAN, dist : {None} \cup Versions,
     venv : BOOLEAN, deps : BOOLEAN, evidence : BOOLEAN,
     tree : {"none", "partial", "whole"}, named : BOOLEAN]

Servers == [runs : {Mixed} \cup Versions, console : BOOLEAN]

NewMachine ==
    [files |-> {}, torn |-> FALSE, dist |-> None, venv |-> FALSE, deps |-> FALSE,
     evidence |-> FALSE, tree |-> "none", named |-> FALSE]

DeployInit ==
    /\ desk = None
    /\ \E d \in BOOLEAN : machine = [NewMachine EXCEPT !.deps = d]
    /\ unit = [python |-> "none", process |-> {}, ready |-> FALSE, hand |-> {}]
    /\ rollout = [step |-> "done", version |-> 0, plan |-> [kind |-> "none"],
                  before |-> NewMachine]

----------------------------------------------------------------------------
(* The service *)

Code == IF machine.torn THEN Mixed ELSE Max(machine.files)

\* A process started now; it mounts /console if there is a web/dist.
ServerNow == [runs |-> Code, console |-> machine.dist # None]

CanRun(python) ==
    /\ machine.files # {}
    /\ IF python = "venv" THEN machine.venv ELSE python = "host" /\ machine.deps

\* Whoever answers at the port.
Answering == unit.hand \cup IF unit.ready THEN unit.process ELSE {}

\* Mutant: systemctl start, which leaves a running service alone.
StartedIfDown == IF unit.process = {} THEN {ServerNow} ELSE unit.process

\* systemctl restart: the old process goes, the new one has yet to listen.
Restarted == {ServerNow}

\* install_systemd_service with the interpreter the command runs in.
Register(python) ==
    /\ CanRun(python)
    /\ unit' = [unit EXCEPT !.python = python, !.process = Restarted, !.ready = FALSE]

\* The process listens, or finds the port taken and ends.
Listen ==
    /\ unit.process # {} /\ ~unit.ready
    /\ unit' = IF unit.hand = {} THEN [unit EXCEPT !.ready = TRUE]
               ELSE [unit EXCEPT !.process = {}]
    /\ UNCHANGED <<desk, machine, rollout>>

ProcessDies ==
    /\ unit.process # {}
    /\ unit' = [unit EXCEPT !.process = {}, !.ready = FALSE]
    /\ UNCHANGED <<desk, machine, rollout>>

\* Restart=always.
Revive ==
    /\ unit.process = {} /\ CanRun(unit.python)
    /\ unit' = [unit EXCEPT !.process = {ServerNow}]
    /\ UNCHANGED <<desk, machine, rollout>>

\* serve-api --foreground.
ServeByHand ==
    /\ Answering = {}
    /\ CanRun("host") \/ CanRun("venv")
    /\ unit' = [unit EXCEPT !.hand = {ServerNow}]
    /\ UNCHANGED <<desk, machine, rollout>>

StopByHand ==
    /\ unit.hand # {}
    /\ unit' = [unit EXCEPT !.hand = {}]
    /\ UNCHANGED <<desk, machine, rollout>>

\* serve-api without --foreground registers the service itself.
ServeInBackground ==
    /\ \E p \in {"host", "venv"} : Register(p)
    /\ UNCHANGED <<desk, machine, rollout>>

\* Tasks leave rows and files in data/ and workspaces/.
Work ==
    /\ Answering # {} /\ machine.files # {} /\ ~machine.evidence
    /\ machine' = [machine EXCEPT !.evidence = TRUE]
    /\ UNCHANGED <<desk, unit, rollout>>

----------------------------------------------------------------------------
(* A rollout, command by command *)

plan == rollout.plan

AtStep(step) == rollout.step = step

OnTo(step) == rollout' = [rollout EXCEPT !.step = step]

BeginRollout(p) ==
    /\ rollout.step \in {"done", "failed"} /\ rollout.version < MaxRollouts
    /\ rollout' = [step |-> IF p.kind = "upload" THEN "pack" ELSE "preflight",
                   version |-> rollout.version + 1, plan |-> p, before |-> machine]
    /\ UNCHANGED <<desk, machine, unit>>

\* _build_frontend and _build_archive; the archive has no data, workspaces, .venv.
Pack ==
    /\ AtStep("pack") /\ OnTo("clean")
    /\ desk' = IF plan.frontend THEN rollout.version ELSE desk
    /\ UNCHANGED <<machine, unit>>

\* _remote_cleanup_commands: what is in the directory, but for data and workspaces.
Clean ==
    /\ AtStep("clean") /\ OnTo("extract")
    /\ machine' = IF ~plan.clean THEN machine
                  ELSE [machine EXCEPT !.files = {}, !.torn = FALSE, !.dist = None,
                                       !.venv = FALSE, !.named = FALSE,
                                       !.evidence = @ /\ ~plan.wipe]
    /\ UNCHANGED <<desk, unit>>

\* tar -xzf over what is there, the developer's config/build.yaml included.
Extract ==
    /\ AtStep("extract") /\ OnTo("reconcile")
    /\ machine' = [machine EXCEPT !.files = @ \cup {rollout.version}, !.torn = FALSE,
                                  !.dist = IF desk = None THEN @ ELSE desk,
                                  !.named = FALSE]
    /\ UNCHANGED <<desk, unit>>

\* _reconcile_remote_build_config; three files tell whether the tree is ready.
Reconcile ==
    /\ AtStep("reconcile") /\ machine.deps /\ OnTo("prepare")
    /\ \E ready \in BOOLEAN :
          /\ machine.tree = "whole" => ready
          /\ machine.tree = "none" => ~ready
          /\ machine' = [machine EXCEPT !.named = ready]
    /\ UNCHANGED <<desk, unit>>

\* prepare-build-tree takes a tree for prepared that need not be whole.
Prepare ==
    /\ AtStep("prepare") /\ OnTo("install")
    /\ IF ~plan.prepare THEN UNCHANGED machine
       ELSE /\ machine.deps
            /\ machine' = [machine EXCEPT !.named = TRUE,
                  !.tree = IF @ = "partial" /\ ~plan.force THEN @ ELSE "whole"]
    /\ UNCHANGED <<desk, unit>>

\* _install_remote_runtime, one script: the environment is made anew, ...
MakeVenv ==
    /\ AtStep("install") /\ plan.install /\ machine.deps /\ OnTo("register")
    /\ machine' = [machine EXCEPT !.venv = TRUE]
    /\ UNCHANGED <<desk, unit>>

SkipInstall ==
    /\ AtStep("install") /\ ~plan.install /\ OnTo("smoke")
    /\ UNCHANGED <<desk, machine, unit>>

\* ... the service is registered (by the installer: post_install_verification), ...
RegisterService ==
    /\ AtStep("register") /\ OnTo("await")
    /\ Register(IF plan.kind = "upload" THEN "venv" ELSE "host")
    /\ UNCHANGED <<desk, machine>>

\* ... wait_for_api_ready asks the port, whoever listens there, ...
AwaitReady ==
    /\ AtStep("await") /\ Answering # {}
    /\ OnTo(IF plan.kind = "upload" THEN "check" ELSE "done")
    /\ UNCHANGED <<desk, machine, unit>>

\* ... and the routes and web/dist are looked at.
CheckInstall ==
    /\ AtStep("check") /\ machine.dist # None /\ OnTo("smoke")
    /\ UNCHANGED <<desk, machine, unit>>

\* _run_remote_smoke_check, with the python of the environment.
SmokeCheck ==
    /\ AtStep("smoke") /\ OnTo("done")
    /\ plan.smoke =>
          /\ unit.process # {} /\ machine.venv
          /\ machine.dist # None /\ \E s \in Answering : s.console
    /\ UNCHANGED <<desk, machine, unit>>

\* environment_preflight is deploy_patchweaver --dry-run.
Preflight ==
    /\ AtStep("preflight") /\ machine.files # {}
    /\ OnTo(IF plan.dry THEN "done" ELSE "deploy")
    /\ UNCHANGED <<desk, machine, unit>>

\* deploy_patchweaver: pip install -e, init, doctor.
Deploy ==
    /\ AtStep("deploy") /\ (plan.pip \/ machine.deps)
    /\ OnTo(IF plan.service THEN "register" ELSE "done")
    /\ machine' = [machine EXCEPT !.deps = TRUE]
    /\ UNCHANGED <<desk, unit>>

\* A removal that broke off, with this much of the rest still there.
Swept(venv, named, dist) ==
    [machine EXCEPT !.torn = machine.files # {}, !.venv = venv, !.named = named,
                    !.dist = dist, !.evidence = @ /\ ~plan.wipe]

\* What a command that fails may have done before.
HalfDone ==
    \/ /\ AtStep("clean") /\ plan.clean
       /\ \E v \in {FALSE, machine.venv}, n \in {FALSE, machine.named},
             d \in {None, machine.dist} : machine' = Swept(v, n, d)
    \/ /\ AtStep("extract")
       /\ machine' = [machine EXCEPT !.torn = TRUE, !.files = @ \cup {rollout.version},
                                     !.named = FALSE]
    \/ /\ AtStep("prepare") /\ plan.prepare /\ (plan.force \/ machine.tree = "none")
       /\ \E t \in {"none", "partial", "whole"} : machine' = [machine EXCEPT !.tree = t]
    \/ /\ AtStep("install") /\ plan.install
       /\ machine' = [machine EXCEPT !.venv = FALSE]
    \/ /\ AtStep("deploy") /\ plan.pip
       /\ machine' = [machine EXCEPT !.deps = TRUE]

\* A command fails, times out, or the connection is lost.
Fail ==
    /\ rollout.step \notin {"done", "failed"} /\ OnTo("failed")
    /\ desk' \in IF AtStep("pack") /\ plan.frontend THEN {desk, None} ELSE {desk}
    /\ UNCHANGED machine \/ HalfDone
    /\ UNCHANGED unit

RolloutNext ==
    \/ \E p \in Plans : BeginRollout(p)
    \/ Pack \/ Clean \/ Extract \/ Reconcile \/ Prepare
    \/ MakeVenv \/ SkipInstall \/ RegisterService \/ AwaitReady \/ CheckInstall \/ SmokeCheck
    \/ Preflight \/ Deploy
    \/ Fail

ServiceNext ==
    Listen \/ ProcessDies \/ Revive \/ ServeByHand \/ StopByHand \/ ServeInBackground \/ Work

DeployNext == RolloutNext \/ ServiceNext

----------------------------------------------------------------------------
(* Properties *)

Steps ==
    {"pack", "clean", "extract", "reconcile", "prepare", "install", "register",
     "await", "check", "smoke", "preflight", "deploy", "done", "failed"}

DeployTypeOK ==
    /\ desk \in {None} \cup Versions
    /\ machine \in Machines
    /\ unit \in [python : {"none", "venv", "host"}, process : SUBSET Servers,
                 ready : BOOLEAN, hand : SUBSET Servers]
    /\ Cardinality(unit.process) <= 1 /\ Cardinality(unit.hand) <= 1
    /\ rollout.step \in Steps /\ rollout.version \in 0..MaxRollouts
    /\ plan \in Plans \cup {[kind |-> "none"]}

UploadLanded ==
    LET v == rollout.version IN
    /\ Code = v /\ (plan.clean => machine.files = {v})
    /\ rollout.before.evidence => machine.evidence \/ (plan.clean /\ plan.wipe)
    /\ plan.frontend => machine.dist = v
    /\ machine.tree = "whole" \/ plan.prepare => machine.named
    /\ plan.install \/ plan.smoke =>
          unit.python # "none" /\ machine.venv /\ machine.dist # None
    /\ plan.install => \A p \in unit.process : p.runs = v /\ p.console

InstallLanded ==
    /\ plan.dry => [machine EXCEPT !.evidence = FALSE]
                   = [rollout.before EXCEPT !.evidence = FALSE]
    /\ ~plan.dry /\ plan.service =>
          unit.python # "none" /\ \A p \in unit.process : p.runs = Code

\* A rollout that ends well leaves what it was asked for, whatever the ones
\* before it left half done and whoever died or was revived meanwhile: the new
\* code and none of the old if it cleaned, the runs' evidence unless it was to
\* be wiped, a whole kernel tree named in build.yaml, and, if it registered the
\* service, no service process of another version or of a torn directory.
\* (Who serves by hand on the port keeps it, and is what both checks ask.)
MachineReady ==
    AtStep("done") =>
        /\ plan.kind = "upload" => UploadLanded
        /\ plan.kind = "install" => InstallLanded

=============================================================================
