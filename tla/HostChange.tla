---------------------------- MODULE HostChange ----------------------------
(***************************************************************************)
(* Changes to the machines of the lab, made by remote commands: the tools  *)
(* of infrastructure_crud.py and vm_operations.py with their providers,    *)
(* under the dispatch timeout of error_handling.py.                        *)
(*                                                                         *)
(* A tool is a list of commands.  A command of it either must succeed, or  *)
(* is only tried: the code does not look at its exit status.  Any command  *)
(* may fail, the call may be cut off anywhere, by a lost connection or by  *)
(* the timeout, which waits no longer for a command but does not stop it,  *)
(* and other calls run in between.  All of this is about the containers    *)
(* and units of one name.                                                  *)
(***************************************************************************)
EXTENDS Naturals, Sequences, FiniteSets

CONSTANTS
  Host,    \* machines of the site map
  Call,    \* BOUND: tool calls, each made once
  Local,   \* the machine the server runs on, where archives pass through
  Fresh,   \* the contents of a container that was newly deployed
  Old,     \* the contents that an earlier migration left in images and archives
  None

ASSUME HostAssumption ==
  /\ Local \notin Host
  /\ None \notin Host \cup {Fresh, Old}
  /\ IsFiniteSet(Host) /\ IsFiniteSet(Call)

VARIABLES
  box,      \* Platform -> Host -> the container or unit there, or Absent
  image,    \* Host -> contents of the image <name>_migration, or None
  archive,  \* Host and Local -> contents of /tmp/<name>_migration.tar.gz, or None
  call,     \* Call -> what is known of it while it runs, or None
  report,   \* Call -> what the client is told
  called    \* history: which of the tools that stop or remove things were called

lab  == <<box, image, archive>>
vars == <<lab, call, report, called>>

Platform == {"docker", "lxd", "systemd"}
Tool == {"deploy", "update", "unit_state", "move", "retire", "backup",
         "vm_deploy", "vm_control", "vm_remove"}
Removing == {"update", "vm_control", "vm_remove"}
Data == Host \cup {Fresh, Old}
Absent == [up |-> FALSE, data |-> None]
Box == [up : BOOLEAN, data : Data] \cup {Absent}

Word == {"read", "critical", "run", "write", "start", "stop", "restart", "rm", "rmforce",
         "free", "inspect", "commit", "save", "get", "put", "load", "copy"}

\* A command, where it runs, and whether its failure ends the tool.
Command == [do : Word, on : {"from", "to"}, must : BOOLEAN]
Must(do, on) == [do |-> do, on |-> on, must |-> TRUE]
Try(do, on)  == [do |-> do, on |-> on, must |-> FALSE]

-----------------------------------------------------------------------------
(* The tools, as lists of commands.                                        *)

\* _backup_device and _analyze_device_dependencies ask the device many things; what
\* fails is left out, and both come to an end.
ReadDevice == <<Try("read", "from")>>

\* _deploy_service: docker run, or lxc launch.
DeployPlan == <<Must("run", "from")>>

\* _deploy_service of a systemd unit: tee, daemon-reload and enable unchecked.
DeployUnitPlan == <<Try("write", "from"), Must("start", "from")>>

\* MUTANT: the new container is tried, not required.
UpdatePlanTry ==
  <<Must("inspect", "from"), Try("stop", "from"), Try("rm", "from"), Try("run", "from")>>

\* _update_service_config of a container: the old one goes before the new one runs.
UpdatePlan ==
  <<Must("inspect", "from"), Try("stop", "from"), Try("rm", "from"), Must("run", "from")>>

\* _update_service_config of a unit.
UpdateUnitPlan == <<Try("write", "from"), Must("start", "from")>>

\* MUTANT: whether the container started on the target is not looked at.
DockerMovePlanTry ==
  <<Must("inspect", "from"), Try("commit", "from"), Must("save", "from"),
    Must("get", "from"), Must("put", "to"), Try("load", "to"), Try("run", "to"),
    Try("stop", "from"), Try("rm", "from")>>

\* MUTANT: the container is not committed to an image first.
DockerMovePlanBare ==
  <<Must("inspect", "from"), Must("save", "from"),
    Must("get", "from"), Must("put", "to"), Try("load", "to"), Must("run", "to"),
    Try("stop", "from"), Try("rm", "from")>>

\* _execute_migration_plan of a Docker container.
DockerMovePlan ==
  <<Must("inspect", "from"), Try("commit", "from"), Must("save", "from"),
    Must("get", "from"), Must("put", "to"), Try("load", "to"), Must("run", "to"),
    Try("stop", "from"), Try("rm", "from")>>

\* MUTANT: whether the copy was made is not looked at.
LxdMovePlanTry ==
  <<Must("inspect", "from"), Try("copy", "to"), Try("start", "to"),
    Try("stop", "from"), Try("rm", "from")>>

\* _execute_migration_plan of an LXD container, when Docker has none of the name:
\* the start on the target is not looked at.
LxdMovePlan ==
  <<Must("inspect", "from"), Must("copy", "to"), Try("start", "to"),
    Try("stop", "from"), Try("rm", "from")>>

\* What decommission_network_device does after a migration, whatever came of it: the
\* device is connected to; stopping its services and leaving its clusters do nothing yet.
LeavePlan == <<Must("read", "from")>>

\* decommission_network_device without a plan: the device is asked what depends on
\* it, and then it is left.
RetirePlan(force) ==
  <<Try(IF force THEN "read" ELSE "critical", "from"), Must("read", "from")>>

\* deploy_vm of a provider: a name that is taken is refused, unless asking fails.
ProviderDeployPlan == <<Try("free", "from"), Must("run", "from")>>

\* start_vm, stop_vm and restart_vm, or systemctl start and stop.
ControlPlan(action) == <<Must(action, "from")>>

\* remove_vm: without force, a stop that is not looked at comes first.
RemovePlan(force) ==
  IF force THEN <<Must("rmforce", "from")>> ELSE <<Try("stop", "from"), Must("rm", "from")>>

-----------------------------------------------------------------------------
\* The device a call is about, the one a migration goes to, and the commands left;
\* whether the answer will say that the service was not migrated; history: what a
\* migration found on the source, whether a command failed and the code did not look,
\* and whether another call, or a command that one left behind, was in progress.
Running ==
  [tool : Tool, kind : Platform, from : Host, to : Host, todo : Seq(Command),
   failed : BOOLEAN, want : Data \cup {None}, slipped : BOOLEAN, shared : BOOLEAN]

ASSUME NoneIsNoCall == None \notin Running

TypeOK ==
  /\ box \in [Platform -> [Host -> Box]]
  /\ image \in [Host -> Data \cup {None}]
  /\ archive \in [Host \cup {Local} -> Data \cup {None}]
  /\ call \in [Call -> Running \cup {None}]
  /\ report \in [Call -> {"none", "success", "error", "timeout"}]
  /\ called \subseteq Removing

\* A service runs on some machine under Docker, and on some under LXD; images and
\* archives of earlier migrations are never cleaned up.
Init ==
  /\ \E d, x \in Host :
       box = [p \in Platform |-> [h \in Host |->
                IF (p = "docker" /\ h = d) \/ (p = "lxd" /\ h = x)
                THEN [up |-> TRUE, data |-> h] ELSE Absent]]
  /\ \E left \in {None, Old} :
       /\ image = [h \in Host |-> left]
       /\ archive = [h \in Host \cup {Local} |-> left]
  /\ call = [c \in Call |-> None]
  /\ report = [c \in Call |-> "none"]
  /\ called = {}

Active == {c \in Call : call[c] # None}

\* A call c of tool t begins.
Begin(c, t, p, h, g, plan) ==
  /\ call[c] = None /\ report[c] = "none"
  /\ call' = [d \in Call |->
       IF d = c THEN [tool |-> t, kind |-> p, from |-> h, to |-> g, todo |-> plan,
                      failed |-> FALSE, want |-> None, slipped |-> FALSE,
                      shared |-> Active # {}]
       ELSE IF d \in Active THEN [call[d] EXCEPT !.shared = TRUE]
       ELSE call[d]]
  /\ called' = called \cup ({t} \cap Removing)
  /\ UNCHANGED <<lab, report>>

\* deploy_infrastructure_plan, of one service.
Deploy(c) ==
  \E p \in Platform, h \in Host :
    Begin(c, "deploy", p, h, h, IF p = "systemd" THEN DeployUnitPlan ELSE DeployPlan)

\* update_device_configuration, of one service.  The backup before it changes
\* nothing on the device, and the update goes on when it fails.
Update(c) ==
  \E p \in {"docker", "systemd"}, h \in Host, before \in {<<>>, ReadDevice} :
    Begin(c, "update", p, h, h,
          before \o IF p = "systemd" THEN UpdateUnitPlan ELSE UpdatePlan)

\* The same, of a unit that is only to be started or stopped.
UpdateUnitState(c) ==
  \E h \in Host, action \in {"start", "stop"} :
    Begin(c, "unit_state", "systemd", h, h, ControlPlan(action))

\* create_infrastructure_backup, of one device.
Backup(c) ==
  \E h \in Host : Begin(c, "backup", "docker", h, h, ReadDevice)

\* decommission_network_device, with a plan for one service, or without one: then a
\* device with critical services is refused unless removal is forced.
Decommission(c) ==
  \/ \E h, t \in Host : Begin(c, "move", "docker", h, t, ReadDevice \o DockerMovePlan)
  \/ \E h \in Host, force \in BOOLEAN :
       Begin(c, "retire", "docker", h, h, RetirePlan(force))

DeployVM(c) ==
  \E p \in {"docker", "lxd"}, h \in Host :
    Begin(c, "vm_deploy", p, h, h, ProviderDeployPlan)

ControlVM(c) ==
  \E p \in {"docker", "lxd"}, h \in Host, action \in {"start", "stop", "restart"} :
    Begin(c, "vm_control", p, h, h, ControlPlan(action))

RemoveVM(c) ==
  \E p \in {"docker", "lxd"}, h \in Host, force \in BOOLEAN :
    Begin(c, "vm_remove", p, h, h, RemovePlan(force))

-----------------------------------------------------------------------------
(* What a command does on the machines.                                    *)

\* The next command of c, and where it runs.
Do(c) == Head(call[c].todo).do
At(c) == call[c][Head(call[c].todo).on]
Here(c) == box[call[c].kind][At(c)]

\* The contents of the container that c would run: a migration runs the image.
Contents(c) == IF call[c].tool = "move" THEN image[call[c].to] ELSE Fresh

\* Whether the next command can succeed where it runs.
Possible(c) ==
  CASE Do(c) \in {"inspect", "stop", "start", "restart", "rmforce", "commit"} ->
         Here(c) # Absent
    [] Do(c) = "rm"   -> Here(c) # Absent /\ ~Here(c).up
    [] Do(c) = "free" -> Here(c) = Absent
    [] Do(c) = "run"  -> Here(c) = Absent /\ Contents(c) # None
    [] Do(c) = "copy" -> Here(c) = Absent /\ box[call[c].kind][call[c].from] # Absent
    [] Do(c) = "load" -> archive[At(c)] # None
    [] Do(c) = "critical" -> ~box["lxd"][At(c)].up
    [] Do(c) \in {"save", "get", "put", "write", "read"} -> TRUE

\* What the machine holds after it.
After(c) ==
  CASE Do(c) = "stop" -> [Here(c) EXCEPT !.up = FALSE]
    [] Do(c) \in {"start", "restart"} -> [Here(c) EXCEPT !.up = TRUE]
    [] Do(c) \in {"rm", "rmforce"} -> Absent
    [] Do(c) = "run" -> [up |-> TRUE, data |-> Contents(c)]
    [] Do(c) = "copy" -> [up |-> FALSE, data |-> box[call[c].kind][call[c].from].data]
    [] Do(c) = "write" -> [Here(c) EXCEPT !.data = Fresh]
    [] OTHER -> Here(c)

\* docker commit and load make an image; save, get and put pass the archive on.
\* A save of no image leaves an empty archive and the exit status of gzip, 0.
Perform(c) ==
  /\ box' = [box EXCEPT ![call[c].kind][At(c)] = After(c)]
  /\ image' = CASE Do(c) = "commit" -> [image EXCEPT ![At(c)] = Here(c).data]
                [] Do(c) = "load"   -> [image EXCEPT ![At(c)] = archive[At(c)]]
                [] OTHER -> image
  /\ archive' = CASE Do(c) = "save" -> [archive EXCEPT ![At(c)] = image[At(c)]]
                  [] Do(c) = "get"  -> [archive EXCEPT ![Local] = archive[At(c)]]
                  [] Do(c) = "put"  -> [archive EXCEPT ![At(c)] = archive[Local]]
                  [] OTHER -> archive

\* The call ends, and its client is told how, unless it was before.
End(c, how) ==
  /\ call' = [call EXCEPT ![c] = None]
  /\ report' = [report EXCEPT ![c] = IF @ = "none" THEN how ELSE @]

\* What follows the next command of r.
Rest(r) ==
  IF Len(r.todo) > 1 THEN Tail(r.todo)
  ELSE IF r.tool = "move" /\ r.todo # LeavePlan THEN LeavePlan
  ELSE << >>

\* The call goes on, as r, with what follows; nothing does when it was cut off.
GoOn(c, r) ==
  IF Rest(r) = << >> \/ report[c] # "none" THEN End(c, "success")
  ELSE call' = [call EXCEPT ![c] = [r EXCEPT !.todo = Rest(r)]] /\ UNCHANGED report

\* A required command failed: the tool ends with an error, but a migration only adds
\* one to the results of a decommissioning that goes on.
GiveUp(c) ==
  IF call[c].tool = "move" /\ call[c].todo # LeavePlan /\ report[c] = "none"
  THEN /\ call' = [call EXCEPT ![c].todo = LeavePlan, ![c].failed = TRUE]
       /\ UNCHANGED report
  ELSE End(c, "error")

\* The next command of c succeeds.
CommandWorks(c) ==
  /\ Possible(c)
  /\ Perform(c)
  /\ GoOn(c, IF Do(c) = "inspect" THEN [call[c] EXCEPT !.want = Here(c).data] ELSE call[c])

\* What a failed command leaves: nothing, or the container that a docker run had
\* created, or an empty archive.
Remains(c) ==
  \/ UNCHANGED lab
  \/ /\ Do(c) = "run" /\ Possible(c)
     /\ box' = [box EXCEPT ![call[c].kind][At(c)] = [up |-> FALSE, data |-> Contents(c)]]
     /\ UNCHANGED <<image, archive>>
  \/ /\ Do(c) = "save"
     /\ archive' = [archive EXCEPT ![At(c)] = None]
     /\ UNCHANGED <<box, image>>

\* The next command of c fails: the exit status is looked at, or not.  (That of a
\* save is gzip's, which succeeds.)
CommandFails(c) ==
  /\ call[c].todo # DockerMovePlan
  /\ Remains(c)
  /\ IF Head(call[c].todo).must /\ Do(c) # "save" THEN GiveUp(c)
     ELSE GoOn(c, [call[c] EXCEPT !.slipped = TRUE])

\* The name is taken, or a critical service runs: a running LXD container is one, a
\* Docker container if it has ports, a unit if it has a known name.
Refuse(c) ==
  /\ \/ Do(c) = "free" /\ Here(c) # Absent
     \/ Do(c) = "critical" /\ \E p \in Platform : box[p][At(c)].up
  /\ End(c, "error")
  /\ UNCHANGED lab

\* docker inspect fails in a migration: LXD is tried.
FallBack(c) ==
  /\ call[c].todo = DockerMovePlan
  /\ call' = [call EXCEPT ![c].kind = "lxd", ![c].todo = LxdMovePlan]
  /\ UNCHANGED <<lab, report>>

\* Commands that change the machine, by a process of its own.
Lasting == {"run", "write", "start", "stop", "restart", "rm", "rmforce", "commit", "save",
            "load", "copy"}

\* The connection is lost: with nothing to wait for, or under a command, which ends.
\* (Where the device is only asked, what fails is left out: CommandFails.)
LoseConnection(c) ==
  /\ report[c] = "none" /\ Do(c) \notin {"read", "critical"}
  /\ GiveUp(c)
  /\ UNCHANGED lab

\* timeout_wrapper cancels the tool; the command that it waited for goes on, or had
\* not been sent.
CutOff(c) ==
  /\ report[c] = "none"
  /\ \/ End(c, "timeout")
     \/ /\ Do(c) \in Lasting
        /\ report' = [report EXCEPT ![c] = "timeout"]
        /\ UNCHANGED call
  /\ UNCHANGED lab

Step(c) ==
  /\ call[c] # None
  /\ CommandWorks(c) \/ CommandFails(c) \/ Refuse(c) \/ FallBack(c)
     \/ LoseConnection(c) \/ CutOff(c)
  /\ UNCHANGED called

Next ==
  \E c \in Call :
    \/ Deploy(c) \/ Update(c) \/ UpdateUnitState(c) \/ Backup(c) \/ Decommission(c)
    \/ DeployVM(c) \/ ControlVM(c) \/ RemoveVM(c)
    \/ Step(c)

Spec == Init /\ [][Next]_vars

-----------------------------------------------------------------------------
(* Properties.                                                             *)

\* However many migrations run at once, fail or are cut off: a Docker service is up
\* on some machine, because no source is stopped before its target runs; an LXD
\* container, which may be left stopped, is on some machine, because no source is
\* deleted before its copy is made.
MigrationLosesNothing ==
  /\ called = {} => \E h \in Host : box["docker"][h].up
  /\ "vm_remove" \notin called => \E h \in Host : box["lxd"][h] # Absent

\* A migration of a Docker container brings its contents, not what an image or
\* archive of the name held before, unless a failure was not looked at or another
\* call, which passes its archives through the same files, was in progress.
MigrationBringsContents ==
  [][\A c \in Active :
       /\ call[c].tool = "move" /\ Do(c) = "run" /\ call'[c] # call[c]
       /\ box'["docker"][call[c].to] # box["docker"][call[c].to]
       => \/ box'["docker"][call[c].to].data = call[c].want
          \/ call[c].slipped \/ call[c].shared]_vars

\* What is reported done is done: a tool that reports success and was alone leaves
\* the service up where it was to run.  A decommissioning reports success whatever came
\* of the migration: of this one, what its result of the service says is.  (Not so an
\* LXD migration, whose result does not tell either.)
SuccessIsReal ==
  [][\A c \in Active :
       /\ report'[c] = "success" /\ report[c] = "none" /\ ~call[c].shared
       /\ \/ call[c].tool \in {"deploy", "update", "vm_deploy"}
          \/ call[c].tool = "move" /\ call[c].kind = "docker" /\ ~call[c].failed
       => box'[call[c].kind][call[c].to].up]_vars
=============================================================================
