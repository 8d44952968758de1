-------------------------- MODULE ServiceInstall --------------------------
(***************************************************************************)
(* The tools of service_installer.py, for one service on one machine.      *)
(*                                                                         *)
(* A tool is a list of commands, each run by ssh_execute_command, which    *)
(* waits twenty seconds for it.  When it stops waiting the tool is told of *)
(* a failure, and the process goes on at the other end: it may finish      *)
(* after the tool has gone on, or ended, or was called again.  Nothing on  *)
(* the machine tells two calls apart: they write the same files, and the   *)
(* saved plan of Terraform is whichever was saved last.                    *)
(***************************************************************************)
EXTENDS Naturals, Sequences, FiniteSets

CONSTANTS
  Caller,   \* BOUND: tool calls, each made once
  MaxStray, \* BOUND: remote processes nobody waits for, at one time
  Earlier,  \* who installed what is there at the start
  NoOne

VARIABLES
  dir,      \* the methods whose directory exists
  conf,     \* Method -> the configuration on file
  live,     \* Method -> the configuration that runs, nothing, or part of one
  plan,     \* the plan Terraform saved, if any, and whether it is still current
  lock,     \* the process that has the lock of Terraform's state, or NoOne
  proc,     \* the remote processes that have not finished
  tool,     \* Caller -> what is known of the call while it runs, or NoOne
  answer,   \* Caller -> what the client is told
  gone      \* history: a destroy succeeded, and no install was called since

machine == <<dir, conf, live, plan, lock>>
svars   == <<machine, proc, tool, answer, gone>>

Method == {"compose", "terraform", "ansible", "script"}
Author == Caller \cup {Earlier}

\* Whose main file (docker-compose.yml, main.tf, the playbook) and whose variables.
Conf == [main : Author \cup {NoOne}, vars : Author \cup {NoOne}]
Blank == [main |-> NoOne, vars |-> NoOne]
Nothing == [whole |-> TRUE, of |-> Blank]
Live == [whole : BOOLEAN, of : Conf]

Work == {"require", "look", "tool", "dir", "mkdir", "main", "vars", "init", "plan",
         "apply", "destroy", "rm", "preview", "refresh", "up", "play", "script"}

\* A command, and whether its failure ends the tool.
Needs(do) == [do |-> do, must |-> TRUE]
Tries(do)  == [do |-> do, must |-> FALSE]

-----------------------------------------------------------------------------
(* The tools, as lists of commands.                                        *)

\* check_service_requirements: a port is free when asking for it fails, and a check
\* of memory or disk that fails is left out.
Requirements == <<Tries("require")>>

\* MUTANT: the services are brought up before their file is written.
ComposeEager ==
  <<Needs("look"), Needs("mkdir"), Needs("up"), Needs("main"), Tries("look")>>

\* _install_docker_compose_service
Compose == <<Needs("look"), Needs("mkdir"), Needs("main"), Needs("up"), Tries("look")>>

\* _install_script_service: success whatever the exit status.
Script == <<Tries("script")>>

\* _install_terraform_service, with _write_remote_file, whose result is not looked
\* at; the output and the backup of the state come last.
Terraform ==
  <<Needs("tool"), Tries("mkdir"), Tries("main"), Tries("vars"), Needs("init"), Needs("plan"),
    Needs("apply"), Tries("look"), Tries("look")>>

\* _install_ansible_service
Ansible ==
  <<Needs("mkdir"), Needs("main"), Tries("vars"), Needs("tool"), Needs("play")>>

\* MUTANT: the directory is removed, and success reported, whatever came of destroy.
DestroyHasty == <<Needs("dir"), Tries("destroy"), Tries("rm")>>

\* destroy_terraform_service
Destroy == <<Needs("dir"), Needs("destroy"), Tries("rm")>>

\* plan_terraform_service, and the preview of a destroy.
Preview == <<Needs("dir"), Needs("preview")>>

\* refresh_terraform_service: both results go into the answer.
Refresh == <<Needs("dir"), Tries("refresh"), Tries("preview")>>

\* run_ansible_playbook, after check_ansible_service; with check_mode it only looks.
Playbook(check) == <<Needs("dir"), IF check THEN Needs("look") ELSE Needs("play")>>

\* get_service_status and check_ansible_service
Status == <<Tries("look")>>

-----------------------------------------------------------------------------
\* The kind of the call, the method, the commands left, whether it waits for the
\* first of them; history: whether a command that writes failed and the code did not
\* look, whether another call ran meanwhile, and whether an earlier one had left
\* processes.
Underway ==
  [kind : {"install", "destroy", "other"}, by : Method,
   todo : Seq([do : Work, must : BOOLEAN]), waits : BOOLEAN,
   slipped : BOOLEAN, shared : BOOLEAN, heir : BOOLEAN]

ASSUME NobodyApart == NoOne \notin [by : Method, do : Work, of : Caller] \cup Underway

ServiceTypeOK ==
  /\ dir \subseteq Method
  /\ conf \in [Method -> Conf]
  /\ live \in [Method -> Live]
  /\ plan \in [of : Conf, current : BOOLEAN]
  /\ proc \subseteq [by : Method, do : Work, of : Caller]
  /\ lock \in proc \cup {NoOne}
  /\ tool \in [Caller -> Underway \cup {NoOne}]
  /\ answer \in [Caller -> {"none", "success", "error"}]
  /\ gone \in BOOLEAN

\* An earlier install may have left the service running, by one method.
ServiceInit ==
  /\ \E by \in SUBSET Method :
       /\ Cardinality(by) <= 1
       /\ dir = by
       /\ LET c == [main |-> Earlier, vars |-> Earlier]
          IN  /\ conf = [m \in Method |-> IF m \in by THEN c ELSE Blank]
              /\ live = [m \in Method |->
                           IF m \in by THEN [whole |-> TRUE, of |-> c] ELSE Nothing]
  /\ plan = [of |-> Blank, current |-> FALSE]
  /\ lock = NoOne
  /\ proc = {}
  /\ tool = [c \in Caller |-> NoOne]
  /\ answer = [c \in Caller |-> "none"]
  /\ gone = FALSE

Busy == {c \in Caller : tool[c] # NoOne}

Called(c, kind, m, todo) ==
  /\ tool[c] = NoOne /\ answer[c] = "none"
  /\ tool' = [d \in Caller |->
       IF d = c THEN [kind |-> kind, by |-> m, todo |-> todo, waits |-> FALSE,
                      slipped |-> FALSE, shared |-> Busy # {}, heir |-> proc # {}]
       ELSE IF d \in Busy THEN [tool[d] EXCEPT !.shared = TRUE]
       ELSE tool[d]]
  /\ gone' = (gone /\ kind # "install")
  /\ UNCHANGED <<machine, proc, answer>>

\* install_service, by the method of the service's template.
InstallService(c) ==
  \/ Called(c, "install", "compose", Requirements \o Compose)
  \/ Called(c, "install", "script", Requirements \o Script)
  \/ Called(c, "install", "terraform", Requirements \o Terraform)
  \/ Called(c, "install", "ansible", Requirements \o Ansible)

DestroyService(c) == Called(c, "destroy", "terraform", Destroy)

\* Tools that leave configuration and resources as they are.
InspectService(c) ==
  \/ Called(c, "other", "terraform", Preview)
  \/ Called(c, "other", "terraform", Refresh)
  \/ Called(c, "other", "compose", Status)

RunPlaybook(c) ==
  \E check \in BOOLEAN : Called(c, "other", "ansible", Playbook(check))

-----------------------------------------------------------------------------
(* What a process does on the machine.                                     *)

\* Terraform runs one of these at a time.
Locking == {"plan", "apply", "destroy", "preview", "refresh"}

\* What changes nothing that the tools look at.
Harmless == {"require", "look", "tool", "dir", "init"}

Runs(m) == live[m] # Nothing

\* Whether process p can succeed.
CanFinish(p) ==
  /\ p.do \in {"main", "vars", "init", "dir"} => p.by \in dir
  /\ p.do \in {"plan", "up", "play", "preview", "destroy", "refresh"} =>
       conf[p.by].main # NoOne
  /\ p.do = "apply" => plan.current
  /\ p.do = "require" => ~\E m \in Method : Runs(m)

\* What p makes the running service, if anything.
Makes(p) ==
  CASE p.do = "apply" -> plan.of
    [] p.do \in {"up", "play"} -> conf[p.by]
    [] p.do = "script" -> [main |-> p.of, vars |-> p.of]
    [] p.do = "destroy" -> Blank

Changes(p) == p.do \in {"apply", "up", "play", "script", "destroy"}

\* A saved plan is of no use once the state has changed.
Turn(p, whole) ==
  /\ live' = [live EXCEPT ![p.by] = [whole |-> whole, of |-> Makes(p)]]
  /\ plan' = IF p.by = "terraform" THEN [plan EXCEPT !.current = FALSE] ELSE plan
  /\ UNCHANGED <<dir, conf>>

\* The files that p writes or removes, or the plan it saves.
Writes(p) ==
  /\ dir' = CASE p.do = "mkdir" -> dir \cup {p.by}
              [] p.do = "rm" -> dir \ {p.by}
              [] OTHER -> dir
  /\ conf' = CASE p.do \in {"main", "vars"} -> [conf EXCEPT ![p.by][p.do] = p.of]
               [] p.do = "rm" -> [conf EXCEPT ![p.by] = Blank]
               [] OTHER -> conf
  /\ plan' = CASE p.do = "plan" -> [of |-> conf[p.by], current |-> TRUE]
               [] p.do = "rm" -> [of |-> Blank, current |-> FALSE]
               [] OTHER -> plan
  /\ UNCHANGED live

Does(p) == IF Changes(p) THEN Turn(p, TRUE) ELSE Writes(p)

\* A process that fails may have done part of its work.
LeavesHalf(p) ==
  \/ UNCHANGED <<dir, conf, live, plan>>
  \/ /\ Changes(p) /\ CanFinish(p) /\ (p.do = "destroy" => Runs(p.by))
     /\ Turn(p, FALSE)

-----------------------------------------------------------------------------
Next1(c) == Head(tool[c].todo)
Process(c) == [by |-> tool[c].by, do |-> Next1(c).do, of |-> c]

Stop(c, how) ==
  /\ tool' = [tool EXCEPT ![c] = NoOne]
  /\ answer' = [answer EXCEPT ![c] = how]
  /\ gone' = (gone \/ (how = "success" /\ tool[c].kind = "destroy" /\ ~tool[c].shared))

\* The tool goes on after its command, which worked or did not.
GoesOn(c, worked) ==
  IF ~worked /\ Next1(c).must THEN Stop(c, "error")
  ELSE IF Len(tool[c].todo) = 1 THEN Stop(c, "success")
  ELSE /\ tool' = [tool EXCEPT ![c].todo = Tail(@), ![c].waits = FALSE,
             ![c].slipped = @ \/ (~worked /\ Next1(c).do \notin Harmless)]
       /\ UNCHANGED <<answer, gone>>

\* A command that changes nothing is over at once: it works, or it does not, or its
\* answer is lost, which is the same.
Ask(c) ==
  /\ Next1(c).do \in Harmless
  /\ \E worked \in BOOLEAN : (worked => CanFinish(Process(c))) /\ GoesOn(c, worked)
  /\ UNCHANGED <<machine, proc>>

\* ssh_execute_command starts the command.  (Terraform does not wait for its lock.)
Start(c) ==
  /\ ~tool[c].waits /\ Next1(c).do \notin Harmless
  /\ IF Next1(c).do \in Locking /\ lock # NoOne
     THEN GoesOn(c, FALSE) /\ UNCHANGED <<proc, lock>>
     ELSE /\ proc' = proc \cup {Process(c)}
          /\ lock' = IF Next1(c).do \in Locking THEN Process(c) ELSE lock
          /\ tool' = [tool EXCEPT ![c].waits = TRUE]
          /\ UNCHANGED <<answer, gone>>
  /\ UNCHANGED <<dir, conf, live, plan>>

\* Does the tool that started p still wait for it?
Awaited(p) == tool[p.of] # NoOne /\ tool[p.of].waits /\ Process(p.of) = p

\* p ends: whoever still waits for it is told.
Finish(p) ==
  /\ p \in proc
  /\ proc' = proc \ {p}
  /\ lock' = IF lock = p THEN NoOne ELSE lock
  /\ \E worked \in BOOLEAN :
       /\ worked => CanFinish(p)
       /\ IF worked THEN Does(p) ELSE LeavesHalf(p)
       /\ IF Awaited(p) THEN GoesOn(p.of, worked) ELSE UNCHANGED <<tool, answer, gone>>

\* The process c waits for, if any, may be left to itself.
MayStray(c) == tool[c].waits => Cardinality({p \in proc : ~Awaited(p)}) < MaxStray

\* ssh_execute_command stops waiting.
StopsWaiting(c) ==
  /\ tool[c].waits /\ MayStray(c)
  /\ GoesOn(c, FALSE)
  /\ UNCHANGED <<machine, proc>>

\* "Requirements not met": a port is taken, or there is too little memory or disk.
NotMet(c) ==
  /\ Next1(c).do = "require"
  /\ Stop(c, "error")
  /\ UNCHANGED <<machine, proc>>

\* timeout_wrapper ends the tool.
Dismiss(c) == MayStray(c) /\ Stop(c, "error") /\ UNCHANGED <<machine, proc>>

ToolStep(c) ==
  /\ tool[c] # NoOne
  /\ Ask(c) \/ Start(c) \/ StopsWaiting(c) \/ NotMet(c) \/ Dismiss(c)

ServiceNext ==
  \/ \E c \in Caller :
       InstallService(c) \/ DestroyService(c) \/ InspectService(c) \/ RunPlaybook(c)
         \/ ToolStep(c)
  \/ \E p \in proc : Finish(p)

ServiceSpec == ServiceInit /\ [][ServiceNext]_svars

-----------------------------------------------------------------------------
(* Properties.                                                             *)

\* An install that reports success, that met no other call and no process an earlier
\* one left behind, and that lost no command whose result the code ignores, leaves
\* its own configuration running, whatever mess it found.  (Not so a script, whose
\* exit status is not looked at.)
SuccessIsAsked ==
  [][\A c \in Busy :
       /\ answer'[c] = "success" /\ tool[c].kind = "install"
       /\ tool[c].by # "script" /\ ~tool[c].shared /\ ~tool[c].heir /\ ~tool[c].slipped
       => /\ live'[tool[c].by].whole
          /\ live'[tool[c].by].of.main = c
          /\ tool[c].by \in {"terraform", "ansible"} => live'[tool[c].by].of.vars = c]_svars

\* A destroy that succeeded and met no other call is final: no process that an
\* earlier install abandoned brings anything back.
DestroyedStaysGone == gone => live["terraform"] = Nothing
=============================================================================
