---------------------------- MODULE ProxmoxTools ----------------------------
(***************************************************************************)
(* The tools of proxmox_api.py that look at, create and change virtual     *)
(* machines, one call at a time.  A call finds a token by the name of its  *)
(* host, sends its requests and has what it finds kept for every later     *)
(* resolution.                                                             *)
(***************************************************************************)
EXTENDS ProxmoxResolver, Sequences

CONSTANTS
  Vm,
  MaxCalls   \* BOUND

ASSUME ToolsAssumption == MaxCalls \in Nat

VARIABLES
  vm,     \* Vm -> its site and whether it runs, or None
  call,   \* the call in progress, or None
  calls   \* how many there were

tools == <<vm, call, calls>>

\* A machine that is in no cluster is a site of its own.  Sites are told apart like
\* entries: nothing keeps a host and a cluster from having one name.
SiteOf(h) == IF member[h] = None THEN Node(h) ELSE Pool(member[h])

\* What a call has to do: "client" finds a token, the rest are requests.
Do == {"client", "look", "start", "autostart", "stop", "halt", "create", "createOn", "clone",
       "delete"}

ToolsTypeOK ==
  /\ vm \in [Vm -> {None} \cup [site : Entry, power : {"on", "stopping", "off"}]]
  /\ call = None \/ call \in
       [host : Host, vm : Vm, to : Vm, todo : Seq(Do), by : Entry \cup {None},
        walks : BOOLEAN, pools : SUBSET Entry]
  /\ calls \in 0..MaxCalls

ToolsInit ==
  /\ vm \in [Vm -> {None} \cup [site : {SiteOf(h) : h \in Host}, power : {"on", "off"}]]
  /\ call = None
  /\ calls = 0

-----------------------------------------------------------------------------
(* What each tool does.  manage_proxmox_vm, when another tool calls it,    *)
(* makes a client of its own.                                              *)

ListResources == <<"client", "look">>
VmStatus == <<"client", "look">>
Manage(action) == <<"client", action>>
CreateLxc(start) == <<"client", IF start THEN "createOn" ELSE "create">>
CreateVM(start) ==
  <<"client", "create">> \o IF start THEN <<"client", "autostart">> ELSE <<>>
Clone == <<"client", "clone">>
Delete == <<"client", "client", "halt", "delete">>

\* What is left to do after a failure, if that is not the end: what stops a machine
\* before it is deleted may fail, and so may the request that starts a new one.
AfterFailure ==
  [left \in {<<"client", "halt", "delete">>, <<"halt", "delete">>} |-> <<"delete">>]

BeginCall(h, v, w, plan) ==
  /\ call = None /\ calls < MaxCalls
  /\ calls' = calls + 1
  /\ call' = [host |-> h, vm |-> v, to |-> w, todo |-> plan, by |-> None,
              walks |-> FALSE, pools |-> {}]
  /\ UNCHANGED <<resolver, vm>>

Call(h, v, w) ==
  \/ \E plan \in {ListResources, VmStatus} : BeginCall(h, v, w, plan)
  \/ \E action \in {"start", "stop"} : BeginCall(h, v, w, Manage(action))
  \/ \E start \in BOOLEAN :
       BeginCall(h, v, w, CreateLxc(start)) \/ BeginCall(h, v, w, CreateVM(start))
  \/ v # w /\ BeginCall(h, v, w, Clone)
  \/ BeginCall(h, v, w, Delete)

-----------------------------------------------------------------------------
Succeeds(r) ==
  call' = IF Len(r.todo) = 1 THEN None
          ELSE [r EXCEPT !.todo = Tail(@), !.walks = FALSE, !.pools = {}]

FailsNow ==
  call' = IF call.todo \in DOMAIN AfterFailure
          THEN [call EXCEPT !.todo = AfterFailure[@], !.walks = FALSE, !.pools = {}]
          ELSE None

\* The outcome r of a resolution by name is that of the call's client.  The token of
\* a nested client is used for its own request only: that it differs from the call's
\* is left out.
Resolves(r, walked) ==
  /\ Remember(call.host, None, r, walked)
  /\ IF r.how = "token" THEN Succeeds([call EXCEPT !.by = r.by])
     ELSE IF r.how = "walk" THEN call' = [call EXCEPT !.walks = TRUE, !.pools = Pools]
     ELSE FailsNow

\* get_proxmox_client, up to the first request of the walk.
CallClient(deaf) ==
  /\ call # None /\ Head(call.todo) = "client" /\ ~call.walks
  /\ IF explicit THEN Succeeds(call) /\ UNCHANGED resolver
     ELSE Resolves(ByName(call.host, deaf), FALSE)
  /\ UNCHANGED <<vm, calls>>

CallWalk(how) ==
  /\ call # None /\ call.walks
  /\ Resolves(Walked(call.host, call.pools, how), TRUE)
  /\ UNCHANGED <<vm, calls>>

\* The client may send a request to the host: the token of the environment is good
\* for every host.
Admitted(h, e) == e = None \/ Accepts(h, e)

\* The machine that the request is about is there.
There == vm[call.vm] # None /\ vm[call.vm].site = SiteOf(call.host)

\* The request of the call, which the host takes.
Request ==
  LET do == Head(call.todo)
      new(power) == [site |-> SiteOf(call.host), power |-> power]
  IN  \/ do = "look" /\ UNCHANGED vm
      \/ do \in {"start", "autostart"} /\ There /\ vm' = [vm EXCEPT ![call.vm].power = "on"]
      \/ do \in {"stop", "halt"} /\ There /\ vm[call.vm].power # "off"
           /\ vm' = [vm EXCEPT ![call.vm].power = "stopping"]
      \/ do \in {"create", "createOn"} /\ vm[call.vm] = None
           /\ vm' = [vm EXCEPT ![call.vm] = new(IF do = "create" THEN "off" ELSE "on")]
      \/ do = "clone" /\ There /\ vm[call.to] = None
           /\ vm' = [vm EXCEPT ![call.to] = new("off")]
      \/ do = "delete" /\ There /\ vm[call.vm].power = "off"
           /\ vm' = [vm EXCEPT ![call.vm] = None]

Send ==
  /\ call # None /\ Head(call.todo) # "client"
  /\ \/ Admitted(call.host, call.by) /\ Request /\ Succeeds(call)
     \/ UNCHANGED vm /\ FailsNow
  /\ UNCHANGED <<resolver, calls>>

\* A task of the host ends: its request was answered before.
Stopped(v) ==
  /\ vm[v] # None /\ vm[v].power = "stopping"
  /\ vm' = [vm EXCEPT ![v].power = "off"]
  /\ UNCHANGED <<resolver, call, calls>>

ToolsNext ==
  \/ \E h \in Host, v, w \in Vm : Call(h, v, w)
  \/ \E deaf \in BOOLEAN : CallClient(deaf)
  \/ \E how \in {"fine", "refused", "slow"} : CallWalk(how)
  \/ Send
  \/ \E v \in Vm : Stopped(v)
=============================================================================
