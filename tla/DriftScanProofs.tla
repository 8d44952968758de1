-------------------------- MODULE DriftScanProofs --------------------------
(***************************************************************************)
(* Proofs about DriftScan, for any hosts, virtual machines and fields, any *)
(* calls of other tools and any changes outside: what a scan reports of a  *)
(* host, and of what it lists, is so whatever happens meanwhile to others. *)
(*                                                                         *)
(* All of it rests on one fact about the cache that the scan shares with   *)
(* every tool: it is only ever set right, so that it misleads about a host *)
(* only if it did when the scan began or the host has moved since.  What   *)
(* the other tools do is summed up once, in Beside, and a resolution in    *)
(* the three ways in which it goes on with its host, in Advances; the      *)
(* invariants are about one host each and are followed through both.       *)
(***************************************************************************)
EXTENDS DriftScan, SequenceTheorems, TLAPS

Clusters == {Pool(c) : c \in Cluster}

\* A call has something left to do, and asks only about clusters.
Calling ==
  /\ ResolverTypeOK /\ ToolsTypeOK
  /\ call # None => call.todo # << >> /\ call.pools \subseteq Clusters

-----------------------------------------------------------------------------
(* What the resolver finds.                                                *)

\* The entry e is there with its secret.
Held(e) == e \in registry \cap secret

LEMMA EntriesDiffer ==
  /\ \A h \in Host : \A c : Node(h) # Pool(c)
  /\ \A c, d : Pool(c) = Pool(d) => c = d
  /\ Pools \subseteq Clusters /\ Clusters \subseteq Entry
  /\ \A h \in Host : Node(h) \in Entry
  BY DEF Node, Pool, Pools, Clusters, Entry

\* A resolution without a request finds what is there; it has to ask only for a
\* host without a binding and, if the keyring answers, without an entry of its own.
LEMMA ResolvedFinds ==
  ASSUME ResolverTypeOK, NEW h \in Host, NEW b \in Binding, NEW deaf \in BOOLEAN,
         NEW r, r = Resolved(h, b, deaf)
  PROVE  /\ r.how \in {"token", "walk", "binding_stale", "keyring_desync"}
         /\ r.how = "token" =>
              /\ ~deaf /\ Held(r.by) /\ r.by \in Entry
              /\ b # None => r.by = b
              /\ b = None => r.by = Node(h) \/ (cached[h] # None /\ r.by = Pool(cached[h]))
         /\ r.how # "token" => r.by = None
         /\ r.how = "walk" => b = None /\ (deaf \/ ~Held(Node(h)))
         /\ ~deaf /\ b # None /\ Held(b) => r.how = "token"
         /\ ~deaf /\ b = None => r.how \in {"token", "walk"}
         /\ ~deaf /\ b = None /\ Held(Node(h)) => r.how = "token" /\ r.by = Node(h)
         /\ ~deaf /\ b = None /\ cached[h] # None /\ Held(Pool(cached[h])) => r.how = "token"
  <1>1. CASE b # None
    BY <1>1 DEF Resolved, ByBinding, Found, Fails, Has, Held, ResolverTypeOK
  <1>2. CASE b = None
    BY <1>2 DEF Resolved, ByName, Found, Fails, Has, Held, ResolverTypeOK
  <1>q. QED BY <1>1, <1>2

\* A walk finds the cluster of the host, if it has the token and nothing fails.
LEMMA WalkedFinds ==
  ASSUME ResolverTypeOK, NEW h \in Host, NEW pools \in SUBSET Clusters,
         NEW how \in {"fine", "refused", "slow"}, NEW r, r = Walked(h, pools, how)
  PROVE  /\ r.how \in {"token", "transient", "unbound"}
         /\ r.how = "token" =>
              /\ how = "fine" /\ member[h] \in Cluster /\ member[h] # None
              /\ r.by = Pool(member[h]) /\ r.by \in pools \cap secret /\ r.by \in Entry
         /\ r.how # "token" => r.by = None
         /\ how = "fine" /\ h \in named /\ (\E c \in Cluster :
              Pool(c) \in pools \cap secret /\ Accepts(h, Pool(c))) => r.how = "token"
  <1>1. \A e \in pools : e # Node(h) BY DEF Clusters, Node, Pool
  <1>2. \A e \in pools : Accepts(h, e) => member[h] # None /\ e = Pool(member[h])
    BY <1>1 DEF Accepts
  <1>3. member[h] # None => member[h] \in Cluster BY DEF ResolverTypeOK
  <1>4. pools \subseteq Entry BY EntriesDiffer
  <1>5. r \in {Fails("transient"), Fails("unbound"), Found(Pool(member[h]))}
    BY DEF Walked
  <1>6. CASE how = "fine" /\ h \in named /\ \E e \in pools \cap secret : Accepts(h, e)
    <2>1. r = Found(Pool(member[h])) BY <1>6 DEF Walked
    <2>q. QED BY <2>1, <1>6, <1>2, <1>3, <1>4 DEF Found
  <1>7. CASE ~(how = "fine" /\ h \in named /\ \E e \in pools \cap secret : Accepts(h, e))
    <2>1. r \in {Fails("transient"), Fails("unbound")} BY <1>7 DEF Walked
    <2>2. r.how \in {"transient", "unbound"} /\ r.by = None BY <2>1 DEF Fails
    <2>q. QED BY <2>2, <1>7
  <1>q. QED BY <1>6, <1>7

-----------------------------------------------------------------------------
(* What the other tools leave as it was.                                   *)

LEMMA RemembersType ==
  ASSUME ResolverTypeOK, NEW h \in Host, NEW b \in Binding, NEW r, NEW walked \in BOOLEAN,
         Remember(h, b, r, walked), walked /\ r.how = "token" => r.by = Pool(member[h])
  PROVE  /\ ResolverTypeOK'
         /\ \A g \in Host : cached'[g] \in {cached[g], member[g]}
         /\ UNCHANGED <<member, registry, secret, named, explicit>>
  <1>1. Pool(member[h]).of = member[h] BY DEF Pool
  <1>2. cached' \in [Host -> Cluster \cup {None}]
        /\ \A g \in Host : cached'[g] \in {cached[g], member[g]}
    BY <1>1 DEF Remember, ResolverTypeOK
  <1>3. told' \subseteq Host \X Binding BY DEF Remember, ResolverTypeOK
  <1>q. QED BY <1>2, <1>3 DEF Remember, ResolverTypeOK

\* What an action of a tool does to what it shares with the scan.
Apart ==
  /\ Calling'
  /\ \A g \in Host : cached'[g] \in {cached[g], member[g]}
  /\ UNCHANGED <<member, registry, secret, named, explicit>>
  /\ \A v \in Vm : vm[v] # None /\ vm'[v] # None => vm'[v].site = vm[v].site

LEMMA BeginningIsApart ==
  ASSUME Calling, NEW h \in Host, NEW v \in Vm, NEW w \in Vm, NEW plan \in Seq(Do),
         plan # << >>, BeginCall(h, v, w, plan)
  PROVE  Apart
  <1> DEFINE new == [host |-> h, vm |-> v, to |-> w, todo |-> plan, by |-> None,
                     walks |-> FALSE, pools |-> {}]
  <1>1. call' = new /\ UNCHANGED <<resolver, vm>> /\ calls' = calls + 1 /\ calls < MaxCalls
    BY DEF BeginCall
  <1>2. ToolsTypeOK' BY <1>1, ToolsAssumption DEF Calling, ToolsTypeOK
  <1>3. ResolverTypeOK' BY <1>1 DEF Calling, ResolverTypeOK, resolver
  <1>q. QED BY <1>1, <1>2, <1>3 DEF Apart, Calling, resolver

LEMMA CallsAreApart ==
  ASSUME Calling, NEW h \in Host, NEW v \in Vm, NEW w \in Vm, Call(h, v, w)
  PROVE  Apart
  <1>1. \A plan \in Seq(Do) : plan # << >> /\ BeginCall(h, v, w, plan) => Apart
    BY BeginningIsApart
  <1>2. ListResources \in Seq(Do) /\ ListResources # << >> BY DEF ListResources, Do
  <1>3. VmStatus \in Seq(Do) /\ VmStatus # << >> BY DEF VmStatus, Do
  <1>4. \A action \in {"start", "stop"} : Manage(action) \in Seq(Do) /\ Manage(action) # << >>
    BY DEF Manage, Do
  <1>5. \A start \in BOOLEAN : CreateLxc(start) \in Seq(Do) /\ CreateLxc(start) # << >>
    BY DEF CreateLxc, Do
  <1>6. \A start \in BOOLEAN : CreateVM(start) \in Seq(Do) /\ CreateVM(start) # << >>
    <2>1. /\ <<"client", "create">> \in Seq(Do) /\ <<"client", "create">> # << >>
          /\ <<"client", "autostart">> \in Seq(Do) /\ << >> \in Seq(Do)
      BY DEF Do
    <2>2. \A t \in Seq(Do) : /\ <<"client", "create">> \o t \in Seq(Do)
                             /\ <<"client", "create">> \o t # << >>
      BY <2>1, ConcatProperties
    <2>q. QED BY <2>1, <2>2 DEF CreateVM
  <1>7. Clone \in Seq(Do) /\ Clone # << >> BY DEF Clone, Do
  <1>8. Delete \in Seq(Do) /\ Delete # << >> BY DEF Delete, Do
  <1>q. QED BY <1>1, <1>2, <1>3, <1>4, <1>5, <1>6, <1>7, <1>8 DEF Call

LEMMA GoesOn ==
  ASSUME Calling, call # None, NEW r, NEW b \in Entry \cup {None}, NEW w \in BOOLEAN,
         r \in {call, [call EXCEPT !.by = b]},
         Succeeds(r) \/ FailsNow
         \/ call' = [call EXCEPT !.walks = TRUE, !.pools = Pools],
         UNCHANGED calls, vm' \in [Vm -> {None} \cup
           [site : Entry, power : {"on", "stopping", "off"}]]
  PROVE  /\ ToolsTypeOK'
         /\ call' # None => call'.todo # << >> /\ call'.pools \subseteq Clusters
  <1> DEFINE CallSet == [host : Host, vm : Vm, to : Vm, todo : Seq(Do),
                         by : Entry \cup {None}, walks : BOOLEAN, pools : SUBSET Entry]
  <1>1. call \in CallSet /\ call.todo # << >> BY DEF Calling, ToolsTypeOK
  <1>2. r \in CallSet /\ r.todo = call.todo BY <1>1
  <1>3. ASSUME Succeeds(r) PROVE call' = None \/ (call' \in CallSet /\ call'.todo # << >>
                                                  /\ call'.pools = {})
    <2>1. CASE Len(r.todo) = 1 BY <2>1, <1>3 DEF Succeeds
    <2>2. CASE Len(r.todo) # 1
      <3>1. call' = [r EXCEPT !.todo = Tail(@), !.walks = FALSE, !.pools = {}]
        BY <2>2, <1>3 DEF Succeeds
      <3>2. Tail(r.todo) \in Seq(Do) /\ Tail(r.todo) # << >>
        <4>1. r.todo \in Seq(Do) /\ r.todo # << >> /\ Len(r.todo) # 1 BY <2>2, <1>1, <1>2
        <4>2. /\ Tail(r.todo) \in Seq(Do) /\ Len(Tail(r.todo)) = Len(r.todo) - 1
              /\ Len(r.todo) \in Nat \ {0} /\ Len(<< >>) = 0
          BY <4>1, HeadTailProperties, EmptySeq
        <4>3. Len(Tail(r.todo)) # 0 BY <4>1, <4>2
        <4>q. QED BY <4>2, <4>3
      <3>q. QED BY <3>1, <3>2, <1>2
    <2>q. QED BY <2>1, <2>2
  <1>4. ASSUME FailsNow PROVE call' = None \/ (call' \in CallSet /\ call'.todo # << >>
                                               /\ call'.pools = {})
    <2>1. \A left \in DOMAIN AfterFailure : AfterFailure[left] = <<"delete">>
      BY DEF AfterFailure
    <2>2. CASE call.todo \in DOMAIN AfterFailure
      <3>1. call' = [call EXCEPT !.todo = <<"delete">>, !.walks = FALSE, !.pools = {}]
        BY <2>1, <2>2, <1>4 DEF FailsNow
      <3>2. <<"delete">> \in Seq(Do) /\ <<"delete">> # << >> BY DEF Do
      <3>q. QED BY <3>1, <3>2, <1>1
    <2>3. CASE call.todo \notin DOMAIN AfterFailure BY <2>3, <1>4 DEF FailsNow
    <2>q. QED BY <2>2, <2>3
  <1>5. ASSUME call' = [call EXCEPT !.walks = TRUE, !.pools = Pools]
        PROVE  call' \in CallSet /\ call'.todo # << >> /\ call'.pools \subseteq Clusters
    <2>1. Pools \subseteq Entry BY EntriesDiffer
    <2>q. QED BY <1>5, <1>1, <2>1, EntriesDiffer
  <1>6. calls' \in 0..MaxCalls BY DEF Calling, ToolsTypeOK
  <1>q. QED BY <1>3, <1>4, <1>5, <1>6 DEF ToolsTypeOK

LEMMA ResolvingIsApart ==
  ASSUME Calling, call # None, NEW r, NEW walked \in BOOLEAN, Resolves(r, walked),
         UNCHANGED <<vm, calls>>, r.how = "token" => r.by \in Entry,
         walked /\ r.how = "token" => r.by = Pool(member[call.host])
  PROVE  Apart
  <1>1. call.host \in Host /\ None \in Binding BY DEF Calling, ToolsTypeOK, Binding
  <1>2. Remember(call.host, None, r, walked) BY DEF Resolves
  <1>3. /\ ResolverTypeOK'
        /\ \A g \in Host : cached'[g] \in {cached[g], member[g]}
        /\ UNCHANGED <<member, registry, secret, named, explicit>>
    BY <1>1, <1>2, RemembersType DEF Calling
  <1>4. vm' \in [Vm -> {None} \cup
           [site : Entry, power : {"on", "stopping", "off"}]]
    BY DEF Calling, ToolsTypeOK
  <1>5. \/ r.how = "token" /\ Succeeds([call EXCEPT !.by = r.by])
        \/ r.how # "token" /\ FailsNow
        \/ r.how # "token" /\ call' = [call EXCEPT !.walks = TRUE, !.pools = Pools]
    BY DEF Resolves
  <1>6. ToolsTypeOK' /\ (call' # None => call'.todo # << >> /\ call'.pools \subseteq Clusters)
    <2>1. CASE r.how = "token"
      <3> DEFINE n == [call EXCEPT !.by = r.by]
      <3>1. Succeeds(n) /\ r.by \in Entry \cup {None} BY <2>1, <1>5
      <3>2. n \in {call, [call EXCEPT !.by = r.by]} OBVIOUS
      <3>q. QED BY <3>1, <3>2, <1>4, GoesOn
    <2>2. CASE r.how # "token"
      <3>1. FailsNow \/ call' = [call EXCEPT !.walks = TRUE, !.pools = Pools] BY <2>2, <1>5
      <3>2. None \in Entry \cup {None} /\ call \in {call, [call EXCEPT !.by = None]} OBVIOUS
      <3>q. QED BY <3>1, <3>2, <1>4, GoesOn
    <2>q. QED BY <2>1, <2>2
  <1>q. QED BY <1>3, <1>6 DEF Apart, Calling

LEMMA RequestKeepsSites ==
  ASSUME Calling, call # None, Request
  PROVE  /\ vm' \in [Vm -> {None} \cup
              [site : Entry, power : {"on", "stopping", "off"}]]
         /\ \A v \in Vm : vm[v] # None /\ vm'[v] # None => vm'[v].site = vm[v].site
  <1> DEFINE Machine == [site : Entry, power : {"on", "stopping", "off"}]
  <1>1. vm \in [Vm -> {None} \cup Machine] /\ call.vm \in Vm /\ call.to \in Vm
        /\ call.host \in Host
    BY DEF Calling, ToolsTypeOK
  <1>2. SiteOf(call.host) \in Entry
    BY <1>1 DEF SiteOf, Entry, Calling, ResolverTypeOK
  <1> DEFINE new(power) == [site |-> SiteOf(call.host), power |-> power]
  <1>3. \A p \in {"on", "off"} : new(p) \in Machine BY <1>2
  <1>4. \/ UNCHANGED vm
        \/ There /\ \E p \in {"on", "stopping"} : vm' = [vm EXCEPT ![call.vm].power = p]
        \/ vm[call.vm] = None /\ \E p \in {"on", "off"} : vm' = [vm EXCEPT ![call.vm] = new(p)]
        \/ vm[call.to] = None /\ vm' = [vm EXCEPT ![call.to] = new("off")]
        \/ vm' = [vm EXCEPT ![call.vm] = None]
    BY DEF Request
  <1>5. CASE UNCHANGED vm BY <1>1, <1>5
  <1>6. CASE There /\ \E p \in {"on", "stopping"} : vm' = [vm EXCEPT ![call.vm].power = p]
    <2>1. vm[call.vm] \in Machine BY <1>1, <1>6 DEF There
    <2>2. PICK p \in {"on", "stopping"} : vm' = [vm EXCEPT ![call.vm].power = p] BY <1>6
    <2>q. QED BY <2>1, <2>2, <1>1
  <1>7. CASE vm[call.vm] = None /\ \E p \in {"on", "off"} : vm' = [vm EXCEPT ![call.vm] = new(p)]
    <2>1. PICK p \in {"on", "off"} : vm' = [vm EXCEPT ![call.vm] = new(p)] BY <1>7
    <2>q. QED BY <2>1, <1>1, <1>3, <1>7
  <1>8. CASE vm[call.to] = None /\ vm' = [vm EXCEPT ![call.to] = new("off")]
    BY <1>1, <1>3, <1>8
  <1>9. CASE vm' = [vm EXCEPT ![call.vm] = None] BY <1>1, <1>9
  <1>q. QED BY <1>4, <1>5, <1>6, <1>7, <1>8, <1>9

LEMMA ToolsAreApart ==
  ASSUME Calling, ToolsNext PROVE Apart
  <1>1. ASSUME NEW h \in Host, NEW v \in Vm, NEW w \in Vm, Call(h, v, w) PROVE Apart
    BY <1>1, CallsAreApart
  <1>2. ASSUME NEW deaf \in BOOLEAN, CallClient(deaf) PROVE Apart
    <2>1. call # None /\ call.host \in Host /\ UNCHANGED <<vm, calls>>
      BY <1>2 DEF CallClient, Calling, ToolsTypeOK
    <2>2. CASE explicit
      <3>1. Succeeds(call) /\ UNCHANGED resolver BY <1>2, <2>2 DEF CallClient
      <3>2. None \in Entry \cup {None} /\ call \in {call, [call EXCEPT !.by = None]} OBVIOUS
      <3>3. vm' \in [Vm -> {None} \cup
               [site : Entry, power : {"on", "stopping", "off"}]]
        BY <2>1 DEF Calling, ToolsTypeOK
      <3>4. ToolsTypeOK' /\ (call' # None => call'.todo # << >> /\ call'.pools \subseteq Clusters)
        BY <2>1, <3>1, <3>2, <3>3, GoesOn
      <3>5. ResolverTypeOK' BY <3>1 DEF Calling, ResolverTypeOK, resolver
      <3>q. QED BY <2>1, <3>1, <3>4, <3>5 DEF Apart, Calling, resolver
    <2>3. CASE ~explicit
      <3> DEFINE r == Resolved(call.host, None, deaf)
      <3>1. r = ByName(call.host, deaf) BY DEF Resolved
      <3>2. Resolves(r, FALSE) BY <1>2, <2>3, <3>1 DEF CallClient
      <3>3. r.how = "token" => r.by \in Entry
        BY <2>1, ResolvedFinds DEF Calling, Binding
      <3>q. QED BY <2>1, <3>2, <3>3, ResolvingIsApart
    <2>q. QED BY <2>2, <2>3
  <1>3. ASSUME NEW how \in {"fine", "refused", "slow"}, CallWalk(how) PROVE Apart
    <2>1. call # None /\ call.host \in Host /\ UNCHANGED <<vm, calls>>
          /\ call.pools \in SUBSET Clusters
      BY <1>3 DEF CallWalk, Calling, ToolsTypeOK
    <2> DEFINE r == Walked(call.host, call.pools, how)
    <2>2. Resolves(r, TRUE) BY <1>3 DEF CallWalk
    <2>3. r.how = "token" => r.by \in Entry /\ r.by = Pool(member[call.host])
      BY <2>1, WalkedFinds DEF Calling
    <2>q. QED BY <2>1, <2>2, <2>3, ResolvingIsApart
  <1>4. ASSUME Send PROVE Apart
    <2>1. call # None /\ UNCHANGED <<resolver, calls>> BY <1>4 DEF Send
    <2>2. Succeeds(call) \/ FailsNow BY <1>4 DEF Send
    <2>3. /\ vm' \in [Vm -> {None} \cup
               [site : Entry, power : {"on", "stopping", "off"}]]
          /\ \A v \in Vm : vm[v] # None /\ vm'[v] # None => vm'[v].site = vm[v].site
      <3>1. CASE Request BY <2>1, <3>1, RequestKeepsSites
      <3>2. CASE UNCHANGED vm BY <3>2 DEF Calling, ToolsTypeOK
      <3>q. QED BY <3>1, <3>2, <1>4 DEF Send
    <2>4. None \in Entry \cup {None} /\ call \in {call, [call EXCEPT !.by = None]} OBVIOUS
    <2>5. ToolsTypeOK' /\ (call' # None => call'.todo # << >> /\ call'.pools \subseteq Clusters)
      BY <2>1, <2>2, <2>3, <2>4, GoesOn
    <2>6. ResolverTypeOK' BY <2>1 DEF Calling, ResolverTypeOK, resolver
    <2>q. QED BY <2>1, <2>3, <2>5, <2>6 DEF Apart, Calling, resolver
  <1>5. ASSUME NEW v \in Vm, Stopped(v) PROVE Apart
    <2>1. /\ vm' = [vm EXCEPT ![v].power = "off"] /\ vm[v] # None
          /\ UNCHANGED <<resolver, call, calls>>
      BY <1>5 DEF Stopped
    <2>2. vm[v] \in [site : Entry, power : {"on", "stopping", "off"}]
      BY <2>1 DEF Calling, ToolsTypeOK
    <2>3. /\ vm' \in [Vm -> {None} \cup
               [site : Entry, power : {"on", "stopping", "off"}]]
          /\ \A u \in Vm : vm[u] # None /\ vm'[u] # None => vm'[u].site = vm[u].site
      BY <2>1, <2>2 DEF Calling, ToolsTypeOK
    <2>4. ToolsTypeOK' BY <2>1, <2>3 DEF Calling, ToolsTypeOK
    <2>5. ResolverTypeOK' BY <2>1 DEF Calling, ResolverTypeOK, resolver
    <2>q. QED BY <2>1, <2>3, <2>4, <2>5 DEF Apart, Calling, resolver
  <1>q. QED BY <1>1, <1>2, <1>3, <1>4, <1>5 DEF ToolsNext

-----------------------------------------------------------------------------
(* The order of a scan, and what is known of a host that it is busy with.  *)

Typed == TypeOK /\ Calling

Order ==
  /\ phase = "idle" => snap = [h \in Host |-> None] /\ probe = [h \in Host |-> Nothing]
                        /\ tried = {}
  /\ phase \in {"idle", "probe"} =>
       \A h \in Host : bucket[h] = None /\ work[h].at \in {"due", "end"}
  /\ phase \in {"idle", "done"} => \A h \in Host : work[h] = Idle
  /\ phase \in {"list", "done"} => \A h \in Host : work[h] = Idle \/ h \in Answered
  /\ \A h \in Host :
       /\ work[h] = Idle \/ work[h].at # "end"
       /\ work[h].at # "end" \/ bucket[h] # None => snap[h] # None
       /\ phase = "rows" /\ work[h].at # "end" => bucket[h] = None
       /\ work[h].at \notin {"due", "end"} => ~snap[h].bad
  /\ tried \subseteq Probed
  /\ phase \notin {"idle", "probe"} => Probed \ blind \subseteq tried

\* A host has no binding when its clusters are asked, which are all that there are
\* still; the scope is asked for separately only of a client with the token of the
\* environment.
Stages ==
  \A h \in Host :
    /\ work[h].at \in {"walk", "again"} =>
         /\ snap[h].binding = None
         /\ Pools \subseteq work[h].pools /\ work[h].pools \subseteq Clusters
         /\ ~pulled => work[h].pools = Pools
    /\ work[h].at \in {"got", "again"} => explicit /\ work[h].by = None

\* The cache is only ever set right.
Led == phase # "idle" => \A h \in Host \ (astray \cup hurt) : ~Misled(h)

Base == Typed /\ Order /\ Stages /\ Led

\* What the scan still needs to find a host well.
OnItsWay(h) ==
  \/ work[h].at \in {"due", "got"}
  \/ work[h].at \in {"walk", "again"} /\ ~Held(Node(h))
  \/ work[h].at = "ask" /\ Admitted(h, work[h].by)

\* A resolution would find a token that h takes, without a request.
Ready(h) ==
  LET b == snap[h].binding
  IN  IF b # None THEN Held(b) /\ Accepts(h, b)
      ELSE \/ Held(Node(h))
           \/ cached[h] # None /\ Held(Pool(cached[h])) /\ Accepts(h, Pool(cached[h]))

-----------------------------------------------------------------------------
(* The three ways in which a resolution goes on with a host.               *)

Look(h) ==
  \/ \E deaf \in BOOLEAN : Client(h, deaf) \/ Telemetry(h, deaf)
  \/ \E how \in {"fine", "refused", "slow"} : Walk(h, how)

Frame(h, harmed) ==
  /\ phase \in {"rows", "list"} /\ work[h].at \in {"due", "got", "walk", "again"}
  /\ snap[h] # None /\ ~snap[h].bad
  /\ ResolverTypeOK' /\ \A g \in Host : cached'[g] \in {cached[g], member[g]}
  /\ UNCHANGED <<member, registry, secret, named, explicit, tools, outside, phase, snap, known,
                 tried, probe, unknown, astray, pulled, stirred, blind, restless>>
  /\ Harm(h, harmed)

StartsWalk(h, harmed) ==
  \E at \in {"walk", "again"} :
    /\ Goes(h, at, work[h].by) /\ snap[h].binding = None
    /\ at = "again" => explicit /\ work[h].by = None
    /\ harmed \/ ~Held(Node(h))
    /\ phase = "list" /\ work[h].at = "due" => harmed \/ ~(explicit \/ Ready(h))

Token(h, by) ==
  /\ by \in secret /\ (~pulled => by \in registry)
  /\ IF snap[h].binding # None THEN by = snap[h].binding
     ELSE \/ by = Node(h)
          \/ cached[h] # None /\ by = Pool(cached[h])
          \/ member[h] # None /\ by = Pool(member[h]) /\ cached'[h] = member[h]

HasClient(h) ==
  \E at \in {"got", "ask"}, by \in Entry \cup {None} :
    /\ Goes(h, at, by)
    /\ at = "got" => explicit /\ by = None
    /\ phase = "list" => at = "ask"
    /\ (explicit /\ by = None) \/ Token(h, by)
    /\ explicit /\ work[h].at = "due" => by = None

GivesUp(h, harmed) ==
  /\ work' = [work EXCEPT ![h] = Idle]
  /\ \/ phase = "list" /\ UNCHANGED bucket
     \/ phase = "rows" /\ \E b \in Bucket \ {"probed_ok", "changed"} :
          bucket' = [bucket EXCEPT ![h] = b]
  /\ phase = "rows" => harmed \/ ~(Served(h) /\ OnItsWay(h))
  /\ phase = "list" /\ work[h].at = "due" => harmed \/ ~(explicit \/ Ready(h))

Advances(h, harmed) ==
  Frame(h, harmed) /\ (StartsWalk(h, harmed) \/ HasClient(h) \/ GivesUp(h, harmed))

LEMMA AdvancesIf ==
  ASSUME Base, NEW h \in Host, NEW r, NEW walked \in BOOLEAN, NEW second \in BOOLEAN,
         NEW harmed \in BOOLEAN, ResolvesTo(h, r, walked, second), Harm(h, harmed),
         phase \in {"rows", "list"}, snap[h] # None, ~snap[h].bad,
         work[h].at \in {"due", "got", "walk", "again"}, work[h].at = "due" => ~explicit,
         second <=> work[h].at \in {"got", "again"},
         r.how \in {"token", "walk", "binding_stale", "keyring_desync", "transient", "unbound"},
         walked /\ r.how = "token" => r.by = Pool(member[h]) /\ member[h] # None,
         r.how = "token" => r.by \in Entry /\ Token(h, r.by),
         r.how = "walk" => snap[h].binding = None /\ (harmed \/ ~Held(Node(h))),
         r.how \notin {"walk", "token"} => harmed \/ ~(Served(h) /\ OnItsWay(h)),
         r.how # "token" /\ work[h].at = "due" => harmed \/ ~(explicit \/ Ready(h))
  PROVE  Advances(h, harmed)
  <1>0. /\ snap[h].binding \in Binding /\ work[h].by \in Entry \cup {None}
        /\ bucket \in [Host -> Bucket \cup {None}]
    BY DEF Base, Typed, TypeOK, Row
  <1>1. Remember(h, snap[h].binding, r, walked) BY DEF ResolvesTo
  <1>2. /\ ResolverTypeOK' /\ \A g \in Host : cached'[g] \in {cached[g], member[g]}
        /\ UNCHANGED <<member, registry, secret, named, explicit>>
    BY <1>0, <1>1, RemembersType DEF Base, Typed, Calling
  <1>3. Frame(h, harmed) BY <1>2 DEF ResolvesTo, Frame
  <1>4. CASE r.how = "walk"
    <2> DEFINE at == IF second THEN "again" ELSE "walk"
    <2>1. Goes(h, at, work[h].by) BY <1>4 DEF ResolvesTo
    <2>2. at = "again" => explicit /\ work[h].by = None BY DEF Base, Stages
    <2>3. StartsWalk(h, harmed) BY <1>4, <2>1, <2>2 DEF StartsWalk
    <2>q. QED BY <1>3, <2>3 DEF Advances
  <1>5. CASE r.how = "token"
    <2>1. <<h, snap[h].binding>> \in told' BY <1>5, <1>1 DEF Remember
    <2> DEFINE by == IF second THEN work[h].by ELSE r.by
    <2>2. Goes(h, "ask", by) BY <1>5, <2>1 DEF ResolvesTo
    <2>3. by \in Entry \cup {None} BY <1>0, <1>5
    <2>4. (explicit /\ by = None) \/ Token(h, by) BY <1>5 DEF Base, Stages
    <2>5. HasClient(h) BY <2>2, <2>3, <2>4 DEF HasClient
    <2>q. QED BY <1>3, <2>5 DEF Advances
  <1>6. CASE r.how \notin {"walk", "token"}
    <2>1. work' = [work EXCEPT ![h] = Idle] BY <1>6 DEF ResolvesTo, Settle
    <2>2. CASE phase = "list"
      <3>1. bucket' = [bucket EXCEPT ![h] = bucket[h]] BY <1>6, <2>2 DEF ResolvesTo, Settle
      <3>2. bucket' = bucket BY <1>0, <3>1
      <3>3. GivesUp(h, harmed) BY <1>6, <2>1, <2>2, <3>2 DEF GivesUp
      <3>q. QED BY <1>3, <3>3 DEF Advances
    <2>3. CASE phase = "rows"
      <3>1. bucket' = [bucket EXCEPT ![h] = Failure(h, r.how)]
        BY <1>6, <2>3 DEF ResolvesTo, Settle
      <3>2. Failure(h, r.how) \in Bucket \ {"probed_ok", "changed"}
        BY <1>6 DEF Failure, Unreachable, Bucket
      <3>3. GivesUp(h, harmed) BY <1>6, <2>1, <2>3, <3>1, <3>2 DEF GivesUp
      <3>q. QED BY <1>3, <3>3 DEF Advances
    <2>q. QED BY <2>2, <2>3
  <1>q. QED BY <1>4, <1>5, <1>6

LEMMA Looking ==
  ASSUME Base, NEW h \in Host, Look(h)
  PROVE  \E harmed \in BOOLEAN : Advances(h, harmed)
  <1>0. /\ ResolverTypeOK
        /\ snap[h] \in Row \cup {None}
        /\ work[h].at \in {"due", "walk", "got", "again", "ask", "end"}
    BY DEF Base, Typed, TypeOK
  <1>a. work[h].at # "end" => snap[h] # None /\ phase \notin {"idle", "done"}
    BY DEF Base, Order, Idle
  <1>b. snap[h] # None => snap[h].binding \in Binding BY <1>0 DEF Row
  <1>c. work[h].at \notin {"due", "end"} => ~snap[h].bad /\ phase \in {"rows", "list"}
    BY <1>a DEF Base, Order, Typed, TypeOK
  <1>d. Served(h) => IF snap[h].binding # None THEN Held(snap[h].binding)
                     ELSE Held(Node(h)) \/ (h \in named /\ \E c \in Cluster :
                            Held(Pool(c)) /\ Accepts(h, Pool(c)))
    BY DEF Served, Held
  <1>1. ASSUME NEW deaf \in BOOLEAN, Client(h, deaf), explicit
        PROVE  Advances(h, FALSE)
    <2>1. /\ work[h].at = "due" /\ ~snap[h].bad /\ phase \in {"rows", "list"}
          /\ UNCHANGED <<resolver, tools, outside, phase, snap, known, tried, probe, unknown,
                         history>>
      BY <1>1 DEF Client, Turn
    <2>2. PICK at \in {"got", "ask"} : Goes(h, at, None) /\ (phase = "list" => at = "ask")
      BY <1>1 DEF Client
    <2>3. HasClient(h) BY <1>1, <2>2 DEF HasClient
    <2>4. ResolverTypeOK' /\ \A g \in Host : cached'[g] = cached[g]
      BY <1>0, <2>1 DEF ResolverTypeOK, resolver
    <2>5. Frame(h, FALSE) BY <1>a, <2>1, <2>4 DEF Frame, history, Harm, resolver
    <2>q. QED BY <2>3, <2>5 DEF Advances
  <1>2. ASSUME NEW deaf \in BOOLEAN, NEW second \in BOOLEAN,
               phase \in {"rows", "list"}, ~snap[h].bad, work[h].at \in {"due", "got"},
               second <=> work[h].at = "got", work[h].at = "due" => ~explicit,
               ResolvesTo(h, Resolved(h, snap[h].binding, deaf), FALSE, second), Harm(h, deaf)
        PROVE  Advances(h, deaf)
    <2> DEFINE r == Resolved(h, snap[h].binding, deaf)
               b == snap[h].binding
    <2>1. b \in Binding /\ snap[h] # None BY <1>2, <1>a, <1>b
    <2>2. /\ r.how \in {"token", "walk", "binding_stale", "keyring_desync"}
          /\ r.how = "token" =>
               /\ ~deaf /\ Held(r.by) /\ r.by \in Entry
               /\ b # None => r.by = b
               /\ b = None => r.by = Node(h) \/ (cached[h] # None /\ r.by = Pool(cached[h]))
          /\ r.how = "walk" => b = None /\ (deaf \/ ~Held(Node(h)))
          /\ ~deaf /\ b # None /\ Held(b) => r.how = "token"
          /\ ~deaf /\ b = None => r.how \in {"token", "walk"}
          /\ ~deaf /\ b = None /\ Held(Node(h)) => r.how = "token" /\ r.by = Node(h)
          /\ ~deaf /\ b = None /\ cached[h] # None /\ Held(Pool(cached[h])) => r.how = "token"
      BY <1>0, <2>1, ResolvedFinds
    <2> HIDE DEF r
    <2>3. ResolvesTo(h, r, FALSE, second) BY <1>2 DEF r
    <2>4. r.how = "token" => r.by \in Entry /\ Token(h, r.by) BY <2>2 DEF Token, Held
    <2>5. r.how \notin {"walk", "token"} => deaf \/ ~(Served(h) /\ OnItsWay(h)) BY <1>d, <2>2
    <2>6. r.how # "token" /\ work[h].at = "due" => deaf \/ ~(explicit \/ Ready(h))
      BY <1>2, <2>2 DEF Ready
    <2>q. QED BY <1>2, <2>1, <2>2, <2>3, <2>4, <2>5, <2>6, AdvancesIf
  <1>3. ASSUME NEW how \in {"fine", "refused", "slow"}, Walk(h, how)
        PROVE  Advances(h, how # "fine")
    <2> DEFINE r == Walked(h, work[h].pools, how)
               second == work[h].at = "again"
    <2>0. work[h].at \in {"walk", "again"} /\ ResolvesTo(h, r, TRUE, second)
          /\ Harm(h, how # "fine")
      BY <1>3 DEF Walk
    <2>1. /\ snap[h].binding = None /\ work[h].pools \in SUBSET Clusters
          /\ Pools \subseteq work[h].pools /\ (~pulled => work[h].pools = Pools)
      BY <2>0 DEF Base, Stages
    <2>2. /\ r.how \in {"token", "transient", "unbound"}
          /\ r.how = "token" =>
               /\ how = "fine" /\ member[h] \in Cluster /\ member[h] # None
               /\ r.by = Pool(member[h]) /\ r.by \in work[h].pools \cap secret /\ r.by \in Entry
          /\ how = "fine" /\ h \in named /\ (\E c \in Cluster :
               Pool(c) \in work[h].pools \cap secret /\ Accepts(h, Pool(c))) => r.how = "token"
      BY <1>0, <2>1, WalkedFinds
    <2>3. r.how = "token" => cached'[h] = member[h]
      <3>1. Pool(member[h]).of = member[h] BY DEF Pool
      <3>q. QED BY <2>0, <2>2, <3>1, <1>0 DEF ResolvesTo, Remember, ResolverTypeOK
    <2> HIDE DEF r
    <2>4. r.how = "token" => r.by \in Entry /\ Token(h, r.by)
      BY <2>1, <2>2, <2>3 DEF Token, Pools
    <2>5. ASSUME how = "fine", Served(h), OnItsWay(h) PROVE r.how = "token"
      <3>1. ~Held(Node(h)) BY <2>0, <2>5 DEF OnItsWay
      <3>2. PICK c \in Cluster : h \in named /\ Held(Pool(c)) /\ Accepts(h, Pool(c))
        BY <1>d, <2>1, <2>5, <3>1
      <3>3. Pool(c) \in Pools BY <3>2 DEF Pools, Held
      <3>q. QED BY <2>1, <2>2, <2>5, <3>2, <3>3 DEF Held
    <2>6. work[h].at # "due" /\ snap[h] # None /\ ~snap[h].bad /\ phase \in {"rows", "list"}
      BY <1>a, <1>c, <2>0
    <2>q. QED BY <2>0, <2>2, <2>4, <2>5, <2>6, AdvancesIf
  <1>4. ASSUME NEW deaf \in BOOLEAN, Client(h, deaf), ~explicit PROVE Advances(h, deaf)
    BY <1>4, <1>2 DEF Client, Turn
  <1>5. ASSUME NEW deaf \in BOOLEAN, Telemetry(h, deaf) PROVE Advances(h, deaf)
    <2>1. work[h].at = "got" /\ explicit BY <1>5 DEF Telemetry, Base, Stages
    <2>2. ResolvesTo(h, Resolved(h, snap[h].binding, deaf), FALSE, TRUE) /\ Harm(h, deaf)
      BY <1>5, <2>1 DEF Telemetry, Harm
    <2>q. QED BY <1>2, <1>c, <2>1, <2>2
  <1>q. QED BY <1>1, <1>3, <1>4, <1>5 DEF Look

-----------------------------------------------------------------------------
(* What happens outside.                                                   *)

Beside ==
  /\ Typed' /\ UNCHANGED <<scan, astray, blind, named, explicit>>
  /\ registry' \subseteq registry /\ secret' \subseteq secret
  /\ pulled => pulled'
  /\ ~pulled' => UNCHANGED <<registry, secret>>
  /\ hurt \subseteq hurt'
  /\ \A h \in Host \ hurt' : member'[h] = member[h] /\ cached'[h] \in {cached[h], member[h]}
  /\ stirred \subseteq stirred'
  /\ \A h \in Host \ stirred' : rows'[h] = rows[h] /\ fp'[h] = fp[h]
  /\ restless \subseteq restless'
  /\ \A v \in Vm \ restless' : vm'[v] # None => vm[v] # None /\ vm'[v].site = vm[v].site

LEMMA ElsewhereIsBeside ==
  ASSUME Typed, Elsewhere PROVE Beside
  <1>1. ASSUME ToolsNext, restless' = restless \cup {v \in Vm : (vm[v] = None) # (vm'[v] = None)},
               UNCHANGED <<outside, scan, astray, hurt, pulled, stirred, blind>>
        PROVE  Beside
    <2>1. Apart BY <1>1, ToolsAreApart DEF Typed
    <2>2. TypeOK' BY <1>1, <2>1 DEF Apart, Calling, Typed, TypeOK, outside, scan
    <2>3. \A v \in Vm \ restless' : vm'[v] # None => vm[v] # None /\ vm'[v].site = vm[v].site
      BY <1>1, <2>1 DEF Apart
    <2>q. QED BY <1>1, <2>1, <2>2, <2>3 DEF Apart, Beside, Typed, outside
  <1>2. ASSUME Change,
               ResolverTypeOK', fp' \in [Host -> Fp], rows' \in [Host -> Row \cup {None}],
               adopted' \subseteq Vm, hurt' \subseteq Host, pulled' \in BOOLEAN,
               stirred' \subseteq Host
        PROVE  Typed'
    <2>1. changes' \in 0..MaxChanges BY <1>2, ScanAssumption DEF Change, Typed, TypeOK
    <2>2. ToolsTypeOK' BY <1>2 DEF Change, tools, Typed, TypeOK, ToolsTypeOK
    <2>3. TypeOK' BY <1>2, <2>1, <2>2 DEF Change, Typed, TypeOK, scan
    <2>q. QED BY <1>2, <2>2, <2>3 DEF Typed, Calling, Change, tools
  <1>3. ASSUME NEW h \in Host, Move(h) PROVE Beside
    <2>1. PICK c \in Cluster \cup {None} : member' = [member EXCEPT ![h] = c] BY <1>3 DEF Move
    <2>2. /\ Change /\ hurt' = hurt \cup {h}
          /\ UNCHANGED <<registry, secret, fp, rows, adopted, pulled, stirred>>
      BY <1>3 DEF Move
    <2>3. ResolverTypeOK' BY <2>1, <2>2 DEF Change, Typed, TypeOK, ResolverTypeOK
    <2>4. Typed' BY <1>2, <2>2, <2>3 DEF Typed, TypeOK
    <2>5. \A g \in Host \ hurt' : member'[g] = member[g]
      BY <2>1, <2>2 DEF Typed, TypeOK, ResolverTypeOK
    <2>q. QED BY <2>2, <2>4, <2>5 DEF Beside, Change, tools
  <1>4. ASSUME NEW e \in Entry, Lose(e) PROVE Beside
    <2>1. /\ Change /\ pulled' = TRUE /\ registry' \subseteq registry /\ secret' \subseteq secret
          /\ UNCHANGED <<member, fp, rows, adopted, hurt, stirred>>
      BY <1>4 DEF Lose
    <2>2. ResolverTypeOK' BY <2>1 DEF Change, Typed, TypeOK, ResolverTypeOK
    <2>3. Typed' BY <1>2, <2>1, <2>2 DEF Typed, TypeOK
    <2>q. QED BY <2>1, <2>3 DEF Beside, Change, tools
  <1>5. ASSUME NEW h \in Host, Alter(h) PROVE Beside
    <2>1. /\ Change /\ stirred' = stirred \cup {h}
          /\ UNCHANGED <<member, registry, secret, adopted, hurt, pulled>>
      BY <1>5 DEF Alter
    <2>2. /\ fp' \in [Host -> Fp] /\ rows' \in [Host -> Row \cup {None}]
          /\ \A g \in Host \ stirred' : rows'[g] = rows[g] /\ fp'[g] = fp[g]
      <3>0. fp \in [Host -> Fp] /\ rows \in [Host -> Row \cup {None}] BY DEF Typed, TypeOK
      <3>1. CASE UNCHANGED rows /\ \E k \in Key, v \in Value : fp' = [fp EXCEPT ![h][k] = v]
        <4>1. PICK k \in Key, v \in Value : fp' = [fp EXCEPT ![h][k] = v] BY <3>1
        <4>2. fp[h] \in [Key -> Value \cup {None}] BY <3>0 DEF Fp
        <4>3. [fp[h] EXCEPT ![k] = v] \in [Key -> Value \cup {None}] BY <4>2
        <4>4. fp' = [fp EXCEPT ![h] = [fp[h] EXCEPT ![k] = v]] BY <4>1, <3>0
        <4>5. fp' \in [Host -> Fp] BY <3>0, <4>3, <4>4 DEF Fp
        <4>q. QED BY <2>1, <3>0, <3>1, <4>4, <4>5
      <3>2. CASE /\ rows[h] # None /\ UNCHANGED fp
                 /\ \E ok \in BOOLEAN :
                      rows' = [rows EXCEPT ![h].fp = IF ok THEN fp[h] ELSE Nothing,
                                           ![h].bad = ~ok, ![h].old = FALSE]
        <4>1. PICK ok \in BOOLEAN :
                rows' = [rows EXCEPT ![h].fp = IF ok THEN fp[h] ELSE Nothing,
                                     ![h].bad = ~ok, ![h].old = FALSE]
          BY <3>2
        <4> DEFINE new == [rows[h] EXCEPT !.fp = IF ok THEN fp[h] ELSE Nothing,
                                          !.bad = ~ok, !.old = FALSE]
        <4>2. rows[h] \in Row BY <3>0, <3>2
        <4>3. fp[h] \in Fp /\ Nothing \in Fp BY <3>0 DEF Nothing, Fp
        <4>4. new \in Row BY <4>2, <4>3 DEF Row
        <4>5. rows' = [rows EXCEPT ![h] = new] BY <3>0, <4>1
        <4> HIDE DEF new
        <4>q. QED BY <2>1, <3>0, <3>2, <4>4, <4>5
      <3>q. QED BY <1>5, <3>1, <3>2 DEF Alter
    <2>3. ResolverTypeOK' BY <2>1 DEF Change, Typed, TypeOK, ResolverTypeOK
    <2>4. Typed' BY <1>2, <2>1, <2>2, <2>3 DEF Typed, TypeOK
    <2>q. QED BY <2>1, <2>2, <2>4 DEF Beside, Change, tools
  <1>6. ASSUME NEW v \in Vm, Adopt(v) PROVE Beside
    <2>1. /\ Change /\ adopted' = adopted \cup {v}
          /\ UNCHANGED <<member, registry, secret, fp, rows, hurt, pulled, stirred>>
      BY <1>6 DEF Adopt
    <2>2. ResolverTypeOK' BY <2>1 DEF Change, Typed, TypeOK, ResolverTypeOK
    <2>3. Typed' BY <1>2, <2>1, <2>2 DEF Typed, TypeOK
    <2>q. QED BY <2>1, <2>3 DEF Beside, Change, tools
  <1>q. QED BY <1>1, <1>3, <1>4, <1>5, <1>6 DEF Elsewhere

-----------------------------------------------------------------------------
(* The base is kept.                                                       *)

LEMMA BaseBeside ==
  ASSUME Base, Beside PROVE Base'
  <1>0. UNCHANGED scan /\ Typed' BY DEF Beside
  <1>1. Order' BY <1>0 DEF Base, Order, Beside, scan, Probed, Answered
  <1>2. Stages'
    <2>1. Pools' \subseteq Pools /\ (~pulled' => ~pulled /\ Pools' = Pools) BY DEF Beside, Pools
    <2>q. QED BY <1>0, <2>1 DEF Base, Stages, Beside, scan
  <1>3. Led' BY <1>0 DEF Base, Led, Beside, scan, Misled
  <1>q. QED BY <1>0, <1>1, <1>2, <1>3 DEF Base

LEMMA BaseStart ==
  ASSUME Base, NEW node \in Host \cup {None}, Start(node) PROVE Base'
  <1>0. /\ phase = "idle" /\ phase' = "probe"
        /\ snap' = [h \in Host |-> IF node \in {h, None} THEN rows[h] ELSE None]
        /\ known' = IF node = None THEN adopted ELSE {}
        /\ work' = [h \in Host |-> IF snap'[h] = None THEN Idle ELSE [Idle EXCEPT !.at = "due"]]
        /\ astray' = {h \in Host : Misled(h)}
        /\ hurt' = {} /\ pulled' = FALSE /\ stirred' = {} /\ blind' = {} /\ restless' = {}
        /\ UNCHANGED <<resolver, tools, outside, tried, probe, bucket, unknown>>
    BY DEF Start
  <1>1. Calling' BY <1>0 DEF Base, Typed, Calling, ResolverTypeOK, ToolsTypeOK, resolver, tools
  <1>2. TypeOK'
    <2>1. snap' \in [Host -> Row \cup {None}] BY <1>0 DEF Base, Typed, TypeOK
    <2>2. work' \in [Host -> [at : {"due", "walk", "got", "again", "ask", "end"},
                             by : Entry \cup {None}, pools : SUBSET Entry]]
      BY <1>0 DEF Idle
    <2>3. known' \subseteq Vm BY <1>0 DEF Base, Typed, TypeOK, outside
    <2>q. QED BY <1>0, <1>1, <2>1, <2>2, <2>3 DEF Base, Typed, TypeOK, outside, Calling
  <1>3. Order'
    <2>1. tried' = {} /\ \A h \in Host : bucket'[h] = None BY <1>0 DEF Base, Order
    <2>2. \A h \in Host : \/ snap'[h] = None /\ work'[h] = Idle
                          \/ snap'[h] # None /\ work'[h].at = "due"
      BY <1>0 DEF Idle
    <2>q. QED BY <1>0, <2>1, <2>2 DEF Order, Idle
  <1>4. Stages' BY <1>0 DEF Stages, Idle
  <1>5. Led' BY <1>0 DEF Led, Misled, resolver
  <1>q. QED BY <1>1, <1>2, <1>3, <1>4, <1>5 DEF Base, Typed

LEMMA BaseProbe ==
  ASSUME Base, NEW h \in Host, NEW ks \in SUBSET Key, Probe(h, ks) PROVE Base'
  <1>0. /\ phase = "probe" /\ h \in Probed /\ tried' = tried \cup {h}
        /\ probe' = [probe EXCEPT ![h] = Seen(h, ks)]
        /\ blind' \in {blind, blind \cup {h}}
        /\ UNCHANGED <<resolver, tools, outside, phase, snap, known, work, bucket, unknown,
                       astray, hurt, pulled, stirred, restless>>
    BY DEF Probe
  <1>1. Calling' BY <1>0 DEF Base, Typed, Calling, ResolverTypeOK, ToolsTypeOK, resolver, tools
  <1>2. TypeOK'
    <2>1. fp \in [Host -> Fp] /\ probe \in [Host -> Fp] BY DEF Base, Typed, TypeOK
    <2>2. Seen(h, ks) \in Fp BY <2>1 DEF Seen, Fp
    <2>3. probe' \in [Host -> Fp] BY <1>0, <2>1, <2>2
    <2>4. tried' \subseteq Host /\ blind' \subseteq Host BY <1>0 DEF Base, Typed, TypeOK
    <2>q. QED BY <1>0, <1>1, <2>3, <2>4 DEF Base, Typed, TypeOK, outside, Calling
  <1>3. Order' BY <1>0 DEF Base, Order, Probed, Answered
  <1>4. Stages' BY <1>0 DEF Base, Stages, Pools, resolver
  <1>5. Led' BY <1>0 DEF Base, Led, Misled, resolver
  <1>q. QED BY <1>1, <1>2, <1>3, <1>4, <1>5 DEF Base, Typed

LEMMA BaseEndProbes ==
  ASSUME Base, EndProbes PROVE Base'
  <1>0. /\ phase = "probe" /\ phase' = "rows"
        /\ \/ tried = Probed /\ UNCHANGED <<probe, blind>>
           \/ probe' = [h \in Host |-> Nothing] /\ blind' = Host
        /\ UNCHANGED <<resolver, tools, outside, snap, known, tried, work, bucket, unknown,
                       astray, hurt, pulled, stirred, restless>>
    BY DEF EndProbes
  <1>1. Calling' BY <1>0 DEF Base, Typed, Calling, ResolverTypeOK, ToolsTypeOK, resolver, tools
  <1>2. TypeOK'
    <2>1. Nothing \in Fp BY DEF Nothing, Fp
    <2>2. probe' \in [Host -> Fp] /\ blind' \subseteq Host BY <1>0, <2>1 DEF Base, Typed, TypeOK
    <2>q. QED BY <1>0, <1>1, <2>2 DEF Base, Typed, TypeOK, outside, Calling
  <1>3. Order' BY <1>0 DEF Base, Order, Probed, Answered
  <1>4. Stages' BY <1>0 DEF Base, Stages, Pools, resolver
  <1>5. Led' BY <1>0 DEF Base, Led, Misled, resolver
  <1>q. QED BY <1>1, <1>2, <1>3, <1>4, <1>5 DEF Base, Typed

\* The record of h is settled, or the scan goes on with it: nothing else that the
\* base is about changes.
LEMMA BaseOfOne ==
  ASSUME Base, NEW h \in Host, ResolverTypeOK', UNCHANGED <<tools, outside>>,
         UNCHANGED <<phase, snap, known, tried, probe, registry, explicit, pulled, astray, blind,
                    stirred, restless, member>>,
         \A g \in Host : cached'[g] \in {cached[g], member[g]},
         hurt \subseteq hurt', hurt' \subseteq Host, unknown' \subseteq Host \X Vm,
         phase \in {"rows", "list"}, snap[h] # None, work[h].at # "end",
         NEW w, work' = [work EXCEPT ![h] = w],
         w \in [at : {"walk", "got", "again", "ask", "end"},
                by : Entry \cup {None}, pools : SUBSET Entry],
         w.at = "end" => w = Idle,
         w.at # "end" => ~snap[h].bad /\ UNCHANGED bucket,
         w.at \in {"walk", "again"} => snap[h].binding = None /\ w.pools = Pools,
         w.at \in {"got", "again"} => explicit /\ w.by = None,
         NEW b \in Bucket \cup {None}, bucket' = [bucket EXCEPT ![h] = b],
         phase = "list" => UNCHANGED bucket
  PROVE  Base'
  <1>1. Calling' BY DEF Base, Typed, Calling, ToolsTypeOK, tools
  <1>2. TypeOK'
    <2>1. work' \in [Host -> [at : {"due", "walk", "got", "again", "ask", "end"},
                             by : Entry \cup {None}, pools : SUBSET Entry]]
      BY DEF Base, Typed, TypeOK
    <2>2. bucket' \in [Host -> Bucket \cup {None}] BY DEF Base, Typed, TypeOK
    <2>q. QED BY <1>1, <2>1, <2>2 DEF Base, Typed, TypeOK, outside, Calling
  <1>3. \A g \in Host : work'[g] = IF g = h THEN w ELSE work[g]
    BY DEF Base, Typed, TypeOK
  <1>4. Order'
    <2>1. phase = "list" => h \in Answered /\ Answered' = Answered
      BY DEF Base, Order, Answered, Idle
    <2>2. Probed' = Probed BY DEF Probed
    <2>q. QED BY <1>3, <2>1, <2>2 DEF Base, Order
  <1>5. Stages'
    <2>1. Pools' = Pools BY DEF Pools
    <2>2. Pools \subseteq Clusters BY EntriesDiffer
    <2>q. QED BY <1>3, <2>1, <2>2 DEF Base, Stages
  <1>6. Led' BY DEF Base, Led, Misled
  <1>q. QED BY <1>1, <1>2, <1>4, <1>5, <1>6 DEF Base, Typed

LEMMA IdleType ==
  Idle \in [at : {"walk", "got", "again", "ask", "end"}, by : Entry \cup {None},
            pools : SUBSET Entry]
  BY DEF Idle

LEMMA BaseDegenerate ==
  ASSUME Base, NEW h \in Host, Degenerate(h) PROVE Base'
  <1>1. /\ phase = "rows" /\ work[h].at = "due"
        /\ work' = [work EXCEPT ![h] = Idle] /\ bucket' = [bucket EXCEPT ![h] = "degenerate"]
        /\ UNCHANGED <<resolver, tools, outside, phase, snap, known, tried, probe, unknown,
                       history>>
    BY DEF Degenerate, Turn, Settle
  <1>2. ResolverTypeOK' BY <1>1 DEF Base, Typed, Calling, ResolverTypeOK, resolver
  <1>3. snap[h] # None BY <1>1 DEF Base, Order
  <1>4. "degenerate" \in Bucket \cup {None} /\ Idle.at = "end" BY DEF Bucket, Idle
  <1>5. hurt \subseteq Host /\ unknown \subseteq Host \X Vm BY DEF Base, Typed, TypeOK
  <1>q. QED BY <1>1, <1>2, <1>3, <1>4, <1>5, IdleType, BaseOfOne DEF resolver, history

LEMMA BaseAdvances ==
  ASSUME Base, NEW h \in Host, NEW harmed \in BOOLEAN, Advances(h, harmed) PROVE Base'
  <1>1. /\ phase \in {"rows", "list"} /\ work[h].at # "end"
        /\ snap[h] # None /\ ~snap[h].bad
        /\ ResolverTypeOK' /\ \A g \in Host : cached'[g] \in {cached[g], member[g]}
        /\ UNCHANGED <<member, registry, explicit, tools, outside, phase, snap, known,
                       tried, probe, unknown, astray, pulled, stirred, blind, restless>>
        /\ hurt' \in {hurt, hurt \cup {h}}
    BY DEF Advances, Frame, Harm
  <1>2. /\ hurt \subseteq hurt' /\ hurt' \subseteq Host /\ unknown' \subseteq Host \X Vm
        /\ bucket[h] \in Bucket \cup {None} /\ bucket = [bucket EXCEPT ![h] = bucket[h]]
        /\ work[h].by \in Entry \cup {None} /\ Pools \subseteq Entry
    BY <1>1, EntriesDiffer DEF Base, Typed, TypeOK
  <1>3. CASE StartsWalk(h, harmed)
    <2>1. PICK at \in {"walk", "again"} :
            /\ Goes(h, at, work[h].by) /\ snap[h].binding = None
            /\ at = "again" => explicit /\ work[h].by = None
      BY <1>3 DEF StartsWalk
    <2> DEFINE w == [at |-> at, by |-> work[h].by, pools |-> Pools]
    <2>2. work' = [work EXCEPT ![h] = w] /\ UNCHANGED bucket BY <2>1 DEF Goes
    <2>3. /\ w \in [at : {"walk", "got", "again", "ask", "end"}, by : Entry \cup {None},
                    pools : SUBSET Entry]
          /\ w.at = at /\ w.by = work[h].by /\ w.pools = Pools
      BY <1>2
    <2> HIDE DEF w
    <2>q. QED BY <1>1, <1>2, <2>1, <2>2, <2>3, BaseOfOne
  <1>4. CASE HasClient(h)
    <2>1. PICK at \in {"got", "ask"}, by \in Entry \cup {None} :
            Goes(h, at, by) /\ (at = "got" => explicit /\ by = None)
      BY <1>4 DEF HasClient
    <2> DEFINE w == [at |-> at, by |-> by, pools |-> Pools]
    <2>2. work' = [work EXCEPT ![h] = w] /\ UNCHANGED bucket BY <2>1 DEF Goes
    <2>3. /\ w \in [at : {"walk", "got", "again", "ask", "end"}, by : Entry \cup {None},
                    pools : SUBSET Entry]
          /\ w.at = at /\ w.by = by /\ w.pools = Pools
      BY <1>2
    <2> HIDE DEF w
    <2>q. QED BY <1>1, <1>2, <2>1, <2>2, <2>3, BaseOfOne
  <1>5. CASE GivesUp(h, harmed)
    <2>1. work' = [work EXCEPT ![h] = Idle] /\ Idle.at = "end" BY <1>5 DEF GivesUp, Idle
    <2>2. PICK b \in Bucket \cup {None} :
            bucket' = [bucket EXCEPT ![h] = b] /\ (phase = "list" => UNCHANGED bucket)
      BY <1>2, <1>5 DEF GivesUp
    <2>q. QED BY <1>1, <1>2, <2>1, <2>2, IdleType, BaseOfOne
  <1>q. QED BY <1>3, <1>4, <1>5 DEF Advances

LEMMA BaseAsk ==
  ASSUME Base, NEW h \in Host, NEW answers \in BOOLEAN, Ask(h, answers) \/ List(h, answers)
  PROVE  Base'
  <1>1. /\ phase \in {"rows", "list"} /\ work[h].at = "ask"
        /\ work' = [work EXCEPT ![h] = Idle] /\ Idle.at = "end"
        /\ hurt' \in {hurt, hurt \cup {h}}
        /\ UNCHANGED <<resolver, tools, outside, phase, snap, known, tried, probe,
                       astray, pulled, stirred, blind, restless>>
    BY DEF Ask, List, Settle, Harm, Idle
  <1>2. ResolverTypeOK' BY <1>1 DEF Base, Typed, Calling, ResolverTypeOK, resolver
  <1>3. snap[h] # None BY <1>1 DEF Base, Order
  <1>4. /\ hurt' \subseteq Host /\ bucket \in [Host -> Bucket \cup {None}]
        /\ unknown \subseteq Host \X Vm
    BY <1>1 DEF Base, Typed, TypeOK
  <1>5. CASE Ask(h, answers)
    <2>1. PICK b \in {"missing", "unreachable", "changed", "probed_ok"} :
            bucket' = [bucket EXCEPT ![h] = b]
      BY <1>5 DEF Ask, Settle, Unreachable
    <2>2. b \in Bucket \cup {None} BY DEF Bucket
    <2>3. phase = "rows" /\ UNCHANGED unknown BY <1>5 DEF Ask
    <2>q. QED BY <1>1, <1>2, <1>3, <1>4, <2>1, <2>2, <2>3, IdleType, BaseOfOne DEF resolver
  <1>6. CASE List(h, answers)
    <2>1. bucket' = [bucket EXCEPT ![h] = bucket[h]] BY <1>6 DEF List, Settle
    <2>2. UNCHANGED bucket /\ bucket[h] \in Bucket \cup {None} BY <1>4, <2>1
    <2>3. unknown' \subseteq Host \X Vm BY <1>4, <1>6 DEF List, Unknown
    <2>q. QED BY <1>1, <1>2, <1>3, <1>4, <2>1, <2>2, <2>3, IdleType, BaseOfOne DEF resolver
  <1>q. QED BY <1>5, <1>6

LEMMA BaseEnumerate ==
  ASSUME Base, Enumerate PROVE Base'
  <1>1. /\ phase = "rows" /\ phase' = "list"
        /\ UNCHANGED <<resolver, tools, outside, snap, known, tried, probe, bucket, unknown,
                       history>>
    BY DEF Enumerate
  <1>2. PICK targets \in SUBSET Answered :
          work' = [h \in Host |-> IF h \in targets THEN [Idle EXCEPT !.at = "due"] ELSE Idle]
    BY DEF Enumerate
  <1>3. Calling' BY <1>1 DEF Base, Typed, Calling, ResolverTypeOK, ToolsTypeOK, resolver, tools
  <1>4. TypeOK'
    <2>1. work' \in [Host -> [at : {"due", "walk", "got", "again", "ask", "end"},
                             by : Entry \cup {None}, pools : SUBSET Entry]]
      BY <1>2 DEF Idle
    <2>q. QED BY <1>1, <1>3, <2>1 DEF Base, Typed, TypeOK, outside, history, Calling
  <1>5. Order'
    <2>1. \A h \in Answered : snap[h] # None BY NoBucket DEF Base, Order, Answered, Bucket
    <2>2. \A h \in Host : work'[h] = Idle \/ (h \in Answered /\ work'[h].at = "due")
      BY <1>2 DEF Idle
    <2>3. Probed' = Probed /\ Answered' = Answered BY <1>1 DEF Probed, Answered
    <2>4. /\ tried' \subseteq Probed' /\ Probed' \ blind' \subseteq tried'
      BY <1>1, <2>3 DEF Base, Order, history
    <2>5. \A h \in Host :
            /\ work'[h] = Idle \/ (h \in Answered' /\ work'[h].at = "due")
            /\ work'[h].at # "end" \/ bucket'[h] # None => snap'[h] # None
            /\ Idle.at = "end"
      BY <1>1, <2>1, <2>2, <2>3 DEF Base, Order, Idle
    <2>q. QED BY <1>1, <2>4, <2>5 DEF Order
  <1>6. Stages' BY <1>1, <1>2 DEF Stages, Idle
  <1>7. Led' BY <1>1 DEF Base, Led, Misled, resolver, history
  <1>q. QED BY <1>3, <1>4, <1>5, <1>6, <1>7 DEF Base, Typed

LEMMA BaseFinish ==
  ASSUME Base, Finish PROVE Base'
  <1>1. /\ phase = "list" /\ phase' = "done" /\ \A h \in Host : work[h] = Idle
        /\ UNCHANGED <<resolver, tools, outside, snap, known, tried, probe, work, bucket, unknown,
                       history>>
    BY DEF Finish
  <1>2. Calling' BY <1>1 DEF Base, Typed, Calling, ResolverTypeOK, ToolsTypeOK, resolver, tools
  <1>3. TypeOK' BY <1>1, <1>2 DEF Base, Typed, TypeOK, outside, history, Calling
  <1>4. Order' BY <1>1 DEF Base, Order, Probed, Answered, history
  <1>5. Stages' BY <1>1 DEF Base, Stages, Pools, resolver, history
  <1>6. Led' BY <1>1 DEF Base, Led, Misled, resolver, history
  <1>q. QED BY <1>2, <1>3, <1>4, <1>5, <1>6 DEF Base, Typed

LEMMA BaseStutter ==
  ASSUME Base, UNCHANGED vars PROVE Base'
  <1>1. Calling'
    BY DEF vars, Base, Typed, Calling, ResolverTypeOK, ToolsTypeOK, resolver, tools
  <1>2. TypeOK' BY <1>1 DEF vars, Base, Typed, TypeOK, Calling, outside, scan, history
  <1>3. Order' BY DEF vars, Base, Order, Probed, Answered, scan, history
  <1>4. Stages' BY DEF vars, Base, Stages, Pools, resolver, scan, history
  <1>5. Led' BY DEF vars, Base, Led, Misled, resolver, scan, history
  <1>q. QED BY <1>1, <1>2, <1>3, <1>4, <1>5 DEF Base, Typed

LEMMA BaseInit ==
  ASSUME Init PROVE Base
  <1>1. Calling
    <2>1. ResolverTypeOK BY DEF Init, ResolverInit, ResolverTypeOK
    <2>2. \A h \in Host : SiteOf(h) \in Entry BY <2>1 DEF SiteOf, Entry, ResolverTypeOK
    <2>3. vm \in [Vm -> {None} \cup [site : {SiteOf(h) : h \in Host}, power : {"on", "off"}]]
      BY DEF Init, ToolsInit
    <2>4. [site : {SiteOf(h) : h \in Host}, power : {"on", "off"}]
            \subseteq [site : Entry, power : {"on", "stopping", "off"}]
      BY <2>2
    <2>5. vm \in [Vm -> {None} \cup
                    [site : Entry, power : {"on", "stopping", "off"}]]
      BY <2>3, <2>4
    <2>6. calls \in 0..MaxCalls /\ call = None BY ToolsAssumption DEF Init, ToolsInit
    <2>q. QED BY <2>1, <2>5, <2>6 DEF Calling, ToolsTypeOK
  <1>2. TypeOK
    <2>1. Nothing \in Fp BY DEF Nothing, Fp
    <2>2. changes \in 0..MaxChanges BY ScanAssumption DEF Init
    <2>3. rows \in [Host -> Row \cup {None}]
      BY DEF Init
    <2>q. QED BY <1>1, <2>1, <2>2, <2>3 DEF Init, TypeOK, Calling, Idle
  <1>3. Order BY NoBucket DEF Init, Order, Idle, Probed
  <1>4. Stages BY DEF Init, Stages, Idle
  <1>5. Led BY DEF Init, Led
  <1>q. QED BY <1>1, <1>2, <1>3, <1>4, <1>5 DEF Base, Typed

LEMMA Steps ==
  ASSUME Next
  PROVE  \/ \E node \in Host \cup {None} : Start(node)
         \/ \E h \in Host, ks \in SUBSET Key : Probe(h, ks)
         \/ EndProbes \/ Enumerate \/ Finish
         \/ \E h \in Host : Degenerate(h) \/ Look(h)
         \/ \E h \in Host, answers \in BOOLEAN : Ask(h, answers) \/ List(h, answers)
         \/ Elsewhere
  BY DEF Next, Scan, Look

LEMMA BaseNext ==
  ASSUME Base, [Next]_vars PROVE Base'
  <1>1. ASSUME NEW h \in Host, Look(h) PROVE Base' BY <1>1, Looking, BaseAdvances
  <1>2. ASSUME Elsewhere PROVE Base' BY <1>2, ElsewhereIsBeside, BaseBeside DEF Base
  <1>q. QED BY <1>1, <1>2, Steps, BaseStutter, BaseStart, BaseProbe, BaseEndProbes, BaseEnumerate,
              BaseFinish, BaseDegenerate, BaseAsk

-----------------------------------------------------------------------------
(* The drift that is reported.                                             *)

\* Of what has not changed since, the scan has the row and what the probe found of it:
\* nothing wrong, and, unless a part was missed, all.
Faithful ==
  \A h \in Host \ stirred :
    /\ snap[h] # None => snap[h] = rows[h]
    /\ \A k \in Key : probe[h][k] \in {None, fp[h][k]}
    /\ h \in tried \ blind => probe[h] = fp[h]

Differs(h) == snap[h].fp # Nothing /\ Diff(snap[h].fp, probe[h]) # {}

\* The bucket of a host that answered is still that of what the scan has of it.
Sorted == \A h \in Answered : bucket[h] = "changed" <=> Differs(h)

\* Steps that change nothing that the comparison is about.
LEMMA FaithfulStays ==
  ASSUME Faithful, UNCHANGED <<stirred, snap, rows, probe, fp, tried, blind>>
  PROVE  Faithful'
  BY DEF Faithful

LEMMA SortedStays ==
  ASSUME Sorted, UNCHANGED <<snap, probe>>,
         \A h \in Host : bucket'[h] = bucket[h] \/ bucket'[h] \notin {"probed_ok", "changed"}
  PROVE  Sorted'
  <1>1. \A h \in Answered' : h \in Answered /\ bucket'[h] = bucket[h] BY DEF Answered
  <1>2. \A h \in Host : Differs(h)' <=> Differs(h) BY DEF Differs, Diff
  <1>q. QED BY <1>1, <1>2 DEF Sorted, Answered

LEMMA NoneAnswered ==
  ASSUME Base, phase \in {"idle", "probe"} PROVE Answered = {}
  BY NoBucket DEF Base, Order, Answered, Bucket

LEMMA RealStart ==
  ASSUME Base, NEW node \in Host \cup {None}, Start(node) PROVE Faithful' /\ Sorted'
  <1>1. /\ phase = "idle" /\ phase' = "probe"
        /\ snap' = [h \in Host |-> IF node \in {h, None} THEN rows[h] ELSE None]
        /\ UNCHANGED <<fp, rows, tried, probe, bucket>>
    BY DEF Start, outside
  <1>2. tried = {} /\ probe = [h \in Host |-> Nothing] BY <1>1 DEF Base, Order
  <1>3. Answered' = {} BY <1>1, BaseStart, NoneAnswered DEF Answered
  <1>4. Faithful' BY <1>1, <1>2 DEF Faithful, Nothing
  <1>q. QED BY <1>3, <1>4 DEF Sorted

LEMMA RealProbe ==
  ASSUME Base, Faithful, NEW h \in Host, NEW ks \in SUBSET Key, Probe(h, ks)
  PROVE  Faithful' /\ Sorted'
  <1>1. /\ phase = "probe" /\ h \notin tried /\ tried' = tried \cup {h}
        /\ probe' = [probe EXCEPT ![h] = Seen(h, ks)]
        /\ blind' = IF ks = Key THEN blind ELSE blind \cup {h}
        /\ UNCHANGED <<fp, rows, snap, bucket, stirred>>
    BY DEF Probe, outside
  <1>2. probe \in [Host -> Fp] /\ fp[h] \in [Key -> Value \cup {None}]
    BY DEF Base, Typed, TypeOK, Fp
  <1>3. \A k \in Key : Seen(h, ks)[k] \in {None, fp[h][k]} BY DEF Seen
  <1>4. ks = Key => Seen(h, ks) = fp[h] BY <1>2 DEF Seen
  <1>5. Faithful'
    <2> SUFFICES ASSUME NEW g \in Host \ stirred'
                 PROVE  /\ snap'[g] # None => snap'[g] = rows'[g]
                        /\ \A k \in Key : probe'[g][k] \in {None, fp'[g][k]}
                        /\ g \in tried' \ blind' => probe'[g] = fp'[g]
      BY DEF Faithful
    <2>1. CASE g = h BY <1>1, <1>2, <1>3, <1>4, <2>1 DEF Faithful
    <2>2. CASE g # h BY <1>1, <1>2, <2>2 DEF Faithful
    <2>q. QED BY <2>1, <2>2
  <1>6. Sorted' BY <1>1, NoneAnswered DEF Sorted, Answered
  <1>q. QED BY <1>5, <1>6

LEMMA RealEndProbes ==
  ASSUME Base, Faithful, EndProbes PROVE Faithful' /\ Sorted'
  <1>1. /\ phase = "probe"
        /\ \/ UNCHANGED <<probe, blind>>
           \/ probe' = [h \in Host |-> Nothing] /\ blind' = Host
        /\ UNCHANGED <<fp, rows, snap, tried, bucket, stirred>>
    BY DEF EndProbes, outside
  <1>2. Sorted' BY <1>1, NoneAnswered DEF Sorted, Answered
  <1>3. CASE UNCHANGED <<probe, blind>> BY <1>1, <1>2, <1>3, FaithfulStays
  <1>4. CASE probe' = [h \in Host |-> Nothing] /\ blind' = Host
    BY <1>1, <1>2, <1>4 DEF Faithful, Nothing
  <1>q. QED BY <1>1, <1>3, <1>4

LEMMA RealAsk ==
  ASSUME Base, Sorted, NEW h \in Host, NEW answers \in BOOLEAN, Ask(h, answers)
  PROVE  Sorted'
  <1>1. PICK b : /\ bucket' = [bucket EXCEPT ![h] = b]
                 /\ \/ b \in {"missing", "unreachable"}
                    \/ b = IF Differs(h) THEN "changed" ELSE "probed_ok"
    BY DEF Ask, Settle, Unreachable, Differs
  <1>2. \A g \in Host : bucket'[g] = IF g = h THEN b ELSE bucket[g]
    BY <1>1 DEF Base, Typed, TypeOK
  <1>3. \A g \in Host : Differs(g)' <=> Differs(g) BY DEF Ask, Differs, Diff
  <1>q. QED BY <1>1, <1>2, <1>3 DEF Sorted, Answered

LEMMA RealNext ==
  ASSUME Base, Faithful, Sorted, [Next]_vars PROVE Faithful' /\ Sorted'
  <1>0. bucket \in [Host -> Bucket \cup {None}] BY DEF Base, Typed, TypeOK
  <1>1. CASE UNCHANGED vars
    BY <1>1, FaithfulStays, SortedStays DEF vars, outside, scan, history
  <1>2. CASE Enumerate \/ Finish
    BY <1>2, FaithfulStays, SortedStays DEF Enumerate, Finish, outside, history
  <1>3. ASSUME NEW h \in Host, Degenerate(h) PROVE Faithful' /\ Sorted'
    <2>1. UNCHANGED <<stirred, snap, rows, probe, fp, tried, blind>>
      BY <1>3 DEF Degenerate, outside, history
    <2>2. bucket' = [bucket EXCEPT ![h] = "degenerate"] BY <1>3 DEF Degenerate, Settle
    <2>3. \A g \in Host : bucket'[g] = bucket[g] \/ bucket'[g] \notin {"probed_ok", "changed"}
      BY <1>0, <2>2
    <2>q. QED BY <2>1, <2>3, FaithfulStays, SortedStays
  <1>4. ASSUME NEW h \in Host, NEW harmed \in BOOLEAN, Advances(h, harmed)
        PROVE  Faithful' /\ Sorted'
    <2>1. UNCHANGED <<stirred, snap, rows, probe, fp, tried, blind>>
      BY <1>4 DEF Advances, Frame, outside
    <2>2. \A g \in Host : bucket'[g] = bucket[g] \/ bucket'[g] \notin {"probed_ok", "changed"}
      <3>1. CASE StartsWalk(h, harmed) \/ HasClient(h)
        BY <3>1 DEF StartsWalk, HasClient, Goes
      <3>2. CASE GivesUp(h, harmed) BY <1>0, <3>2 DEF GivesUp
      <3>q. QED BY <1>4, <3>1, <3>2 DEF Advances
    <2>q. QED BY <2>1, <2>2, FaithfulStays, SortedStays
  <1>5. ASSUME NEW h \in Host, NEW answers \in BOOLEAN, Ask(h, answers)
        PROVE  Faithful' /\ Sorted'
    <2>1. UNCHANGED <<stirred, snap, rows, probe, fp, tried, blind>>
      BY <1>5 DEF Ask, outside
    <2>q. QED BY <1>5, <2>1, FaithfulStays, RealAsk
  <1>6. ASSUME NEW h \in Host, NEW answers \in BOOLEAN, List(h, answers)
        PROVE  Faithful' /\ Sorted'
    <2>1. UNCHANGED <<stirred, snap, rows, probe, fp, tried, blind>>
      BY <1>6 DEF List, outside
    <2>2. bucket' = [bucket EXCEPT ![h] = bucket[h]] BY <1>6 DEF List, Settle
    <2>3. bucket' = bucket BY <1>0, <2>2
    <2>q. QED BY <2>1, <2>3, FaithfulStays, SortedStays
  <1>7. CASE Elsewhere
    <2>1. Beside BY <1>7, ElsewhereIsBeside DEF Base
    <2>2. Faithful' BY <2>1 DEF Beside, Faithful, scan
    <2>3. Sorted' BY <2>1, SortedStays DEF Beside, scan
    <2>q. QED BY <2>2, <2>3
  <1>q. QED BY <1>1, <1>2, <1>3, <1>4, <1>5, <1>6, <1>7, Steps, Looking, RealStart, RealProbe,
              RealEndProbes

\* The base holds in every state of every behaviour.
LEMMA BaseAlways == Spec => []Base
  <1>1. Init => Base BY BaseInit
  <1>2. Base /\ [Next]_vars => Base' BY BaseNext
  <1>q. QED BY <1>1, <1>2, PTL DEF Spec

\* Every variable of the scan, of the tools and of the resolver keeps its type.
THEOREM TypeCorrect == Spec => []TypeOK
  <1>1. Base => TypeOK BY DEF Base, Typed
  <1>q. QED BY <1>1, BaseAlways, PTL

\* The bucket "changed" of scan_drift has the machines that drifted, and no others, of
\* those that did not change while the scan ran.
THEOREM DriftReported == Spec => []DriftIsReal
  <1> DEFINE Inv == Base /\ Faithful /\ Sorted
  <1>1. Init => Inv
    <2>1. ASSUME Init PROVE Inv
      <3>1. Base BY <2>1, BaseInit
      <3>2. Faithful BY <2>1 DEF Init, Faithful, Nothing
      <3>3. Answered = {} BY <2>1, <3>1, NoneAnswered DEF Init
      <3>q. QED BY <3>1, <3>2, <3>3 DEF Sorted
    <2>q. QED BY <2>1
  <1>2. Inv /\ [Next]_vars => Inv' BY BaseNext, RealNext
  <1>3. Inv => DriftIsReal
    <2> SUFFICES ASSUME Inv, phase \in {"list", "done"}, NEW h \in Answered \ stirred
                 PROVE  LET drifted == rows[h].fp # Nothing
                              /\ \E k \in Key : fp[h][k] # None /\ fp[h][k] # rows[h].fp[k]
                        IN  /\ bucket[h] = "changed" => drifted
                            /\ h \in Probed \ blind /\ drifted => bucket[h] = "changed"
      BY DEF DriftIsReal
    <2>1. h \in Host /\ bucket[h] # None BY NoBucket DEF Answered, Bucket
    <2>2. snap[h] = rows[h] BY <2>1 DEF Faithful, Base, Order
    <2>3. bucket[h] = "changed" <=> Differs(h) BY DEF Sorted
    <2>4. \A k \in Key : probe[h][k] \in {None, fp[h][k]} BY <2>1 DEF Faithful
    <2>5. h \in Probed \ blind => probe[h] = fp[h] BY <2>1 DEF Faithful, Base, Order
    <2>q. QED BY <2>2, <2>3, <2>4, <2>5 DEF Differs, Diff
  <1> HIDE DEF Inv
  <1>q. QED BY <1>1, <1>2, <1>3, PTL DEF Spec

-----------------------------------------------------------------------------
(* The hosts that are found well.                                          *)

Prospect(h) == snap[h] # None /\ ~snap[h].bad /\ h \notin hurt /\ Served(h)

Eligible ==
  \A h \in Host :
    Prospect(h) => h \in Answered \/ (phase \in {"probe", "rows"} /\ OnItsWay(h))

\* For a host that the step is not about only its work and its bucket count, and these
\* stay.
LEMMA ProspectStays ==
  ASSUME Base, NEW h \in Host,
         Prospect(h) => h \in Answered \/ (phase \in {"probe", "rows"} /\ OnItsWay(h)),
         snap'[h] = snap[h], astray' = astray, named' = named, hurt \subseteq hurt',
         registry' \subseteq registry, secret' \subseteq secret,
         h \notin hurt' => member'[h] = member[h],
         work'[h] = work[h], bucket'[h] = bucket[h],
         phase' = phase \/ (phase = "probe" /\ phase' = "rows")
  PROVE  (Prospect(h) => h \in Answered \/ (phase \in {"probe", "rows"} /\ OnItsWay(h)))'
  <1>1. ASSUME Prospect(h)' PROVE Prospect(h)
    <2>1. h \notin hurt' /\ member'[h] = member[h] BY <1>1 DEF Prospect
    <2>2. \A e : Accepts(h, e)' <=> Accepts(h, e) BY <2>1 DEF Accepts
    <2>3. Served(h)' => Served(h) BY <2>2 DEF Served
    <2>q. QED BY <1>1, <2>1, <2>3 DEF Prospect
  <1>2. ASSUME Prospect(h)', OnItsWay(h) PROVE OnItsWay(h)'
    <2>1. member'[h] = member[h] BY <1>2 DEF Prospect
    <2>2. Held(Node(h))' => Held(Node(h)) BY DEF Held, Node
    <2>q. QED BY <1>2, <2>1, <2>2 DEF OnItsWay, Admitted, Accepts, Node, Pool
  <1>3. h \in Answered' <=> h \in Answered BY DEF Answered
  <1>q. QED BY <1>1, <1>2, <1>3

LEMMA EligibleAdvances ==
  ASSUME Base, Eligible, NEW h \in Host, NEW harmed \in BOOLEAN, Advances(h, harmed)
  PROVE  Eligible'
  <1>0. /\ work \in [Host -> [at : {"due", "walk", "got", "again", "ask", "end"},
                            by : Entry \cup {None}, pools : SUBSET Entry]]
        /\ bucket \in [Host -> Bucket \cup {None}]
    BY DEF Base, Typed, TypeOK
  <1>1. /\ phase \in {"rows", "list"} /\ work[h].at # "end"
        /\ UNCHANGED <<member, registry, secret, named, explicit, phase, snap, astray>>
        /\ hurt' = IF harmed THEN hurt \cup {h} ELSE hurt
    BY DEF Advances, Frame, Harm
  <1>2. \A g \in Host \ {h} : work'[g] = work[g] /\ bucket'[g] = bucket[g]
    BY <1>0 DEF Advances, StartsWalk, HasClient, GivesUp, Goes
  <1>3. ASSUME NEW g \in Host \ {h}
        PROVE  (Prospect(g) => g \in Answered \/ (phase \in {"probe", "rows"} /\ OnItsWay(g)))'
    BY <1>1, <1>2, ProspectStays DEF Eligible
  <1>4. ASSUME Prospect(h)'
        PROVE  (h \in Answered \/ (phase \in {"probe", "rows"} /\ OnItsWay(h)))'
    <2>1. ~harmed /\ Prospect(h) /\ Served(h)
      BY <1>1, <1>4 DEF Prospect, Served, Accepts
    <2>2. CASE phase = "list"
      <3>1. h \in Answered BY <2>1, <2>2 DEF Eligible
      <3>2. bucket' = bucket
        BY <2>2 DEF Advances, StartsWalk, HasClient, GivesUp, Goes
      <3>q. QED BY <3>1, <3>2 DEF Answered
    <2>3. CASE phase = "rows"
      <3>1. h \notin Answered BY <1>1, <2>3, NoBucket DEF Base, Order, Answered, Bucket
      <3>2. OnItsWay(h) BY <2>1, <3>1 DEF Eligible
      <3>3. CASE StartsWalk(h, harmed)
        <4>1. work'[h].at \in {"walk", "again"} /\ ~Held(Node(h))
          BY <1>0, <2>1, <3>3 DEF StartsWalk, Goes
        <4>2. ~Held(Node(h))' BY <1>1, <4>1 DEF Held, Node
        <4>q. QED BY <1>1, <2>3, <4>1, <4>2 DEF OnItsWay
      <3>4. CASE HasClient(h)
        <4>1. PICK at \in {"got", "ask"}, by \in Entry \cup {None} :
                Goes(h, at, by) /\ ((explicit /\ by = None) \/ Token(h, by))
          BY <3>4 DEF HasClient
        <4>2. work'[h].at = at /\ work'[h].by = by BY <1>0, <4>1 DEF Goes
        <4>3. h \notin astray => ~Misled(h)
          BY <1>1, <2>1 DEF Base, Led, Prospect
        <4>4. Admitted(h, by)
          <5>1. CASE by = None BY <5>1 DEF Admitted
          <5>2. CASE Token(h, by) /\ snap[h].binding # None
            BY <2>1, <5>2 DEF Token, Served, Admitted
          <5>3. CASE Token(h, by) /\ snap[h].binding = None
            <6>1. h \notin astray BY <2>1, <5>3 DEF Served
            <6>2. cached[h] # None => cached[h] = member[h] BY <4>3, <6>1 DEF Misled
            <6>q. QED BY <5>3, <6>2 DEF Token, Admitted, Accepts
          <5>q. QED BY <4>1, <5>1, <5>2, <5>3
        <4>5. Admitted(h, by)' BY <1>1, <4>4 DEF Admitted, Accepts, Node, Pool
        <4>q. QED BY <1>1, <2>3, <4>2, <4>5 DEF OnItsWay, Admitted, Accepts, Node, Pool
      <3>5. CASE GivesUp(h, harmed) BY <2>1, <2>3, <3>2, <3>5 DEF GivesUp
      <3>q. QED BY <3>3, <3>4, <3>5 DEF Advances
    <2>q. QED BY <1>1, <2>2, <2>3
  <1>q. QED BY <1>3, <1>4 DEF Eligible

LEMMA EligibleAsk ==
  ASSUME Base, Eligible, NEW h \in Host, NEW answers \in BOOLEAN, Ask(h, answers)
  PROVE  Eligible'
  <1>1. /\ phase = "rows" /\ work[h].at = "ask" /\ work' = [work EXCEPT ![h] = Idle]
        /\ hurt' = IF answers THEN hurt ELSE hurt \cup {h}
        /\ UNCHANGED <<resolver, phase, snap, astray>>
    BY DEF Ask, Settle, Harm
  <1>2. PICK b : /\ bucket' = [bucket EXCEPT ![h] = b]
                 /\ answers /\ Admitted(h, work[h].by) => b \in {"changed", "probed_ok"}
    BY DEF Ask, Settle
  <1>3. \A g \in Host : /\ g # h => work'[g] = work[g]
                        /\ bucket'[g] = IF g = h THEN b ELSE bucket[g]
    BY <1>1, <1>2 DEF Base, Typed, TypeOK
  <1>4. ASSUME NEW g \in Host \ {h}
        PROVE  (Prospect(g) => g \in Answered \/ (phase \in {"probe", "rows"} /\ OnItsWay(g)))'
    BY <1>1, <1>3, ProspectStays DEF Eligible, resolver
  <1>5. ASSUME Prospect(h)' PROVE h \in Answered'
    <2>1. answers /\ Prospect(h)
      BY <1>1, <1>5 DEF Prospect, Served, Accepts, resolver
    <2>2. h \notin Answered BY <1>1, NoBucket DEF Base, Order, Answered, Bucket
    <2>3. OnItsWay(h) BY <2>1, <2>2 DEF Eligible
    <2>4. Admitted(h, work[h].by) BY <1>1, <2>3 DEF OnItsWay
    <2>q. QED BY <1>2, <1>3, <2>1, <2>4 DEF Answered
  <1>q. QED BY <1>4, <1>5 DEF Eligible

LEMMA EligibleNext ==
  ASSUME Base, Eligible, [Next]_vars PROVE Eligible'
  <1>0. bucket \in [Host -> Bucket \cup {None}] BY DEF Base, Typed, TypeOK
  <1>1. ASSUME NEW node \in Host \cup {None}, Start(node) PROVE Eligible'
    <2>1. \A h \in Host : snap'[h] # None => work'[h].at = "due"
      BY <1>1 DEF Start, Idle
    <2>2. phase' = "probe" BY <1>1 DEF Start
    <2>q. QED BY <2>1, <2>2 DEF Eligible, Prospect, OnItsWay
  <1>2. ASSUME UNCHANGED <<resolver, snap, astray, hurt, work, bucket>>,
               phase' = phase \/ (phase = "probe" /\ phase' = "rows")
        PROVE  Eligible'
    BY <1>2, ProspectStays DEF Eligible, resolver
  <1>3. CASE UNCHANGED vars BY <1>2, <1>3 DEF vars, scan, history
  <1>4. ASSUME NEW h \in Host, NEW ks \in SUBSET Key, Probe(h, ks) PROVE Eligible'
    BY <1>2, <1>4 DEF Probe
  <1>5. CASE EndProbes BY <1>2, <1>5 DEF EndProbes
  <1>6. ASSUME NEW h \in Host, Degenerate(h) PROVE Eligible'
    <2>1. /\ snap[h].bad /\ work' = [work EXCEPT ![h] = Idle]
          /\ bucket' = [bucket EXCEPT ![h] = "degenerate"]
          /\ UNCHANGED <<resolver, phase, snap, astray, hurt>>
      BY <1>6 DEF Degenerate, Settle, history
    <2>2. \A g \in Host \ {h} : work'[g] = work[g] /\ bucket'[g] = bucket[g]
      BY <2>1 DEF Base, Typed, TypeOK
    <2>3. ASSUME NEW g \in Host \ {h}
          PROVE  (Prospect(g) => g \in Answered \/ (phase \in {"probe", "rows"} /\ OnItsWay(g)))'
      BY <2>1, <2>2, ProspectStays DEF Eligible, resolver
    <2>4. ~Prospect(h)' BY <2>1 DEF Prospect
    <2>q. QED BY <2>3, <2>4 DEF Eligible
  <1>7. ASSUME NEW h \in Host, Look(h) PROVE Eligible' BY <1>7, Looking, EligibleAdvances
  <1>8. CASE Enumerate
    <2>1. /\ phase = "rows" /\ \A h \in Host : work[h] = Idle
          /\ UNCHANGED <<resolver, snap, bucket, history>>
      BY <1>8 DEF Enumerate
    <2>2. \A h \in Host : ~OnItsWay(h) BY <2>1 DEF OnItsWay, Idle
    <2>3. \A h \in Host : Prospect(h)' => Prospect(h)
      BY <2>1 DEF Prospect, Served, Accepts, resolver, history
    <2>q. QED BY <2>1, <2>2, <2>3 DEF Eligible, Answered
  <1>9. ASSUME NEW h \in Host, NEW answers \in BOOLEAN, List(h, answers) PROVE Eligible'
    <2>1. /\ phase = "list" /\ UNCHANGED <<resolver, phase, snap, astray>>
          /\ bucket' = [bucket EXCEPT ![h] = bucket[h]] /\ hurt \subseteq hurt'
      BY <1>9 DEF List, Settle, Harm
    <2>2. bucket' = bucket BY <1>0, <2>1
    <2>3. \A g \in Host : Prospect(g)' => Prospect(g)
      BY <2>1 DEF Prospect, Served, Accepts, resolver
    <2>q. QED BY <2>1, <2>2, <2>3 DEF Eligible, Answered
  <1>10. CASE Finish
    <2>1. /\ phase = "list" /\ UNCHANGED <<resolver, snap, bucket, history>>
      BY <1>10 DEF Finish
    <2>2. \A g \in Host : Prospect(g)' => Prospect(g)
      BY <2>1 DEF Prospect, Served, Accepts, resolver, history
    <2>q. QED BY <2>1, <2>2 DEF Eligible, Answered
  <1>11. CASE Elsewhere
    <2>1. Beside BY <1>11, ElsewhereIsBeside DEF Base
    <2>q. QED BY <2>1, ProspectStays DEF Beside, Eligible, scan
  <1>q. QED BY <1>1, <1>3, <1>4, <1>5, <1>6, <1>7, <1>8, <1>9, <1>10, <1>11, Steps, EligibleAsk

\* A host that the registry serves is found well by scan_drift, unless one of its own
\* requests failed or its cluster changed: nothing that other tools leave in the caches
\* can turn it away.
THEOREM EligibleAreProbed == Spec => []EligibleIsProbed
  <1> DEFINE Inv == Base /\ Eligible
  <1>1. Init => Inv
    <2>1. ASSUME Init PROVE Inv
      <3>1. Base BY <2>1, BaseInit
      <3>q. QED BY <2>1, <3>1 DEF Init, Eligible, Prospect
    <2>q. QED BY <2>1
  <1>2. Inv /\ [Next]_vars => Inv' BY BaseNext, EligibleNext
  <1>3. Inv => EligibleIsProbed BY DEF Eligible, Prospect, EligibleIsProbed
  <1> HIDE DEF Inv
  <1>q. QED BY <1>1, <1>2, <1>3, PTL DEF Spec

-----------------------------------------------------------------------------
(* The virtual machines that are listed.                                   *)

Calm(h) == h \notin astray \cup hurt

\* A calm host that was found well can be asked again without a walk.
Provided ==
  ~pulled => \A h \in Host :
    Calm(h) /\ (h \in Answered \/ (work[h].at = "ask" /\ Admitted(h, work[h].by)))
      => explicit \/ Ready(h)

Listed(t) ==
  \A v \in Vm \ (known \cup restless) :
    vm[v] # None /\ vm[v].site = SiteOf(t) => <<t, v>> \in unknown

Handled(t) ==
  \/ work[t].at = "due"
  \/ work[t].at = "ask" /\ Admitted(t, work[t].by)
  \/ Listed(t)

AllCalm == ~pulled /\ Answered \cap (astray \cup hurt) = {}

\* For every host that answered and shares its name with no other site, one of its site
\* has listed its machines, or will.
Listing ==
  phase \in {"list", "done"} /\ AllCalm =>
    \A h \in Answered : OwnName(h) => \E t \in Answered : SiteOf(t) = SiteOf(h) /\ Handled(t)

LEMMA ReadyStays ==
  ASSUME Base, NEW h \in Host, Ready(h), snap'[h] = snap[h], member'[h] = member[h],
         cached'[h] \in {cached[h], member[h]}, UNCHANGED <<registry, secret>>
  PROVE  Ready(h)'
  <1>1. \A e : Accepts(h, e)' <=> Accepts(h, e) BY DEF Accepts
  <1>2. \A e : Held(e)' <=> Held(e) BY DEF Held
  <1>3. \A c : Accepts(h, Pool(c)) => c = member[h] BY EntriesDiffer DEF Accepts
  <1>4. CASE snap[h].binding # None BY <1>1, <1>2, <1>4 DEF Ready
  <1>5. CASE snap[h].binding = None /\ Held(Node(h)) BY <1>2, <1>5 DEF Ready
  <1>6. CASE /\ snap[h].binding = None
             /\ cached[h] # None /\ Held(Pool(cached[h])) /\ Accepts(h, Pool(cached[h]))
    <2>1. cached'[h] = cached[h] BY <1>3, <1>6
    <2>q. QED BY <1>1, <1>2, <1>6, <2>1 DEF Ready
  <1>q. QED BY <1>4, <1>5, <1>6 DEF Ready

\* The claim of Provided about one host, from step to step.
LEMMA ProvidedStays ==
  ASSUME Base, Provided, NEW h \in Host, snap'[h] = snap[h], astray' = astray,
         hurt \subseteq hurt', explicit' = explicit, ~pulled' => ~pulled,
         ~pulled' => UNCHANGED <<registry, secret>>,
         h \notin hurt' => member'[h] = member[h] /\ cached'[h] \in {cached[h], member[h]},
         bucket'[h] = bucket[h] \/ bucket'[h] \notin {"probed_ok", "changed"}
           \/ (work[h].at = "ask" /\ Admitted(h, work[h].by)),
         work'[h] = work[h] \/ work'[h].at # "ask",
         ~pulled', Calm(h)',
         (h \in Answered \/ (work[h].at = "ask" /\ Admitted(h, work[h].by)))'
  PROVE  (explicit \/ Ready(h))'
  <1>1. ~pulled /\ Calm(h) /\ member'[h] = member[h] /\ cached'[h] \in {cached[h], member[h]}
    BY DEF Calm
  <1>2. \A e : Admitted(h, e)' => Admitted(h, e) BY <1>1 DEF Admitted, Accepts
  <1>3. h \in Answered \/ (work[h].at = "ask" /\ Admitted(h, work[h].by))
    BY <1>2 DEF Answered
  <1>4. explicit \/ Ready(h) BY <1>1, <1>3 DEF Provided
  <1>q. QED BY <1>1, <1>4, ReadyStays

\* A calm host takes the token that was found for it, and has it the next time.
LEMMA TokenFits ==
  ASSUME Base, NEW h \in Host, NEW by, Token(h, by), Calm(h), phase # "idle"
  PROVE  /\ snap[h].binding = None => Admitted(h, by)
         /\ Ready(h) => Admitted(h, by)
         /\ ~pulled /\ Admitted(h, by) /\ UNCHANGED <<member, registry, secret, snap>>
              /\ cached'[h] \in {cached[h], member[h]}
              => Ready(h)'
  <1>1. cached[h] # None => cached[h] = member[h] BY DEF Base, Led, Calm, Misled
  <1>2. snap[h].binding = None => Accepts(h, by) BY <1>1 DEF Token, Accepts
  <1>3. snap[h].binding # None => by = snap[h].binding BY DEF Token
  <1>4. ASSUME ~pulled, Admitted(h, by), UNCHANGED <<member, registry, secret, snap>>,
               cached'[h] \in {cached[h], member[h]}
        PROVE  Ready(h)'
    <2>1. Held(by) BY <1>4 DEF Token, Held
    <2>2. \A e : (Accepts(h, e)' <=> Accepts(h, e)) /\ (Held(e)' <=> Held(e))
      BY <1>4 DEF Accepts, Held
    <2>3. CASE snap[h].binding # None BY <1>3, <1>4, <2>1, <2>2, <2>3 DEF Ready, Admitted
    <2>4. CASE snap[h].binding = None /\ by = Node(h) BY <1>4, <2>1, <2>2, <2>4 DEF Ready
    <2>5. CASE snap[h].binding = None /\ cached[h] # None /\ by = Pool(cached[h])
      <3>1. cached'[h] = cached[h] BY <1>1, <1>4, <2>5
      <3>q. QED BY <1>2, <1>4, <2>1, <2>2, <2>5, <3>1 DEF Ready
    <2>6. CASE /\ snap[h].binding = None
               /\ member[h] # None /\ by = Pool(member[h]) /\ cached'[h] = member[h]
      BY <1>2, <1>4, <2>1, <2>2, <2>6 DEF Ready
    <2>q. QED BY <2>3, <2>4, <2>5, <2>6 DEF Token
  <1>5. Ready(h) => Admitted(h, by) BY <1>2, <1>3 DEF Ready, Admitted
  <1>q. QED BY <1>2, <1>4, <1>5 DEF Admitted

LEMMA ProvidedAdvances ==
  ASSUME Base, Provided, NEW h \in Host, NEW harmed \in BOOLEAN, Advances(h, harmed)
  PROVE  Provided'
  <1>0. /\ work \in [Host -> [at : {"due", "walk", "got", "again", "ask", "end"},
                            by : Entry \cup {None}, pools : SUBSET Entry]]
        /\ bucket \in [Host -> Bucket \cup {None}]
    BY DEF Base, Typed, TypeOK
  <1>1. /\ phase \in {"rows", "list"} /\ work[h].at # "ask"
        /\ UNCHANGED <<member, registry, secret, explicit, snap, astray, pulled>>
        /\ hurt' = IF harmed THEN hurt \cup {h} ELSE hurt
        /\ \A g \in Host : cached'[g] \in {cached[g], member[g]}
    BY DEF Advances, Frame, Harm
  <1>2. \A g \in Host :
          /\ bucket'[g] = bucket[g] \/ bucket'[g] \notin {"probed_ok", "changed"}
          /\ g # h => work'[g] = work[g]
    BY <1>0 DEF Advances, StartsWalk, HasClient, GivesUp, Goes
  <1> SUFFICES ASSUME NEW g \in Host, ~pulled', Calm(g)',
                      (g \in Answered \/ (work[g].at = "ask" /\ Admitted(g, work[g].by)))'
               PROVE  (explicit \/ Ready(g))'
    BY DEF Provided
  <1>3. CASE work'[g] = work[g] \/ work'[g].at # "ask"
    BY <1>1, <1>2, <1>3, ProvidedStays
  <1>4. CASE g = h /\ work'[h].at = "ask" /\ work'[h] # work[h]
    <2>1. CASE bucket'[h] \in {"probed_ok", "changed"}
      <3>1. bucket[h] \in {"probed_ok", "changed"} BY <1>2, <2>1
      <3>2. Calm(h) /\ h \in Answered /\ ~pulled BY <1>1, <1>4, <3>1 DEF Calm, Answered
      <3>q. QED BY <1>1, <1>4, <3>2, ReadyStays DEF Provided
    <2>2. CASE bucket'[h] \notin {"probed_ok", "changed"}
      <3>1. Admitted(h, work[h].by)'
        BY <1>4, <2>2 DEF Answered
      <3>2. HasClient(h)
        BY <1>0, <1>4 DEF Advances, StartsWalk, GivesUp, Goes, Idle
      <3>3. PICK at \in {"got", "ask"}, by \in Entry \cup {None} :
              Goes(h, at, by) /\ ((explicit /\ by = None) \/ Token(h, by))
        BY <3>2 DEF HasClient
      <3>4. work'[h].by = by BY <1>0, <3>3 DEF Goes
      <3>5. Admitted(h, by) /\ Calm(h) /\ ~pulled
        BY <1>1, <1>4, <3>1, <3>4 DEF Admitted, Accepts, Calm
      <3>q. QED BY <1>1, <1>4, <3>3, <3>5, TokenFits
    <2>q. QED BY <2>1, <2>2
  <1>q. QED BY <1>2, <1>3, <1>4

LEMMA ProvidedNext ==
  ASSUME Base, Provided, [Next]_vars PROVE Provided'
  <1>0. /\ work \in [Host -> [at : {"due", "walk", "got", "again", "ask", "end"},
                            by : Entry \cup {None}, pools : SUBSET Entry]]
        /\ bucket \in [Host -> Bucket \cup {None}]
    BY DEF Base, Typed, TypeOK
  <1>1. ASSUME UNCHANGED <<resolver, snap, astray, pulled>>, hurt \subseteq hurt',
               \A h \in Host :
                 /\ \/ bucket'[h] = bucket[h] \/ bucket'[h] \notin {"probed_ok", "changed"}
                    \/ (work[h].at = "ask" /\ Admitted(h, work[h].by))
                 /\ work'[h] = work[h] \/ work'[h].at # "ask"
        PROVE  Provided'
    BY <1>1, ProvidedStays DEF Provided, resolver
  <1>2. CASE UNCHANGED vars BY <1>1, <1>2 DEF vars, scan, history
  <1>3. ASSUME NEW node \in Host \cup {None}, Start(node) PROVE Provided'
    <2>1. \A h \in Host : work'[h].at # "ask" BY <1>3 DEF Start, Idle
    <2>2. Answered' = {} BY <1>3, NoneAnswered DEF Start, Answered
    <2>q. QED BY <2>1, <2>2 DEF Provided
  <1>4. ASSUME NEW h \in Host, NEW ks \in SUBSET Key, Probe(h, ks) PROVE Provided'
    BY <1>1, <1>4 DEF Probe
  <1>5. CASE EndProbes BY <1>1, <1>5 DEF EndProbes
  <1>6. ASSUME NEW h \in Host, Degenerate(h) PROVE Provided'
    <2>1. /\ work' = [work EXCEPT ![h] = Idle] /\ bucket' = [bucket EXCEPT ![h] = "degenerate"]
          /\ UNCHANGED <<resolver, snap, astray, pulled, hurt>>
      BY <1>6 DEF Degenerate, Settle, history
    <2>q. QED BY <1>0, <1>1, <2>1 DEF Idle
  <1>7. ASSUME NEW h \in Host, Look(h) PROVE Provided' BY <1>7, Looking, ProvidedAdvances
  <1>8. CASE Enumerate
    <2>1. \A h \in Host : work'[h].at # "ask" BY <1>8 DEF Enumerate, Idle
    <2>q. QED BY <1>1, <1>8, <2>1 DEF Enumerate, history
  <1>9. ASSUME NEW h \in Host, NEW answers \in BOOLEAN, Ask(h, answers) PROVE Provided'
    <2>1. PICK b : /\ bucket' = [bucket EXCEPT ![h] = b] /\ work' = [work EXCEPT ![h] = Idle]
                   /\ Admitted(h, work[h].by) \/ b \in {"missing", "unreachable"}
                   /\ work[h].at = "ask" /\ hurt \subseteq hurt'
                   /\ UNCHANGED <<resolver, snap, astray, pulled>>
      BY <1>9 DEF Ask, Settle, Harm, Unreachable
    <2>q. QED BY <1>0, <1>1, <2>1 DEF Idle
  <1>10. ASSUME NEW h \in Host, NEW answers \in BOOLEAN, List(h, answers) PROVE Provided'
    <2>1. /\ bucket' = [bucket EXCEPT ![h] = bucket[h]] /\ work' = [work EXCEPT ![h] = Idle]
          /\ hurt \subseteq hurt' /\ UNCHANGED <<resolver, snap, astray, pulled>>
      BY <1>10 DEF List, Settle, Harm
    <2>q. QED BY <1>0, <1>1, <2>1 DEF Idle
  <1>11. CASE Finish BY <1>1, <1>11 DEF Finish, history
  <1>12. CASE Elsewhere
    <2>1. Beside BY <1>12, ElsewhereIsBeside DEF Base
    <2>q. QED BY <2>1, ProvidedStays DEF Beside, Provided, scan
  <1>q. QED BY <1>2, <1>3, <1>4, <1>5, <1>6, <1>7, <1>8, <1>9, <1>10, <1>11, <1>12, Steps

\* Two calm hosts with one key are of one site, unless one has the name of the other's
\* cluster.
LEMMA KeysAreSites ==
  ASSUME Base, phase # "idle", NEW g \in Host, NEW h \in Host, Calm(g), Calm(h),
         TargetKey(g) = TargetKey(h), member[g] # h, member[h] # g
  PROVE  SiteOf(g) = SiteOf(h)
  <1>1. \A f \in {g, h} : cached[f] # None => cached[f] = member[f] /\ cached[f] \in Cluster
    BY DEF Base, Led, Calm, Misled, Typed, Calling, ResolverTypeOK
  <1>2. cached[g] = None => cached[h] = None BY <1>1 DEF TargetKey
  <1>3. cached[h] = None => cached[g] = None BY <1>1 DEF TargetKey
  <1>q. QED BY <1>1, <1>2, <1>3, ResolverAssumption DEF TargetKey, SiteOf

LEMMA ListingEnumerate ==
  ASSUME Base, Enumerate PROVE Listing'
  <1>1. /\ phase = "rows" /\ UNCHANGED <<resolver, bucket, history>>
    BY DEF Enumerate
  <1>2. PICK targets \in SUBSET Answered :
          /\ \A h \in Answered : \E t \in targets : TargetKey(t) = TargetKey(h)
          /\ work' = [h \in Host |-> IF h \in targets THEN [Idle EXCEPT !.at = "due"] ELSE Idle]
    BY DEF Enumerate
  <1>3. Answered' = Answered /\ Answered \subseteq Host BY <1>1 DEF Answered
  <1>4. \A h \in Host : SiteOf(h)' = SiteOf(h) BY <1>1 DEF SiteOf, resolver
  <1> SUFFICES ASSUME AllCalm', NEW h \in Answered', OwnName(h)'
               PROVE  \E t \in Answered' : SiteOf(t)' = SiteOf(h)' /\ Handled(t)'
    BY DEF Listing
  <1>5. \A g \in Answered : Calm(g) BY <1>1, <1>3 DEF AllCalm, Calm, history
  <1>6. PICK t \in targets : TargetKey(t) = TargetKey(h) BY <1>2, <1>3
  <1>7. SiteOf(t) = SiteOf(h)
    <2>1. OwnName(h) BY <1>1, <1>3, <1>4 DEF OwnName, resolver
    <2>2. SiteOf(t) = SiteOf(h) \/ (member[t] # h /\ member[h] # t) BY <2>1 DEF OwnName
    <2>q. QED BY <1>1, <1>3, <1>5, <1>6, <2>2, KeysAreSites
  <1>8. Handled(t)' BY <1>2, <1>3 DEF Handled, Idle
  <1>q. QED BY <1>3, <1>4, <1>7, <1>8

\* Once the list has begun it is enough that each host remains handled.
LEMMA ListingStays ==
  ASSUME Base, Listing, phase \in {"list", "done"}, UNCHANGED bucket, astray' = astray,
         hurt \subseteq hurt', pulled => pulled',
         \A h \in Host \ hurt' : member'[h] = member[h],
         ASSUME NEW t \in Answered, AllCalm', AllCalm, Handled(t) PROVE Handled(t)'
  PROVE  Listing'
  <1> SUFFICES ASSUME AllCalm', NEW h \in Answered', OwnName(h)'
               PROVE  \E t \in Answered' : SiteOf(t)' = SiteOf(h)' /\ Handled(t)'
    BY DEF Listing
  <1>1. Answered' = Answered /\ Answered \subseteq Host BY DEF Answered
  <1>2. AllCalm BY <1>1 DEF AllCalm
  <1>3. \A g \in Answered : SiteOf(g)' = SiteOf(g) BY <1>1 DEF AllCalm, SiteOf
  <1>4. OwnName(h)
    <2>1. \A g \in Answered : member'[g] = member[g] BY <1>1 DEF AllCalm
    <2>q. QED BY <1>1, <1>3, <2>1 DEF OwnName
  <1>5. PICK t \in Answered : SiteOf(t) = SiteOf(h) /\ Handled(t)
    BY <1>1, <1>2, <1>4 DEF Listing
  <1>6. Handled(t)' BY <1>2, <1>5
  <1>q. QED BY <1>1, <1>3, <1>5, <1>6

LEMMA ListingAdvances ==
  ASSUME Base, Provided, Listing, NEW h \in Host, NEW harmed \in BOOLEAN, Advances(h, harmed)
  PROVE  Listing'
  <1>0. work \in [Host -> [at : {"due", "walk", "got", "again", "ask", "end"},
                          by : Entry \cup {None}, pools : SUBSET Entry]]
    BY DEF Base, Typed, TypeOK
  <1>1. /\ phase \in {"rows", "list"} /\ work[h].at \notin {"ask", "end"}
        /\ UNCHANGED <<member, registry, secret, explicit, phase, snap, astray, pulled, vm, known,
                       restless, unknown>>
        /\ hurt' = IF harmed THEN hurt \cup {h} ELSE hurt
    BY DEF Advances, Frame, Harm, tools
  <1>2. CASE phase = "rows" BY <1>1, <1>2 DEF Listing
  <1>3. CASE phase = "list"
    <2>1. UNCHANGED bucket /\ \A g \in Host \ {h} : work'[g] = work[g]
      BY <1>0, <1>3 DEF Advances, StartsWalk, HasClient, GivesUp, Goes
    <2>2. \A g \in Host : Listed(g)' <=> Listed(g) BY <1>1 DEF Listed, SiteOf
    <2>3. ASSUME NEW t \in Answered, AllCalm', AllCalm, Handled(t) PROVE Handled(t)'
      <3>0. t \in Host BY DEF Answered
      <3>1. CASE t # h
        <4>1. work'[t] = work[t] BY <2>1, <3>0, <3>1
        <4>q. QED BY <1>1, <2>2, <2>3, <3>0, <4>1 DEF Handled, Admitted, Accepts
      <3>2. CASE t = h /\ Listed(h) BY <2>2, <3>2 DEF Handled
      <3>3. CASE t = h /\ ~Listed(h)
        <4>1. work[h].at = "due" BY <1>1, <2>3, <3>3 DEF Handled
        <4>2. ~harmed /\ Calm(h) /\ ~pulled
          BY <1>1, <2>1, <2>3, <3>3 DEF AllCalm, Answered, Calm
        <4>3. explicit \/ Ready(h) BY <3>3, <4>2 DEF Provided
        <4>4. HasClient(h)
          BY <1>3, <4>1, <4>2, <4>3 DEF Advances, StartsWalk, GivesUp
        <4>5. PICK at \in {"got", "ask"}, by \in Entry \cup {None} :
                /\ Goes(h, at, by) /\ at = "ask"
                /\ (explicit /\ by = None) \/ Token(h, by)
                /\ explicit /\ work[h].at = "due" => by = None
          BY <1>3, <4>4 DEF HasClient
        <4>6. work'[h].at = "ask" /\ work'[h].by = by BY <1>0, <4>5 DEF Goes
        <4>7. Admitted(h, by) BY <3>0, <3>3, <4>1, <4>2, <4>3, <4>5, <1>3, TokenFits DEF Admitted
        <4>8. Admitted(h, by)' BY <1>1, <4>7 DEF Admitted, Accepts
        <4>q. QED BY <3>3, <4>6, <4>8 DEF Handled, Admitted, Accepts
      <3>q. QED BY <3>1, <3>2, <3>3
    <2>q. QED BY <1>1, <1>3, <2>1, <2>3, ListingStays
  <1>q. QED BY <1>1, <1>2, <1>3

LEMMA ListingList ==
  ASSUME Base, Listing, NEW h \in Host, NEW answers \in BOOLEAN, List(h, answers)
  PROVE  Listing'
  <1>0. /\ bucket \in [Host -> Bucket \cup {None}]
        /\ work \in [Host -> [at : {"due", "walk", "got", "again", "ask", "end"},
                            by : Entry \cup {None}, pools : SUBSET Entry]]
    BY DEF Base, Typed, TypeOK
  <1>1. /\ phase = "list" /\ work[h].at = "ask" /\ work' = [work EXCEPT ![h] = Idle]
        /\ bucket' = [bucket EXCEPT ![h] = bucket[h]]
        /\ hurt' = IF answers THEN hurt ELSE hurt \cup {h}
        /\ unknown' = IF answers /\ Admitted(h, work[h].by) THEN unknown \cup Unknown(h)
                      ELSE unknown
        /\ UNCHANGED <<resolver, vm, phase, known, astray, pulled, restless>>
    BY DEF List, Settle, Harm, tools
  <1>2. UNCHANGED bucket /\ h \in Answered BY <1>0, <1>1 DEF Base, Order, Idle
  <1>3. \A g \in Host : Listed(g) => Listed(g)' BY <1>1 DEF Listed, SiteOf, resolver
  <1>4. ASSUME NEW t \in Answered, AllCalm', AllCalm, Handled(t) PROVE Handled(t)'
    <2>0. t \in Host BY DEF Answered
    <2>1. CASE Listed(t) BY <1>3, <2>0, <2>1 DEF Handled
    <2>2. CASE ~Listed(t) /\ t # h
      <3>1. work'[t] = work[t] BY <1>0, <1>1, <2>0, <2>2
      <3>q. QED BY <1>1, <1>4, <2>2, <3>1 DEF Handled, Admitted, Accepts, resolver
    <2>3. CASE ~Listed(t) /\ t = h
      <3>1. Admitted(h, work[h].by) BY <1>1, <1>4, <2>3 DEF Handled
      <3>2. answers BY <1>1, <1>2, <1>4 DEF AllCalm, Answered
      <3>3. unknown' = unknown \cup Unknown(h) BY <1>1, <3>1, <3>2
      <3>4. Listed(h)' BY <1>1, <3>3 DEF Listed, Unknown, SiteOf, resolver
      <3>q. QED BY <2>3, <3>4 DEF Handled
    <2>q. QED BY <2>1, <2>2, <2>3
  <1>5. hurt \subseteq hurt' /\ member' = member BY <1>1 DEF resolver
  <1>q. QED BY <1>1, <1>2, <1>4, <1>5, ListingStays

LEMMA ListingBeside ==
  ASSUME Base, Listing, Beside PROVE Listing'
  <1>1. CASE phase \notin {"list", "done"} BY <1>1 DEF Listing, Beside, scan
  <1>2. CASE phase \in {"list", "done"}
    <2>1. ASSUME NEW t \in Answered, AllCalm', AllCalm, Handled(t) PROVE Handled(t)'
      <3>1. t \in Host \ hurt' BY <2>1 DEF AllCalm, Answered, Beside, scan
      <3>2. member'[t] = member[t] BY <3>1 DEF Beside
      <3>3. Listed(t) => Listed(t)' BY <3>2 DEF Listed, SiteOf, Beside, scan
      <3>q. QED BY <2>1, <3>2, <3>3 DEF Handled, Admitted, Accepts, Beside, scan
    <2>q. QED BY <1>2, <2>1, ListingStays DEF Beside, scan
  <1>q. QED BY <1>1, <1>2

LEMMA ListingNext ==
  ASSUME Base, Provided, Listing, [Next]_vars PROVE Listing'
  <1>1. ASSUME UNCHANGED <<resolver, vm, bucket, work, known, unknown, history>>,
               phase \in {"list", "done"}
        PROVE  Listing'
    <2>1. \A t \in Host : Handled(t) => Handled(t)'
      BY <1>1 DEF Handled, Listed, SiteOf, Admitted, Accepts, resolver, history
    <2>q. QED BY <1>1, <2>1, ListingStays DEF resolver, history, Answered
  <1>2. ASSUME UNCHANGED vars PROVE Listing'
    <2>1. CASE phase \in {"list", "done"} BY <1>1, <1>2, <2>1 DEF vars, scan, tools
    <2>2. CASE phase \notin {"list", "done"} BY <1>2, <2>2 DEF vars, scan, Listing
    <2>q. QED BY <2>1, <2>2
  <1>3. ASSUME Finish PROVE Listing' BY <1>1, <1>3 DEF Finish, tools
  <1>4. ASSUME phase' \notin {"list", "done"} PROVE Listing' BY <1>4 DEF Listing
  <1>5. ASSUME NEW h \in Host, Look(h) PROVE Listing' BY <1>5, Looking, ListingAdvances
  <1>6. ASSUME Elsewhere PROVE Listing' BY <1>6, ElsewhereIsBeside, ListingBeside DEF Base
  <1>7. ASSUME NEW node \in Host \cup {None}, Start(node) PROVE Listing' BY <1>4, <1>7 DEF Start
  <1>8. ASSUME NEW h \in Host, NEW ks \in SUBSET Key, Probe(h, ks) PROVE Listing'
    BY <1>4, <1>8 DEF Probe
  <1>9. ASSUME EndProbes PROVE Listing' BY <1>4, <1>9 DEF EndProbes
  <1>10. ASSUME NEW h \in Host, NEW answers \in BOOLEAN, Degenerate(h) \/ Ask(h, answers)
         PROVE  Listing'
    BY <1>4, <1>10 DEF Degenerate, Ask
  <1>q. QED BY <1>2, <1>3, <1>5, <1>6, <1>7, <1>8, <1>9, <1>10, Steps, ListingEnumerate, ListingList

\* When every host that answered can be asked again, each virtual machine of their sites
\* that no row is named for is listed, though one host is asked for a whole cluster.
THEOREM UnknownAreListed == Spec => []UnknownComplete
  <1> DEFINE Inv == Base /\ Provided /\ Listing
  <1>1. Init => Inv
    <2>1. ASSUME Init PROVE Inv
      <3>1. Base BY <2>1, BaseInit
      <3>2. Answered = {} BY <2>1, <3>1, NoneAnswered DEF Init
      <3>3. \A h \in Host : work[h].at # "ask" BY <2>1 DEF Init, Idle
      <3>4. Provided BY <3>2, <3>3 DEF Provided
      <3>5. Listing BY <2>1 DEF Init, Listing
      <3>q. QED BY <3>1, <3>4, <3>5
    <2>q. QED BY <2>1
  <1>2. Inv /\ [Next]_vars => Inv' BY BaseNext, ProvidedNext, ListingNext
  <1>3. Inv => UnknownComplete
    <2> SUFFICES ASSUME Inv, phase = "done", ~pulled, Answered \cap (astray \cup hurt) = {},
                        NEW v \in Vm \ (known \cup restless), NEW h \in Answered,
                        OwnName(h), vm[v] # None, vm[v].site = SiteOf(h)
                 PROVE  \E g \in Host : <<g, v>> \in unknown
      BY DEF UnknownComplete
    <2>1. PICK t \in Answered : SiteOf(t) = SiteOf(h) /\ Handled(t) BY DEF Listing, AllCalm
    <2>2. t \in Host /\ work[t] = Idle BY DEF Base, Order, Answered
    <2>3. Listed(t) BY <2>1, <2>2 DEF Handled, Idle
    <2>q. QED BY <2>1, <2>2, <2>3 DEF Listed
  <1> HIDE DEF Inv
  <1>q. QED BY <1>1, <1>2, <1>3, PTL DEF Spec
=============================================================================
