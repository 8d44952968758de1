-------------------------- MODULE ProxmoxResolver --------------------------
(***************************************************************************)
(* resolve_proxmox_credentials of proxmox_api.py: which token is used for  *)
(* a Proxmox host.                                                         *)
(*                                                                         *)
(* The registry has entries for single nodes and for clusters.  A host is  *)
(* resolved by the entry that its row is bound to, else by its node entry, *)
(* else by the entry of its cluster, which is found by asking the host     *)
(* with the token of each cluster in turn.  The answer is kept for as long *)
(* as the process lives.                                                   *)
(***************************************************************************)
EXTENDS Naturals, FiniteSets

CONSTANTS
  Host,     \* names of Proxmox hosts
  Cluster,
  None

ASSUME ResolverAssumption == None \notin Host \cup Cluster

VARIABLES
  member,    \* Host -> the cluster it is in now, or None
  registry,  \* entries of type proxmox in the registry file
  secret,    \* entries whose secret is in the keyring
  named,     \* hosts whose name the network resolves
  explicit,  \* PROXMOX_API_TOKEN is set
  cached,    \* _HOST_CLUSTER_CACHE: Host -> Cluster, or None
  told       \* _RESOLUTION_TELEMETRY_CACHE: the <<host, binding>> it has

resolver == <<member, registry, secret, named, explicit, cached, told>>

Node(h) == [scope |-> "node", of |-> h]
Pool(c) == [scope |-> "cluster", of |-> c]
Entry == {Node(h) : h \in Host} \cup {Pool(c) : c \in Cluster}
Binding == Entry \cup {None}

ResolverTypeOK ==
  /\ member \in [Host -> Cluster \cup {None}]
  /\ registry \subseteq Entry
  /\ secret \subseteq Entry
  /\ named \subseteq Host
  /\ explicit \in BOOLEAN
  /\ cached \in [Host -> Cluster \cup {None}]
  /\ told \subseteq Host \X Binding

ResolverInit ==
  /\ member \in [Host -> Cluster \cup {None}]
  /\ registry \in SUBSET Entry
  /\ secret \in SUBSET registry
  /\ named \in SUBSET Host
  /\ explicit \in BOOLEAN
  /\ cached = [h \in Host |-> None]
  /\ told = {}

-----------------------------------------------------------------------------
\* Host h takes the token of entry e: that of the node, or of its cluster.
Accepts(h, e) == e = Node(h) \/ (member[h] # None /\ e = Pool(member[h]))

\* What the keyring answers: a deaf one has nothing.
Has(e, deaf) == ~deaf /\ e \in secret

\* The outcome of the part that awaits nothing: a token, a reason why there is none,
\* or "walk", when the clusters have to be asked.
Found(e)  == [how |-> "token", by |-> e]
Fails(r)  == [how |-> r, by |-> None]

\* Tier 0: a bound entry is used, or nothing.
ByBinding(b, deaf) ==
  IF b \notin registry THEN Fails("binding_stale")
  ELSE IF Has(b, deaf) THEN Found(b)
  ELSE Fails("keyring_desync")

\* MUTANT: a node entry without its secret is the end of it.
ByNameStrict(h, deaf) ==
  IF Node(h) \in registry
  THEN IF Has(Node(h), deaf) THEN Found(Node(h)) ELSE Fails("unbound")
  ELSE IF cached[h] # None /\ Pool(cached[h]) \in registry /\ Has(Pool(cached[h]), deaf)
  THEN Found(Pool(cached[h]))
  ELSE Fails("walk")

\* Tier 1, and the cached answer of tier 2.
ByName(h, deaf) ==
  IF Node(h) \in registry /\ Has(Node(h), deaf) THEN Found(Node(h))
  ELSE IF cached[h] # None /\ Pool(cached[h]) \in registry /\ Has(Pool(cached[h]), deaf)
  THEN Found(Pool(cached[h]))
  ELSE Fails("walk")

Resolved(h, b, deaf) == IF b # None THEN ByBinding(b, deaf) ELSE ByName(h, deaf)

\* The walk of tier 2, of the cluster entries read before it: the host is dialled by its
\* name.  A candidate whose request fails is passed over; one that times out ends the walk.
Walked(h, pools, how) ==
  CASE how = "slow" -> Fails("transient")
    [] how = "fine" /\ h \in named /\ \E e \in pools \cap secret : Accepts(h, e)
         -> Found(Pool(member[h]))
    [] OTHER -> Fails("unbound")

Pools == registry \cap {Pool(c) : c \in Cluster}

\* What a successful resolution leaves in the caches.
Remember(h, b, r, walked) ==
  /\ told' = IF r.how = "token" THEN told \cup {<<h, b>>} ELSE told
  /\ cached' = IF r.how = "token" /\ walked THEN [cached EXCEPT ![h] = r.by.of] ELSE cached
  /\ UNCHANGED <<member, registry, secret, named, explicit>>

\* The cached cluster of h is not, or no longer, its own.
Misled(h) == cached[h] # None /\ cached[h] # member[h]
=============================================================================
