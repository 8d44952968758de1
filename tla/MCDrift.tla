------------------------------ MODULE MCDrift ------------------------------
(***************************************************************************)
(* DriftScan for TLC.  A behaviour is about tokens, about virtual machines *)
(* or about fingerprints: what it is not about starts in one way only.     *)
(***************************************************************************)
EXTENDS DriftScan

VARIABLE about

One == CHOOSE h \in Host : TRUE
Home == CHOOSE c \in Cluster : c \in Host \* a cluster with the name of a host
Here == CHOOSE v \in Value : TRUE
Box == CHOOSE v \in Vm : TRUE
Same == [k \in Key |-> Here]

Bound(b) == [binding |-> b, ssh |-> FALSE, bad |-> FALSE, old |-> FALSE, fp |-> Nothing]

\* Any entry may be there, bound, or without its secret.
AboutTokens ==
  /\ rows \in {[h \in Host |-> IF h = One THEN [Bound(b) EXCEPT !.old = o] ELSE None] :
                 b \in {None, Node(One), Pool(Home)}, o \in BOOLEAN}
  /\ member = [h \in Host |-> Home]
  /\ registry \in SUBSET {Node(One), Pool(Home)}
  /\ named \in {{}, Host}
  /\ vm = [v \in Vm |-> None] /\ adopted = {}
  /\ fp = [h \in Host |-> Same]

\* Hosts of one cluster, or of none, with every token or those of clusters.
AboutMachines ==
  /\ rows \in {[h \in Host |-> Bound(b[h])] : b \in [Host -> {None, Pool(Home)}]}
  /\ member \in [Host -> {Home, None}]
  /\ registry \in {Entry, {Pool(c) : c \in Cluster}} /\ secret = registry /\ named = Host
  /\ explicit = FALSE
  /\ adopted \in SUBSET {Box}
  /\ vm \in {[v \in Vm |-> IF v = Box THEN [site |-> s, power |-> "on"] ELSE None] :
               s \in Entry}
  /\ fp = [h \in Host |-> Same]

\* A machine whose row has all, some or none of its fingerprint.
AboutFingerprints ==
  /\ rows \in {[h \in Host |-> IF h = One THEN [Bound(None) EXCEPT !.ssh = s, !.fp = f]
                                 ELSE None] : s \in BOOLEAN, f \in Fp}
  /\ member = [h \in Host |-> None]
  /\ registry = Entry /\ secret = Entry /\ named = Host
  /\ explicit = FALSE
  /\ vm = [v \in Vm |-> None] /\ adopted = {}
  /\ fp \in {[h \in Host |-> IF h = One THEN f ELSE Same] : f \in Fp}

\* Tools only, with any tokens.
AboutCalls ==
  /\ rows = [h \in Host |-> None] /\ adopted = {}
  /\ member = [h \in Host |-> Home]
  /\ registry \in SUBSET {Node(One), Pool(Home)}
  /\ named \in {{}, Host}
  /\ fp = [h \in Host |-> Same]

Topic ==
  CASE about = "tokens" -> AboutTokens
    [] about = "machines" -> AboutMachines
    [] about = "fingerprints" -> AboutFingerprints
    [] about = "calls" -> AboutCalls

MCInit == about \in {"tokens", "machines", "fingerprints", "calls"} /\ Topic /\ Init

Calls(hosts, requests) ==
  call' # None =>
    /\ call'.host \in hosts /\ call'.vm = Box /\ call'.to = Box
    /\ call'.todo[Len(call'.todo)] \in requests

\* BOUND: what happens outside is about the same, and hardly ever about other hosts.
Scope ==
  /\ about \in {"tokens", "fingerprints", "calls"} => hurt' \cup stirred' \subseteq {One}
  /\ CASE about = "tokens" -> UNCHANGED <<fp, rows, adopted>> /\ Calls({One}, {"look"})
       [] about = "machines" ->
            /\ UNCHANGED <<fp, rows, adopted, registry, secret>>
            /\ Calls(Host, {"look"})
            /\ hurt' \subseteq hurt \/ member'[One] # member[One]
       [] about = "fingerprints" -> UNCHANGED <<member, registry, secret, tools, adopted>>
       [] about = "calls" -> UNCHANGED <<scan, outside>> /\ (call' # None => call'.host = One)

MCNext == Next /\ UNCHANGED about /\ Scope

MCSpec == MCInit /\ [][MCNext]_<<vars, about>> /\ Fairness
=============================================================================
