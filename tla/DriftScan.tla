----------------------------- MODULE DriftScan -----------------------------
(***************************************************************************)
(* scan_drift of drift_detection.py: one pass over the site map that sorts *)
(* its rows into buckets and lists the virtual machines it does not know.  *)
(*                                                                         *)
(* The rows are read once.  The machines are first probed over SSH, all at *)
(* once; then the rows are taken one after the other, each with a token of *)
(* ProxmoxResolver; then the hosts that answered are asked for their       *)
(* virtual machines, all at once, one host for each cluster.  Meanwhile    *)
(* machines, credentials and rows change, and other tools use the same     *)
(* caches.                                                                 *)
(***************************************************************************)
EXTENDS ProxmoxTools

CONSTANTS
  Key,       \* fields of a universal-core fingerprint
  Value,
  MaxChanges \* BOUND

ASSUME ScanAssumption == MaxChanges \in Nat

VARIABLES
  fp,      \* Host -> the fingerprint that a probe of the machine finds
  rows,    \* the site map: Host -> its row, or None
  adopted, \* the virtual machines whose names the site map has
  changes,
  phase,   \* "idle", "probe", "rows", "list" or "done"
  snap,    \* rows as the scan read them
  known,   \* the virtual machines whose names the scan read
  tried,   \* hosts whose probe has ended
  probe,   \* Host -> the fingerprint that its probe found
  work,    \* Host -> how far the scan is with it
  bucket,  \* Host -> where its record was put, or None
  unknown, \* <<host, vm>> listed as unknown
  \* history, since the scan began:
  astray,  \* hosts whose cached cluster was wrong when it began
  hurt,    \* hosts that changed cluster or of which a request failed
  pulled,  \* a credential was lost
  stirred, \* hosts whose machine or row changed
  blind,   \* hosts of which the probe did not find all
  restless \* virtual machines that changed site

outside == <<fp, rows, adopted, changes>>
scan == <<phase, snap, known, tried, probe, work, bucket, unknown>>
history == <<astray, hurt, pulled, stirred, blind, restless>>
vars == <<resolver, tools, outside, scan, history>>

Fp == [Key -> Value \cup {None}]
Nothing == [k \in Key |-> None]
Row == [binding : Binding, ssh : BOOLEAN, bad : BOOLEAN, old : BOOLEAN, fp : Fp]

Bucket == {"probed_ok", "changed", "unreachable", "missing", "degenerate",
           "unbound", "binding_stale", "keyring_desync"}

ASSUME NoBucket == None \notin Bucket

Idle == [at |-> "end", by |-> None, pools |-> {}]

TypeOK ==
  /\ ResolverTypeOK /\ ToolsTypeOK
  /\ fp \in [Host -> Fp]
  /\ rows \in [Host -> Row \cup {None}]
  /\ adopted \subseteq Vm
  /\ changes \in 0..MaxChanges
  /\ phase \in {"idle", "probe", "rows", "list", "done"}
  /\ snap \in [Host -> Row \cup {None}]
  /\ known \subseteq Vm
  /\ tried \subseteq Host
  /\ probe \in [Host -> Fp]
  /\ work \in [Host -> [at : {"due", "walk", "got", "again", "ask", "end"},
                        by : Entry \cup {None}, pools : SUBSET Entry]]
  /\ bucket \in [Host -> Bucket \cup {None}]
  /\ unknown \subseteq Host \X Vm
  /\ astray \subseteq Host
  /\ hurt \subseteq Host
  /\ pulled \in BOOLEAN
  /\ stirred \subseteq Host
  /\ blind \subseteq Host
  /\ restless \subseteq Vm

Init ==
  /\ ResolverInit /\ ToolsInit
  /\ fp \in [Host -> Fp]
  /\ rows \in [Host -> Row \cup {None}]
  /\ adopted \in SUBSET Vm
  /\ changes = 0
  /\ phase = "idle"
  /\ snap = [h \in Host |-> None]
  /\ known = {} /\ tried = {} /\ unknown = {}
  /\ probe = [h \in Host |-> Nothing]
  /\ work = [h \in Host |-> Idle]
  /\ bucket = [h \in Host |-> None]
  /\ astray = {} /\ hurt = {} /\ pulled = FALSE
  /\ stirred = {} /\ blind = {} /\ restless = {}

-----------------------------------------------------------------------------
(* The rows and the probes.                                                *)

\* get_all_devices, of one node or of all.
Start(node) ==
  /\ phase = "idle"
  /\ phase' = "probe"
  /\ snap' = [h \in Host |-> IF node \in {h, None} THEN rows[h] ELSE None]
  /\ known' = IF node = None THEN adopted ELSE {}
  /\ work' = [h \in Host |-> IF snap'[h] = None THEN Idle ELSE [Idle EXCEPT !.at = "due"]]
  /\ astray' = {h \in Host : Misled(h)}
  /\ hurt' = {} /\ pulled' = FALSE /\ stirred' = {} /\ blind' = {} /\ restless' = {}
  /\ UNCHANGED <<resolver, tools, outside, tried, probe, bucket, unknown>>

Probed == {h \in Host : snap[h] # None /\ ~snap[h].bad /\ snap[h].ssh}

\* _probe_universal_core: a command that fails or times out leaves its fields out.
Seen(h, ks) == [k \in Key |-> IF k \in ks THEN fp[h][k] ELSE None]

\* One probe of _bulk_universal_core_probes ends: with the fields ks, or with none, when
\* there is no connection.
Probe(h, ks) ==
  /\ phase = "probe" /\ h \in Probed \ tried
  /\ tried' = tried \cup {h}
  /\ probe' = [probe EXCEPT ![h] = Seen(h, ks)]
  /\ blind' = IF ks = Key THEN blind ELSE blind \cup {h}
  /\ UNCHANGED <<resolver, tools, outside, phase, snap, known, work, bucket, unknown,
                 astray, hurt, pulled, stirred, restless>>

\* MUTANT: nothing limits the time of the probes.
EndProbesUntimed ==
  /\ phase = "probe" /\ tried = Probed
  /\ phase' = "rows"
  /\ UNCHANGED <<resolver, tools, outside, snap, known, tried, probe, work, bucket, unknown,
                 history>>

\* All have ended; or the 120 seconds have, and what they found is dropped.
EndProbes ==
  /\ phase = "probe"
  /\ phase' = "rows"
  /\ \/ tried = Probed /\ UNCHANGED <<probe, blind>>
     \/ /\ tried # Probed
        /\ probe' = [h \in Host |-> Nothing]
        /\ blind' = Host
  /\ UNCHANGED <<resolver, tools, outside, snap, known, tried, work, bucket, unknown,
                 astray, hurt, pulled, stirred, restless>>

-----------------------------------------------------------------------------
(* The token of a host: for its row, and again for its virtual machines.   *)

UnderWay == {h \in Host : work[h].at \in {"walk", "got", "again", "ask"}}

\* It is h's turn: rows are taken one by one, in an order that the model leaves open.
Turn(h) ==
  /\ work[h].at = "due"
  /\ phase = "list" \/ (phase = "rows" /\ UnderWay = {})

\* The record of h is put into bucket b.
Settle(h, b) ==
  /\ bucket' = [bucket EXCEPT ![h] = b]
  /\ work' = [work EXCEPT ![h] = Idle]

Goes(h, at, by) ==
  /\ work' = [work EXCEPT ![h] = [at |-> at, by |-> by, pools |-> Pools]]
  /\ UNCHANGED bucket

\* _classify_unreachable: a row that was last seen too long ago is of a missing host.
Unreachable(h) == IF snap[h].old THEN "missing" ELSE "unreachable"

\* _classify_credential_failure: the reason that the resolver gave.
Failure(h, how) == IF how = "transient" THEN Unreachable(h) ELSE how

Degenerate(h) ==
  /\ phase = "rows" /\ Turn(h) /\ snap[h].bad
  /\ Settle(h, "degenerate")
  /\ UNCHANGED <<resolver, tools, outside, phase, snap, known, tried, probe, unknown, history>>

\* The scan goes on with h after a resolution with outcome r.  There is a client once
\* a token was found; the scope of a row comes from the telemetry cache, and when that
\* has none the scan resolves a second time.
ResolvesTo(h, r, walked, second) ==
  /\ Remember(h, snap[h].binding, r, walked)
  /\ IF r.how = "walk" THEN Goes(h, IF second THEN "again" ELSE "walk", work[h].by)
     ELSE IF r.how = "token"
     THEN Goes(h, IF phase = "list" \/ <<h, snap[h].binding>> \in told' THEN "ask" ELSE "got",
               IF second THEN work[h].by ELSE r.by)
     ELSE IF phase = "list" THEN Settle(h, bucket[h])
     ELSE Settle(h, Failure(h, r.how))
  /\ UNCHANGED <<tools, outside, phase, snap, known, tried, probe, unknown,
                 astray, pulled, stirred, blind, restless>>

Harm(h, harmed) == hurt' = IF harmed THEN hurt \cup {h} ELSE hurt

\* get_proxmox_client: PROXMOX_API_TOKEN is used unresolved.
Client(h, deaf) ==
  /\ Turn(h) /\ ~snap[h].bad
  /\ IF explicit
     THEN /\ Goes(h, IF phase = "list" \/ <<h, snap[h].binding>> \in told THEN "ask" ELSE "got",
                  None)
          /\ UNCHANGED <<resolver, tools, outside, phase, snap, known, tried, probe, unknown,
                         history>>
     ELSE /\ ResolvesTo(h, Resolved(h, snap[h].binding, deaf), FALSE, FALSE)
          /\ Harm(h, deaf)

\* The second resolution: it awaits nothing before its own walk.
Telemetry(h, deaf) ==
  /\ work[h].at = "got"
  /\ ResolvesTo(h, Resolved(h, snap[h].binding, deaf), FALSE, TRUE)
  /\ Harm(h, deaf /\ explicit)

Walk(h, how) ==
  /\ work[h].at \in {"walk", "again"}
  /\ ResolvesTo(h, Walked(h, work[h].pools, how), TRUE, work[h].at = "again")
  /\ Harm(h, how # "fine")

-----------------------------------------------------------------------------
(* The answers of the hosts.                                               *)

\* MUTANT: only fields that both have are compared.
DiffShared(stored, current) ==
  {k \in Key : current[k] # None /\ stored[k] \notin {None, current[k]}}

\* _diff_fingerprints: a field that the probe did not find is passed over.
Diff(stored, current) == {k \in Key : current[k] # None /\ stored[k] # current[k]}

\* GET /cluster/status, and the comparison with what the probe found: a row without a
\* fingerprint is not compared.
Ask(h, answers) ==
  /\ phase = "rows" /\ work[h].at = "ask"
  /\ Settle(h, IF ~(answers /\ Admitted(h, work[h].by)) THEN Unreachable(h)
               ELSE IF snap[h].fp # Nothing /\ Diff(snap[h].fp, probe[h]) # {}
               THEN "changed" ELSE "probed_ok")
  /\ Harm(h, ~answers)
  /\ UNCHANGED <<resolver, tools, outside, phase, snap, known, tried, probe, unknown,
                 astray, pulled, stirred, blind, restless>>

Answered == {h \in Host : bucket[h] \in {"probed_ok", "changed"}}

\* MUTANT: hosts that no walk has placed share one entry.
TargetKeyBare(h) == cached[h]

\* The name of its cluster, or its own: a bare name, which may be that of another site.
TargetKey(h) == IF cached[h] = None THEN h ELSE cached[h]

\* One target for each key: the host whose record comes last in an order left open.
Enumerate ==
  /\ phase = "rows" /\ \A h \in Host : work[h] = Idle
  /\ phase' = "list"
  /\ \E targets \in SUBSET Answered :
       /\ \A h \in Answered : \E t \in targets : TargetKey(t) = TargetKey(h)
       /\ \A t, u \in targets : TargetKey(t) = TargetKey(u) => t = u
       /\ work' = [h \in Host |-> IF h \in targets THEN [Idle EXCEPT !.at = "due"] ELSE Idle]
  /\ UNCHANGED <<resolver, tools, outside, snap, known, tried, probe, bucket, unknown, history>>

\* _enumerate_unknown_vms: what h lists and no row is named for.
Unknown(h) == {h} \X ({v \in Vm : vm[v] # None /\ vm[v].site = SiteOf(h)} \ known)

\* GET /cluster/resources: every machine of the site of h.
List(h, answers) ==
  /\ phase = "list" /\ work[h].at = "ask"
  /\ unknown' = IF answers /\ Admitted(h, work[h].by) THEN unknown \cup Unknown(h) ELSE unknown
  /\ Settle(h, bucket[h])
  /\ Harm(h, ~answers)
  /\ UNCHANGED <<resolver, tools, outside, phase, snap, known, tried, probe,
                 astray, pulled, stirred, blind, restless>>

Finish ==
  /\ phase = "list" /\ \A h \in Host : work[h] = Idle
  /\ phase' = "done"
  /\ UNCHANGED <<resolver, tools, outside, snap, known, tried, probe, work, bucket, unknown,
                 history>>

Scan ==
  \/ \E node \in Host \cup {None} : Start(node)
  \/ EndProbes \/ Enumerate \/ Finish
  \/ \E h \in Host :
       \/ \E ks \in SUBSET Key : Probe(h, ks)
       \/ Degenerate(h)
       \/ \E deaf \in BOOLEAN : Client(h, deaf) \/ Telemetry(h, deaf)
       \/ \E how \in {"fine", "refused", "slow"} : Walk(h, how)
       \/ \E answers \in BOOLEAN : Ask(h, answers) \/ List(h, answers)

-----------------------------------------------------------------------------
(* What happens outside.                                                   *)

Change ==
  /\ changes < MaxChanges
  /\ changes' = changes + 1
  /\ UNCHANGED <<tools, scan, astray, blind, restless, named, explicit, cached, told>>

\* A host joins or leaves a cluster.  One with virtual machines of its own joins none.
Move(h) ==
  /\ Change
  /\ \A v \in Vm : vm[v] # None => vm[v].site # Node(h)
  /\ \E c \in Cluster \cup {None} : member[h] # c /\ member' = [member EXCEPT ![h] = c]
  /\ hurt' = hurt \cup {h}
  /\ UNCHANGED <<registry, secret, fp, rows, adopted, pulled, stirred>>

\* An entry is unregistered, or its secret is lost.
Lose(e) ==
  /\ Change
  /\ \/ e \in registry /\ registry' = registry \ {e} /\ UNCHANGED secret
     \/ e \in secret /\ secret' = secret \ {e} /\ UNCHANGED registry
  /\ pulled' = TRUE
  /\ UNCHANGED <<member, fp, rows, adopted, hurt, stirred>>

\* The machine is upgraded, or discovered again: its row has what was found, or
\* nothing and an error.
Alter(h) ==
  /\ Change
  /\ \/ UNCHANGED rows /\ \E k \in Key, v \in Value : fp' = [fp EXCEPT ![h][k] = v]
     \/ /\ rows[h] # None
        /\ \E ok \in BOOLEAN :
             rows' = [rows EXCEPT ![h].fp = IF ok THEN fp[h] ELSE Nothing,
                                  ![h].bad = ~ok, ![h].old = FALSE]
        /\ UNCHANGED fp
  /\ stirred' = stirred \cup {h}
  /\ UNCHANGED <<member, registry, secret, adopted, hurt, pulled>>

\* A virtual machine is discovered.
Adopt(v) ==
  /\ Change
  /\ adopted' = adopted \cup {v}
  /\ UNCHANGED <<member, registry, secret, fp, rows, hurt, pulled, stirred>>

Elsewhere ==
  \/ /\ ToolsNext
     /\ restless' = restless \cup {v \in Vm : (vm[v] = None) # (vm'[v] = None)}
     /\ UNCHANGED <<outside, scan, astray, hurt, pulled, stirred, blind>>
  \/ \E h \in Host : Move(h) \/ Alter(h)
  \/ \E e \in Entry : Lose(e)
  \/ \E v \in Vm : Adopt(v)

Next == Scan \/ Elsewhere

\* Requests have a time limit and the rest is local; an SSH probe has none of its own
\* that would be counted on.
Fairness ==
  /\ WF_vars(EndProbes) /\ WF_vars(Enumerate) /\ WF_vars(Finish)
  /\ \A h \in Host :
       /\ WF_vars(Degenerate(h))
       /\ WF_vars(\E deaf \in BOOLEAN : Client(h, deaf) \/ Telemetry(h, deaf))
       /\ WF_vars(\E how \in {"fine", "refused", "slow"} : Walk(h, how))
       /\ WF_vars(\E answers \in BOOLEAN : Ask(h, answers) \/ List(h, answers))

Spec == Init /\ [][Next]_vars /\ Fairness

-----------------------------------------------------------------------------
(* Properties.                                                             *)

\* The registry has a token for h: that of its binding, or, without one, that of its
\* name or of its cluster.
Served(h) ==
  LET b == snap[h].binding
      Good(e) == e \in registry \cap secret /\ Accepts(h, e)
  IN  IF b # None THEN Good(b)
      ELSE h \notin astray /\ (Good(Node(h)) \/ (h \in named /\ \E c \in Cluster : Good(Pool(c))))

\* A host that the registry serves, and of which no request fails, is found well: no
\* answer of the keyring to a resolution that was not needed, no other tool that uses
\* the caches, and no node entry without a secret puts it among the not eligible.
EligibleIsProbed ==
  phase \in {"list", "done"} =>
    \A h \in Host :
      snap[h] # None /\ ~snap[h].bad /\ h \notin hurt /\ Served(h) => h \in Answered

\* No host of another site that answered is in a cluster with the name of h, or has the
\* name of the cluster of h.
OwnName(h) ==
  \A g \in Answered : SiteOf(g) = SiteOf(h) \/ (member[g] # h /\ member[h] # g)

\* What no row knows is listed: a virtual machine that stayed at the site of a host
\* that answered, whichever host of its cluster was asked for it.  Of two sites with
\* one name only one is asked.
UnknownComplete ==
  phase = "done" /\ ~pulled /\ Answered \cap (astray \cup hurt) = {} =>
    \A v \in Vm \ (known \cup restless), h \in {g \in Answered : OwnName(g)} :
      vm[v] # None /\ vm[v].site = SiteOf(h) => \E g \in Host : <<g, v>> \in unknown

\* Drift is reported of a machine that drifted, and, if all of it could be probed, of
\* every such machine, unless it changed while the scan ran.
DriftIsReal ==
  phase \in {"list", "done"} =>
    \A h \in Answered \ stirred :
      LET drifted == rows[h].fp # Nothing
                     /\ \E k \in Key : fp[h][k] # None /\ fp[h][k] # rows[h].fp[k]
      IN  /\ bucket[h] = "changed" => drifted
          /\ h \in Probed \ blind /\ drifted => bucket[h] = "changed"

\* A scan ends, even when a machine never answers its probe.
ScanEnds == phase = "probe" ~> phase = "done"
=============================================================================
