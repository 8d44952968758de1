----------------------- MODULE MCCredentialBindings -----------------------
(***************************************************************************)
(* CredentialBindings for TLC, with commands that do not overlap.  They    *)
(* may be killed at any access, a keyring delete may fail and a discovery  *)
(* may be in flight; where that happens, less else does.                   *)
(***************************************************************************)
EXTENDS CredentialBindings, TLC

Symmetry == Permutations(Hosts) \cup Permutations(Ids) \cup Permutations(RowIds)

User == CHOOSE u \in Users : TRUE

Discovering == "bound" \in mishaps \/ \E d \in Discoveries : call[d].at # "idle"

\* The names that credentials are for.
Scopes == ({e.key.target : e \in issued} \cup {cmd[p].target : p \in Operators}) \ {None}

\* The names of rows and of a device being discovered.
Devices ==
  ({call[d].ident : d \in Discoveries} \cup UNION {{rows[r].host, rows[r].ip} : r \in Present})
    \ {None}

\* BOUND: what is disturbed is about ssh passwords, one user of a host and one
\* row; a discovery meets the credentials of one target, and with a command
\* killed one name; a keyring delete fails in peace.
InBounds ==
  /\ Discovering \/ mishaps # {} =>
       /\ \A p \in Operators :
            /\ cmd[p].user \in {User, None}
            /\ cmd[p].type \in {"ssh", None}
            /\ cmd[p].auth \in {"password", None}
            /\ cmd[p].target \notin Clusters
       /\ \A e \in issued :
            /\ e.key.user = User /\ e.auth = "password"
            /\ e.key.type = "ssh" /\ e.key.target \notin Clusters
       /\ Cardinality({r \in RowIds : rows[r] # NoRow}) <= 1
  /\ Discovering => Cardinality(Scopes) <= 1
  /\ Discovering /\ "killed" \in mishaps => Cardinality(Scopes \cup Devices) <= 1
  /\ "kept" \in mishaps => mishaps = {"kept"} /\ ~ Discovering

MCNext == Next /\ InBounds'

MCSpec == Init /\ [][MCNext]_vars
=============================================================================
