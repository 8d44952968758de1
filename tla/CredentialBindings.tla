------------------------ MODULE CredentialBindings ------------------------
(***************************************************************************)
(* Credentials, and the sitemap rows bound to them.                        *)
(*                                                                         *)
(* Two kinds of actors share three stores that no lock protects together:  *)
(*   - operators run `homelab-mcp credentials add|remove|link|unlink`, each *)
(*     command a process of its own (server.py);                           *)
(*   - MCP servers run discover_and_store and remove_device (sitemap.py).  *)
(* The stores are the OS keyring, the registry file and the sitemap        *)
(* database.  A step of this model is one access to one of them, so every  *)
(* point between two accesses is a point where another process may run or  *)
(* this one may die.                                                       *)
(***************************************************************************)
EXTENDS CredentialStore, Naturals, FiniteSets

CONSTANTS
  RowIds,        \* ids of sitemap rows (bounds the rows ever inserted)
  Operators,     \* credentials commands that may run at the same time
  Discoveries,   \* discover_and_store calls that may be in flight
  MayCrash,      \* whether a command may be killed half way
  KeyringMayFail,\* whether a keyring delete may fail (it is then ignored)
  NoRow,         \* a row id not inserted yet
  Gone           \* a row id whose row was deleted (AUTOINCREMENT: never reused)

ASSUME RowAssumption == NoRow # Gone

\* discover_and_store resolves SSH credentials.
ASSUME DiscoveryAssumption == Discoveries # {} => "ssh" \in CredTypes

VARIABLES
  keyring,   \* Key -> the kind of the secret stored, or None
  file,      \* the registry file: a set of entries, or Torn
  rows,      \* RowIds -> the row, NoRow or Gone
  pc,        \* Operators -> the next store access of the running command
  cmd,       \* Operators -> the command's arguments and results so far
  base,      \* Operators -> the entries the command loaded
  snap,      \* Operators -> what the command is about to write to the file
  listed,    \* Operators -> the entries a remove found
  todo,      \* Operators -> those it has not dealt with in the present loop
  call,      \* Discoveries -> the state of a discover_and_store call
  issued,    \* history: every entry ever created
  dying,     \* history: the UUIDs some remove found
  replaced,  \* history: the UUIDs some add replaced
  nulled,    \* history: the UUIDs some remove has cleared from the rows
  mishaps    \* history: what has gone wrong so far, of Mishaps

stores  == <<keyring, file, rows>>
local   == <<pc, cmd, base, snap, listed, todo>>
history == <<issued, dying, replaced, nulled, mishaps>>
vars    == <<stores, local, call, history>>

Row == [host : Hosts, ip : Hosts, cred : [CredTypes -> Ids \cup {None}]]

Unbound(h, ip) == [host |-> h, ip |-> ip, cred |-> [t \in CredTypes |-> None]]

Pcs == {"idle", "register", "truncate", "write", "autobind", "prompt", "bind",
        "delete", "unregister", "null"}

Command == [verb   : {"none", "add", "remove", "link", "unlink"},
            type   : CredTypes \cup {None},
            target : Targets \cup {None},
            user   : Users \cup {None},
            auth   : Kinds \cup {None},
            id     : Ids \cup {None},
            host   : Hosts \cup {None},
            asked  : BOOLEAN]

NoCommand == [verb |-> "none", type |-> None, target |-> None, user |-> None,
              auth |-> None, id |-> None, host |-> None, asked |-> FALSE]

CallState == [at    : {"idle", "dialing", "bind"},
              ident : Hosts \cup {None},   \* the identifier asked for
              dial  : Hosts \cup {None},   \* the address dialled
              ok    : BOOLEAN,             \* credentials were resolved
              used  : Ids \cup {None},     \* the UUID to bind afterwards
              row   : RowIds \cup {None}]  \* the row the upsert wrote

NoCall == [at |-> "idle", ident |-> None, dial |-> None, ok |-> FALSE,
           used |-> None, row |-> None]

\* A command was killed; it was killed with the registry file emptied; the
\* keyring kept a secret it was to delete; a discovery wrote a binding.
Mishaps == {"killed", "torn", "kept", "bound"}

TypeOK ==
  /\ keyring \in [Key -> Kinds \cup {None}]
  /\ file \in (SUBSET Entry) \cup {Torn}
  /\ rows \in [RowIds -> Row \cup {NoRow, Gone}]
  /\ pc \in [Operators -> Pcs]
  /\ cmd \in [Operators -> Command]
  /\ base \in [Operators -> SUBSET Entry]
  /\ snap \in [Operators -> SUBSET Entry]
  /\ listed \in [Operators -> SUBSET Entry]
  /\ todo \in [Operators -> SUBSET Entry]
  /\ call \in [Discoveries -> CallState]
  /\ issued \in SUBSET Entry
  /\ dying \in SUBSET Ids
  /\ replaced \in SUBSET Ids
  /\ nulled \in SUBSET Ids
  /\ mishaps \in SUBSET Mishaps

\* A sitemap that earlier discoveries with explicit passwords filled, and no
\* credential yet.
Init ==
  /\ keyring = [k \in Key |-> None]
  /\ file = {}
  /\ rows \in [RowIds -> {NoRow} \cup {Unbound(h, ip) : h, ip \in Hosts}]
  /\ pc = [p \in Operators |-> "idle"]
  /\ cmd = [p \in Operators |-> NoCommand]
  /\ base = [p \in Operators |-> {}]
  /\ snap = [p \in Operators |-> {}]
  /\ listed = [p \in Operators |-> {}]
  /\ todo = [p \in Operators |-> {}]
  /\ call = [d \in Discoveries |-> NoCall]
  /\ issued = {}
  /\ dying = {}
  /\ replaced = {}
  /\ nulled = {}
  /\ mishaps = {}

-----------------------------------------------------------------------------
(* Lookups in the sitemap.                                                 *)

Present == {r \in RowIds : rows[r] \notin {NoRow, Gone}}

\* find_devices_by_hostname_or_ip
Matching(h) == {r \in Present : h \in {rows[r].host, rows[r].ip}}

\* the same, narrowed to the exact host name
Named(h) == {r \in Present : rows[r].host = h}

-----------------------------------------------------------------------------
(* credentials add                                                         *)

KeyOf(c) == [type |-> c.type, user |-> c.user, target |-> c.target]

\* The command returns (or exits with an error).
Return(p) ==
  /\ pc' = [pc EXCEPT ![p] = "idle"]
  /\ cmd' = [cmd EXCEPT ![p] = NoCommand]
  /\ base' = [base EXCEPT ![p] = {}]
  /\ snap' = [snap EXCEPT ![p] = {}]
  /\ listed' = [listed EXCEPT ![p] = {}]
  /\ todo' = [todo EXCEPT ![p] = {}]

UnusedIds == Ids \ {e.id : e \in issued}

\* BOUND: no more commands start than there are UUIDs for their entries.
UuidsLeft ==
  Cardinality(UnusedIds) > Cardinality({q \in Operators : pc[q] = "register"})

\* MUTANT: the result of store_credential is not looked at.
AddStoreUnchecked(p, k, auth) ==
  /\ pc[p] = "idle"
  /\ Accepts(k, auth)
  /\ UuidsLeft
  /\ keyring' \in {keyring, [keyring EXCEPT ![k] = auth]}
  /\ cmd' = [cmd EXCEPT ![p] = [NoCommand EXCEPT !.verb = "add", !.type = k.type,
                 !.user = k.user, !.target = k.target, !.auth = auth]]
  /\ pc' = [pc EXCEPT ![p] = "register"]
  /\ UNCHANGED <<file, rows, base, snap, listed, todo, call, history>>

\* store_credential writes the secret.  When the keyring refuses, the command
\* exits having changed nothing, which is no step of this model.
AddStore(p, k, auth) ==
  /\ pc[p] = "idle"
  /\ Accepts(k, auth)
  /\ UuidsLeft
  /\ keyring' = [keyring EXCEPT ![k] = auth]
  /\ cmd' = [cmd EXCEPT ![p] = [NoCommand EXCEPT !.verb = "add", !.type = k.type,
                 !.user = k.user, !.target = k.target, !.auth = auth]]
  /\ pc' = [pc EXCEPT ![p] = "register"]
  /\ UNCHANGED <<file, rows, base, snap, listed, todo, call, history>>

\* register_credential up to its save: load, drop the account's old entry,
\* append one with a fresh UUID.
Register(p) ==
  /\ pc[p] = "register"
  /\ \E i \in UnusedIds :
       LET e == [id |-> i, key |-> KeyOf(cmd[p]), auth |-> cmd[p].auth]
       IN  /\ base' = [base EXCEPT ![p] = Load(file)]
           /\ snap' = [snap EXCEPT ![p] = Registered(Load(file), e)]
           /\ cmd' = [cmd EXCEPT ![p].id = i]
           /\ issued' = issued \cup {e}
           /\ replaced' = replaced \cup {f.id : f \in {g \in Load(file) : g.key = e.key}}
  /\ pc' = [pc EXCEPT ![p] = "truncate"]
  /\ UNCHANGED <<stores, listed, todo, call, dying, nulled, mishaps>>

\* _save_registry: write_text opens the file for writing, which empties it ...
Truncate(p) ==
  /\ pc[p] = "truncate"
  /\ file' = Torn
  /\ pc' = [pc EXCEPT ![p] = "write"]
  /\ UNCHANGED <<keyring, rows, cmd, base, snap, listed, todo, call, history>>

\* MUTANT: the captured entries are not kept for the second loop.
WriteForgetful(p) ==
  /\ pc[p] = "write"
  /\ file' = snap[p]
  /\ pc' = [pc EXCEPT ![p] = IF cmd[p].verb = "add" THEN "autobind" ELSE "null"]
  /\ UNCHANGED <<keyring, rows, cmd, base, snap, listed, todo, call, history>>

\* ... and then writes the list the command holds, whatever others saved since.
Write(p) ==
  /\ pc[p] = "write"
  /\ file' = snap[p]
  /\ IF cmd[p].verb = "add" /\ cmd[p].target \in Clusters
       THEN Return(p)
       ELSE /\ pc' = [pc EXCEPT ![p] = IF cmd[p].verb = "add" THEN "autobind" ELSE "null"]
            /\ todo' = [todo EXCEPT ![p] = listed[p]]
            /\ UNCHANGED <<cmd, base, snap, listed>>
  /\ UNCHANGED <<keyring, rows, call, history>>

\* MUTANT: the existing binding is not looked at.
AutoBindAlways(p) ==
  /\ pc[p] = "autobind"
  /\ LET m == Matching(cmd[p].target)
     IN \/ m = {} /\ Return(p)
        \/ \E r \in m : /\ cmd' = [cmd EXCEPT ![p].host = rows[r].host]
                        /\ pc' = [pc EXCEPT ![p] = "bind"]
                        /\ UNCHANGED <<base, snap, listed, todo>>
  /\ UNCHANGED <<stores, call, history>>

\* _auto_bind_credential looks for rows.  No match: done.  One unbound match:
\* bind it.  Otherwise a terminal is asked (about the bound row, or which of
\* several rows) and a command without a terminal is done.
AutoBind(p) ==
  /\ pc[p] = "autobind"
  /\ LET m == Matching(cmd[p].target)
     IN \/ /\ \A r \in m : m # {r} \/ rows[r].cred[cmd[p].type] # None
           /\ Return(p)
        \/ \E r \in m :
             /\ cmd' = [cmd EXCEPT ![p].host = rows[r].host]
             /\ pc' = [pc EXCEPT ![p] =
                         IF m = {r} /\ rows[r].cred[cmd[p].type] = None
                         THEN "bind" ELSE "prompt"]
             /\ UNCHANGED <<base, snap, listed, todo>>
  /\ UNCHANGED <<stores, call, history>>

\* The operator answers: yes (or the number of a row), or anything else.
Answer(p) ==
  /\ pc[p] = "prompt"
  /\ \/ /\ pc' = [pc EXCEPT ![p] = "bind"]
        /\ cmd' = [cmd EXCEPT ![p].asked = TRUE]
        /\ UNCHANGED <<base, snap, listed, todo>>
     \/ Return(p)
  /\ UNCHANGED <<stores, call, history>>

\* set_device_credential_binding looks the host name up again and writes the
\* column of the one row it names; with no row or several it raises.
Bind(p) ==
  /\ pc[p] = "bind"
  /\ LET m == Named(cmd[p].host)
     IN \/ \E r \in m : m = {r} /\ rows' = [rows EXCEPT ![r].cred[cmd[p].type] = cmd[p].id]
        \/ (\A r \in m : m # {r}) /\ UNCHANGED rows
  /\ Return(p)
  /\ UNCHANGED <<keyring, file, call, history>>

-----------------------------------------------------------------------------
(* credentials remove                                                      *)

\* The entries are captured before anything is deleted; with none of them the
\* command exits with an error.
RemoveList(p, type, target) ==
  /\ pc[p] = "idle"
  /\ LET found == EntriesFor(Load(file), type, target)
     IN  /\ found # {}
         /\ listed' = [listed EXCEPT ![p] = found]
         /\ todo' = [todo EXCEPT ![p] = found]
         /\ dying' = dying \cup {e.id : e \in found}
  /\ cmd' = [cmd EXCEPT ![p] = [NoCommand EXCEPT !.verb = "remove", !.type = type,
                 !.target = target]]
  /\ pc' = [pc EXCEPT ![p] = "delete"]
  /\ UNCHANGED <<stores, base, snap, call, issued, replaced, nulled, mishaps>>

\* delete_credential, once per captured entry; its result is not looked at.
DeleteSecret(p) ==
  /\ pc[p] = "delete"
  /\ \E e \in todo[p] :
       /\ \/ keyring' = [keyring EXCEPT ![e.key] = None] /\ UNCHANGED mishaps
          \/ KeyringMayFail /\ UNCHANGED keyring /\ mishaps' = mishaps \cup {"kept"}
       /\ todo' = [todo EXCEPT ![p] = @ \ {e}]
       /\ pc' = [pc EXCEPT ![p] = IF todo[p] = {e} THEN "unregister" ELSE "delete"]
  /\ UNCHANGED <<file, rows, cmd, base, snap, listed, call, issued, dying, replaced, nulled>>

\* MUTANT: only one of the entries goes.
UnregisterOne(p) ==
  /\ pc[p] = "unregister"
  /\ base' = [base EXCEPT ![p] = Load(file)]
  /\ \E e \in listed[p] : snap' = [snap EXCEPT ![p] = Load(file) \ {e}]
  /\ pc' = [pc EXCEPT ![p] = "truncate"]
  /\ UNCHANGED <<stores, cmd, listed, todo, call, history>>

\* unregister_credential up to its save.
Unregister(p) ==
  /\ pc[p] = "unregister"
  /\ base' = [base EXCEPT ![p] = Load(file)]
  /\ snap' = [snap EXCEPT ![p] = Unregistered(Load(file), cmd[p].type, cmd[p].target)]
  /\ pc' = [pc EXCEPT ![p] = "truncate"]
  /\ UNCHANGED <<stores, cmd, listed, todo, call, history>>

\* MUTANT: the first UUID is cleared and the rest are forgotten.
NullFirstOnly(p) ==
  /\ pc[p] = "null"
  /\ \E e \in todo[p] :
       /\ rows' = [r \in RowIds |->
                     IF r \in Present /\ rows[r].cred[cmd[p].type] = e.id
                     THEN [rows[r] EXCEPT !.cred[cmd[p].type] = None]
                     ELSE rows[r]]
       /\ nulled' = nulled \cup {e.id}
  /\ Return(p)
  /\ UNCHANGED <<keyring, file, call, issued, dying, replaced, mishaps>>

\* null_bindings_for_credential_id: one transaction per captured UUID.
NullBindings(p) ==
  /\ pc[p] = "null"
  /\ \E e \in todo[p] :
       /\ rows' = [r \in RowIds |->
                     IF r \in Present /\ rows[r].cred[cmd[p].type] = e.id
                     THEN [rows[r] EXCEPT !.cred[cmd[p].type] = None]
                     ELSE rows[r]]
       /\ nulled' = nulled \cup {e.id}
       /\ IF todo[p] = {e}
            THEN Return(p)
            ELSE todo' = [todo EXCEPT ![p] = @ \ {e}] /\ UNCHANGED <<pc, cmd, base, snap, listed>>
  /\ UNCHANGED <<keyring, file, call, issued, dying, replaced, mishaps>>

-----------------------------------------------------------------------------
(* credentials link, credentials unlink                                    *)

\* MUTANT: the type of the credential is not compared.
LinkCheckAnyType(p, type, h, i) ==
  /\ pc[p] = "idle"
  /\ \E e \in Load(file) : e.id = i
  /\ \E r \in RowIds : Named(h) = {r}
  /\ cmd' = [cmd EXCEPT ![p] = [NoCommand EXCEPT !.verb = "link", !.type = type,
                 !.id = i, !.host = h]]
  /\ pc' = [pc EXCEPT ![p] = "bind"]
  /\ UNCHANGED <<stores, base, snap, listed, todo, call, history>>

\* The UUID must be registered and of the requested type, and the host name
\* must name exactly one row.
LinkCheck(p, type, h, i) ==
  /\ pc[p] = "idle"
  /\ \E e \in Load(file) : e.id = i /\ e.key.type = type
  /\ \E r \in RowIds : Named(h) = {r}
  /\ cmd' = [cmd EXCEPT ![p] = [NoCommand EXCEPT !.verb = "link", !.type = type,
                 !.id = i, !.host = h]]
  /\ pc' = [pc EXCEPT ![p] = "bind"]
  /\ UNCHANGED <<stores, base, snap, listed, todo, call, history>>

UnlinkCheck(p, type, h) ==
  /\ pc[p] = "idle"
  /\ \E r \in RowIds : Named(h) = {r}
  /\ cmd' = [cmd EXCEPT ![p] = [NoCommand EXCEPT !.verb = "unlink", !.type = type,
                 !.host = h]]
  /\ pc' = [pc EXCEPT ![p] = "bind"]
  /\ UNCHANGED <<stores, base, snap, listed, todo, call, history>>

\* Ctrl-C, a closed terminal, a reboot: the command is gone, its writes stay.
Crash(p) ==
  /\ MayCrash
  /\ pc[p] # "idle"
  /\ Return(p)
  /\ mishaps' = mishaps \cup {"killed"} \cup (IF pc[p] = "write" THEN {"torn"} ELSE {})
  /\ UNCHANGED <<stores, call, issued, dying, replaced, nulled>>

-----------------------------------------------------------------------------
(* discover_and_store                                                      *)

\* The registered accounts the resolver considers for an identifier.
Candidates(h, user) ==
  {e \in EntriesFor(Load(file), "ssh", h) : user \in {None, e.key.user}}

HasSecret(e) == keyring[e.key] # None

\* MUTANT: the UUID to bind is captured even when the resolver refused it, and
\* from any registered account of the host.
ResolutionUnchecked(h, user, password) ==
  LET m == Matching(h)
      c == {e \in issued : e.key.target = h}
  IN  [at |-> "dialing", ident |-> h, dial |-> h, ok |-> TRUE,
       used |-> IF c = {} THEN None ELSE (CHOOSE e \in c : TRUE).id, row |-> None]

\* resolve_ssh_for_sitemap_row followed by the capture of the UUID to bind.
\* A bound row resolves through its UUID alone; an unbound row and an unknown
\* host fall back on the registry or on an explicit password; several matching
\* rows are refused.  Only an unknown host captures a UUID from the registry.
Resolution(h, user, password) ==
  LET m      == Matching(h)
      c      == Candidates(h, user)
      lookup == IF password THEN user # None \/ \E e \in c : c = {e}
                            ELSE \E e \in c : c = {e} /\ HasSecret(e)
      found  == IF \E e \in c : c = {e} THEN (CHOOSE e \in c : c = {e}).id ELSE None
      row    == CHOOSE r \in m : TRUE
      bound  == rows[row].cred["ssh"]
      tier0  == \E e \in Load(file) : e.id = bound /\ e.key.type = "ssh" /\ HasSecret(e)
      result(ok, used, dial) ==
        [at |-> "dialing", ident |-> h, dial |-> dial, ok |-> ok,
         used |-> IF ok THEN used ELSE None, row |-> None]
  IN  IF m = {} THEN result(lookup, found, h)
      ELSE IF m # {row} THEN result(FALSE, None, h)
      ELSE IF bound # None THEN result(tier0, bound, rows[row].ip)
      ELSE result(lookup, None, rows[row].ip)

\* Everything before the await on the SSH connection.
DiscoverResolve(d, h, user, password) ==
  /\ call[d].at = "idle"
  /\ call' = [call EXCEPT ![d] = Resolution(h, user, password)]
  /\ UNCHANGED <<stores, local, history>>

\* store_device: update the row of that host name, or insert an unbound one.
\* The binding columns are not among the columns an update sets.
Upsert(d, h, ip) ==
  \E r \in RowIds :
    /\ \/ /\ r \in Named(h)
          /\ rows' = [rows EXCEPT ![r].ip = ip]
       \/ /\ Named(h) = {}
          /\ rows[r] = NoRow
          /\ rows' = [rows EXCEPT ![r] = Unbound(h, ip)]
    /\ call' = [call EXCEPT ![d] = IF call[d].used = None THEN NoCall
                                   ELSE [@ EXCEPT !.at = "bind", !.row = r]]

\* The device answered, with the host name it calls itself.
DiscoverSucceed(d) ==
  /\ call[d].at = "dialing"
  /\ call[d].ok
  /\ \E h \in Hosts : Upsert(d, h, call[d].dial)
  /\ UNCHANGED <<keyring, file, local, history>>

\* The device did not answer, or no credential was resolved: the error goes to
\* a row matching the identifier, or to a new one.
DiscoverFail(d) ==
  /\ call[d].at = "dialing"
  /\ LET m == Matching(call[d].ident)
     IN \/ \E r \in m : Upsert(d, rows[r].host, rows[r].ip)
        \/ m = {} /\ Upsert(d, call[d].ident, call[d].dial)
  /\ UNCHANGED <<keyring, file, local, history>>

\* The UUID captured before the await is written back, in a transaction of its
\* own; on SQLite a row deleted meanwhile makes this a no-op.
DiscoverBind(d) ==
  /\ call[d].at = "bind"
  /\ rows' = IF call[d].row \in Present
             THEN [rows EXCEPT ![call[d].row].cred["ssh"] = call[d].used]
             ELSE rows
  /\ call' = [call EXCEPT ![d] = NoCall]
  /\ mishaps' = mishaps \cup {"bound"}
  /\ UNCHANGED <<keyring, file, local, issued, dying, replaced, nulled>>

\* The client cancels the call, or the server dies.
DiscoverAbort(d) ==
  /\ call[d].at # "idle"
  /\ call' = [call EXCEPT ![d] = NoCall]
  /\ UNCHANGED <<stores, local, history>>

\* remove_device, and each row a purge deletes.
RemoveDevice(r) ==
  /\ r \in Present
  /\ rows' = [rows EXCEPT ![r] = Gone]
  /\ UNCHANGED <<keyring, file, local, call, history>>

-----------------------------------------------------------------------------

Step(p) ==
  \/ Register(p) \/ Truncate(p) \/ Write(p) \/ AutoBind(p) \/ Bind(p)
  \/ DeleteSecret(p) \/ Unregister(p) \/ NullBindings(p)

Begin(p) ==
  \/ \E k \in Key, auth \in Kinds : AddStore(p, k, auth)
  \/ \E type \in CredTypes, target \in Targets : RemoveList(p, type, target)
  \/ \E type \in CredTypes, h \in Hosts :
       \/ UnlinkCheck(p, type, h)
       \/ \E i \in Ids : LinkCheck(p, type, h, i)

Discover(d) ==
  \/ \E h \in Hosts, user \in Users \cup {None}, password \in BOOLEAN :
       DiscoverResolve(d, h, user, password)
  \/ DiscoverSucceed(d)
  \/ DiscoverFail(d)
  \/ DiscoverBind(d)
  \/ DiscoverAbort(d)

Unkilled ==
  \/ \E p \in Operators : Begin(p) \/ Step(p) \/ Answer(p)
  \/ \E d \in Discoveries : Discover(d)
  \/ \E r \in RowIds : RemoveDevice(r)

Next == Unkilled \/ \E p \in Operators : Crash(p)

Spec == Init /\ [][Next]_vars

\* A started command is run to its end by the operating system, unless it is killed;
\* nothing makes an operator start one or answer a prompt.
FairSpec == Init /\ [][Unkilled]_vars /\ \A p \in Operators : WF_vars(Step(p))
-----------------------------------------------------------------------------
(* What no interleaving and no crash can break.                            *)

\* The registry never lists an account twice, nor a UUID twice: whatever
\* commands overlap, every save writes a list that register_credential
\* deduplicated.
RegistryWellFormed == WellFormed(Load(file))

\* A row's ssh column never holds the UUID of a Proxmox credential, nor the
\* other way round: link refuses it, add and discovery bind what they looked
\* up by type, and a UUID never changes its entry.
BindingTypeSafe ==
  \A r \in Present, t \in CredTypes :
    rows[r].cred[t] # None =>
      \E e \in issued : e.id = rows[r].cred[t] /\ e.key.type = t

\* While commands do not overlap, a binding to a UUID that is not registered
\* has a cause: a remove found the UUID, an add replaced it, or a command was
\* killed while the file was empty, which is the only kill that loses entries.
\* A discovery in flight may write such a binding back, but none of its own
\* making.
StaleHasCause ==
  file # Torn /\ "torn" \notin mishaps =>
    \A r \in Present, t \in CredTypes :
      rows[r].cred[t] \in {None} \cup {e.id : e \in Load(file)} \cup dying \cup replaced

-----------------------------------------------------------------------------
(* What commands that do not overlap guarantee.                            *)

Quiet == \A p \in Operators : pc[p] = "idle"

\* Between commands that ran to their end, keyring and registry agree: every
\* entry has a secret of the kind it says, and unless the keyring kept a secret
\* it was to delete, every secret has an entry.
ConsistentAtRest ==
  Quiet /\ "killed" \notin mishaps =>
    /\ file # Torn
    /\ \A e \in Load(file) : keyring[e.key] = e.auth
    /\ "kept" \notin mishaps =>
         \A k \in Key : keyring[k] # None => \E e \in Load(file) : e.key = k

\* Wherever a command is killed, an entry without a secret is one that a remove
\* had already found: add stores the secret before it lists the account.
SecretlessEntriesWereBeingRemoved ==
  \A e \in Load(file) : ~ HasSecret(e) => e.id \in dying

\* Once remove has cleared a UUID from the sitemap, no row is bound to it.
RemovedStaysUnbound ==
  \A r \in Present, t \in CredTypes : rows[r].cred[t] \notin nulled

\* Between commands that ran to their end, and as long as no discovery has
\* written a binding, a binding whose UUID is not in the registry is one whose
\* credential was replaced by a later add.
StaleOnlyByRotation ==
  Quiet /\ mishaps \cap {"killed", "bound"} = {} =>
    \A r \in Present, t \in CredTypes :
      rows[r].cred[t] \in {None} \cup {e.id : e \in Load(file)} \cup replaced

AutoBindKeeps ==
  \A p \in Operators, r \in RowIds :
    /\ "bound" \notin mishaps
    /\ pc[p] = "bind"
    /\ pc'[p] = "idle"
    /\ cmd[p].verb = "add"
    /\ ~ cmd[p].asked
    /\ r \in Present
    /\ rows[r].cred[cmd[p].type] # None
    => rows'[r] = rows[r]

\* add without a yes from the operator never changes a binding that exists: no
\* step between its look at the rows and its write can have made one, but that
\* of a discovery.
AutoBindNeverOverwrites == [][AutoBindKeeps]_vars

\* The registry as of its last completed save.
SavedRegistry ==
  IF file # Torn THEN file
  ELSE UNION {base[p] : p \in {q \in Operators : pc[q] = "write"}}

Accounts ==
  INSTANCE AccountRegistry WITH accounts <- SavedRegistry, lost <- "torn" \in mishaps

\* The registry file changes by whole commands, and is lost only as a whole,
\* when a command is killed that had emptied it.
ImplementsAccountRegistry == Accounts!RegistrySpec

\* A started command ends, or waits for its operator's answer.
CommandsEnd ==
  \A p \in Operators : pc[p] \notin {"idle", "prompt"} ~> pc[p] \in {"idle", "prompt"}

=============================================================================
