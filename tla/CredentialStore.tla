-------------------------- MODULE CredentialStore --------------------------
(***************************************************************************)
(* The two halves of the credential store (credential_store.py): the OS    *)
(* keyring, which holds one secret per account, and the JSON registry,     *)
(* which lists the accounts that have one.  This module says what they     *)
(* hold and what the store's functions compute from them; the processes    *)
(* that call those functions are in CredentialBindings.                    *)
(*                                                                         *)
(* A secret is abstracted to its kind: a password, or the path of a        *)
(* private key.  A host argument and a cluster name are both "targets":    *)
(* the keyring name `user@cluster:name` never equals `user@host`, and a    *)
(* cluster entry has an empty hostname, so the two never match each other. *)
(***************************************************************************)
CONSTANTS
  Hosts,        \* what an operator types as <hostname>: host names and IPs
  Clusters,     \* Proxmox cluster names
  Users,        \* account names
  Ids,          \* the UUIDs that credential ids are drawn from
  CredTypes,    \* the credential types in play
  None,         \* Python's None
  Torn          \* the content of a registry file caught between open and write

ASSUME CredTypesAssumption == CredTypes \subseteq {"ssh", "proxmox"}
ASSUME TargetsAssumption == Hosts \cap Clusters = {}
ASSUME NoneAssumption == None \notin Ids /\ None \notin {"password", "key"}

Kinds == {"password", "key"}

Targets == Hosts \cup Clusters

\* What a secret is stored under.  Only Proxmox credentials have cluster scope.
Key == {k \in [type : CredTypes, user : Users, target : Targets] :
            k.target \in Clusters => k.type = "proxmox"}

\* One element of the registry's JSON list.
Entry == [id : Ids, key : Key, auth : Kinds]

\* What a save leaves half way is not what any save leaves at its end.
ASSUME TornAssumption == Torn \notin SUBSET Entry

\* --key-path is accepted for per-node SSH credentials only.
Accepts(k, auth) == auth = "key" => k.type = "ssh" /\ k.target \in Hosts

\* _load_registry: a missing or unreadable file reads as the empty list.
Load(file) == IF file = Torn THEN {} ELSE file

\* MUTANT: the old entry of the account stays.
RegisteredTwice(entries, e) == entries \cup {e}

\* MUTANT: the list is started anew.
RegisteredAlone(entries, e) == {e}

\* register_credential: the new entry replaces the one of the same account.
Registered(entries, e) == {f \in entries : f.key # e.key} \cup {e}

\* MUTANT: the credential type is not compared.
UnregisteredAnyType(entries, type, target) == {f \in entries : f.key.target # target}

\* unregister_credential / unregister_cluster_credential: every entry of the
\* target and type goes, whatever its user.
Unregistered(entries, type, target) ==
  {f \in entries : ~(f.key.type = type /\ f.key.target = target)}

\* list_credentials narrowed to one target, as remove and the resolver do.
EntriesFor(entries, type, target) ==
  {f \in entries : f.key.type = type /\ f.key.target = target}

\* At most one entry per account, at most one entry per UUID.
WellFormed(entries) ==
  \A e, f \in entries : (e.key = f.key \/ e.id = f.id) => e = f
=============================================================================
