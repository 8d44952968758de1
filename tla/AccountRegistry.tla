-------------------------- MODULE AccountRegistry --------------------------
(***************************************************************************)
(* What the credential registry promises its users: a table of accounts    *)
(* that changes only by whole commands.  `credentials add` puts one entry  *)
(* in and takes out at most the entry of the same account; `credentials    *)
(* remove` takes out the entries of one target and type, all of them and   *)
(* no other.  What it does not promise is to survive a kill: a command     *)
(* killed as it saves loses the table, all of it.  CredentialBindings      *)
(* implements this as long as commands do not overlap.                     *)
(***************************************************************************)
EXTENDS CredentialStore

VARIABLES
  accounts,  \* the entries
  lost       \* whether a kill has ever lost them

Empty == accounts = {} /\ lost = FALSE

Put(e) ==
  /\ e.id \notin {f.id : f \in accounts}
  /\ accounts' = Registered(accounts, e)
  /\ UNCHANGED lost

Drop(type, target) ==
  /\ EntriesFor(accounts, type, target) # {}
  /\ accounts' = Unregistered(accounts, type, target)
  /\ UNCHANGED lost

Lose == accounts' = {} /\ lost' = TRUE

Change ==
  \/ \E e \in Entry : Put(e)
  \/ \E type \in CredTypes, target \in Targets : Drop(type, target)
  \/ Lose

RegistrySpec == Empty /\ [][Change]_<<accounts, lost>>
=============================================================================
