-------------------------- MODULE TofuKnownHosts --------------------------
(***************************************************************************)
(* Trust on first use: ssh_connect and TOFUSSHClient (ssh_connection.py)   *)
(* over the known_hosts file that every process of the program shares.     *)
(*                                                                         *)
(* asyncssh reads the file when the transport is up, the server presents   *)
(* its key later, and validate_host_public_key is asked only about a key   *)
(* that was not in what was read.  Its check and its append are guarded by *)
(* a lock, but the lock belongs to one process and the file does not.      *)
(***************************************************************************)
EXTENDS Naturals, FiniteSets

CONSTANTS
  Host,      \* host labels: a name, or [name]:port
  Key,       \* host keys
  Attempt,   \* calls of ssh_connect that may be in progress at once
  Process,   \* processes that share the file (servers, commands)
  IOFails,   \* may reading or appending raise OSError
  MaxRekeys, \* BOUND: hosts that change their key
  None

ASSUME TofuAssumption ==
  /\ Key # {} /\ IOFails \in BOOLEAN /\ MaxRekeys \in Nat
  /\ None \notin Attempt \cup Host \cup Key

VARIABLES
  known,     \* the known_hosts file: its <<host label, key>> entries, each with
             \* the process that appended it (history)
  faults,    \* hosts for which reading or appending has raised (history)
  hostKey,   \* Host -> the key its server presents
  rekeys,    \* how many keys have changed
  pc,        \* Attempt -> where the call is
  at,        \* Attempt -> the process it runs in, or None
  host,      \* Attempt -> the host it connects to, or None
  trusted,   \* Attempt -> the keys asyncssh read for that host
  presented, \* Attempt -> the key the server presented, or None
  before,    \* Attempt -> the keys on file when ssh_connect was called (history)
  lock       \* Process -> the attempt holding _tofu_lock, or None

servers == <<hostKey, rekeys>>
call    == <<pc, at, host, trusted, presented, before>>
file    == <<known, faults>>
vars    == <<file, servers, call, lock>>

KeysOf(h) == {k \in Key : \E p \in Process : <<h, k, p>> \in known}

TypeOK ==
  /\ known \subseteq Host \X Key \X Process
  /\ faults \subseteq Host
  /\ hostKey \in [Host -> Key]
  /\ rekeys \in 0..MaxRekeys
  /\ pc \in [Attempt -> {"idle", "connecting", "handshake", "validating",
                         "storing", "accepted", "rejected"}]
  /\ at \in [Attempt -> Process \cup {None}]
  /\ host \in [Attempt -> Host \cup {None}]
  /\ trusted \in [Attempt -> SUBSET Key]
  /\ presented \in [Attempt -> Key \cup {None}]
  /\ before \in [Attempt -> SUBSET Key]
  /\ lock \in [Process -> Attempt \cup {None}]

Init ==
  /\ known = {}
  /\ faults = {}
  /\ hostKey \in [Host -> Key]
  /\ rekeys = 0
  /\ pc = [a \in Attempt |-> "idle"]
  /\ at = [a \in Attempt |-> None]
  /\ host = [a \in Attempt |-> None]
  /\ trusted = [a \in Attempt |-> {}]
  /\ presented = [a \in Attempt |-> None]
  /\ before = [a \in Attempt |-> {}]
  /\ lock = [p \in Process |-> None]

-----------------------------------------------------------------------------
Go(a, from, to) == pc[a] = from /\ pc' = [pc EXCEPT ![a] = to]

\* ssh_connect(h) is called in process p: the file exists from here on.
Call(a, h, p) ==
  /\ Go(a, "idle", "connecting")
  /\ host' = [host EXCEPT ![a] = h]
  /\ at' = [at EXCEPT ![a] = p]
  /\ before' = [before EXCEPT ![a] = KeysOf(h)]
  /\ UNCHANGED <<file, servers, trusted, presented, lock>>

\* asyncssh has a transport and reads the file's keys for the host.
ReadKnownHosts(a) ==
  /\ Go(a, "connecting", "handshake")
  /\ trusted' = [trusted EXCEPT ![a] = KeysOf(host[a])]
  /\ UNCHANGED <<file, servers, at, host, presented, before, lock>>

\* MUTANT: the callback decides about every key, stored ones included.
HandshakeAsking(a) ==
  /\ Go(a, "handshake", "validating")
  /\ presented' = [presented EXCEPT ![a] = hostKey[host[a]]]
  /\ UNCHANGED <<file, servers, at, host, trusted, before, lock>>

\* The server presents its key: one that was read is accepted, any other is put
\* to validate_host_public_key.
Handshake(a) ==
  /\ Go(a, "handshake", IF hostKey[host[a]] \in trusted[a] THEN "accepted" ELSE "validating")
  /\ presented' = [presented EXCEPT ![a] = hostKey[host[a]]]
  /\ UNCHANGED <<file, servers, at, host, trusted, before, lock>>

\* The file is read: any key of the host on it rejects; none, or a file that
\* cannot be read, goes on to store.
Verdict(a) ==
  \/ /\ Go(a, "validating", IF KeysOf(host[a]) = {} THEN "storing" ELSE "rejected")
     /\ UNCHANGED faults
  \/ /\ IOFails
     /\ Go(a, "validating", "storing")
     /\ faults' = faults \cup {host[a]}

\* MUTANT: the sequence runs without _tofu_lock.
CheckUnlocked(a) ==
  /\ Verdict(a)
  /\ UNCHANGED <<known, servers, at, host, trusted, presented, before, lock>>

\* MUTANT: a rejection returns with the lock held.
CheckHolding(a) ==
  /\ Verdict(a)
  /\ lock[at[a]] = None
  /\ lock' = [lock EXCEPT ![at[a]] = a]
  /\ UNCHANGED <<known, servers, at, host, trusted, presented, before>>

\* validate_host_public_key up to _host_has_stored_key, which goes on to store
\* with the lock in hand.
Check(a) ==
  /\ Verdict(a)
  /\ lock[at[a]] = None
  /\ lock' = [lock EXCEPT ![at[a]] = IF pc'[a] = "storing" THEN a ELSE None]
  /\ UNCHANGED <<known, servers, at, host, trusted, presented, before>>

Entry(a) == <<host[a], presented[a], at[a]>>

\* The append of one entry, or the OSError it raised, which is only logged.
WriteEntry(a, after) ==
  /\ Go(a, "storing", "accepted")
  /\ \/ known' = after /\ UNCHANGED faults
     \/ IOFails /\ faults' = faults \cup {host[a]} /\ UNCHANGED known
  /\ lock' = [lock EXCEPT ![at[a]] = None]
  /\ UNCHANGED <<servers, at, host, trusted, presented, before>>

\* MUTANT: the file is opened for writing, not for appending.
StoreTruncating(a) == WriteEntry(a, {Entry(a)})

\* _store_host_key; the key is accepted whether or not the entry was written.
Store(a) == WriteEntry(a, known \cup {Entry(a)})

\* The caller is done with the connection, or with the exception.
Leave(a) ==
  /\ pc[a] \in {"accepted", "rejected"}
  /\ pc' = [pc EXCEPT ![a] = "idle"]
  /\ at' = [at EXCEPT ![a] = None]
  /\ host' = [host EXCEPT ![a] = None]
  /\ trusted' = [trusted EXCEPT ![a] = {}]
  /\ presented' = [presented EXCEPT ![a] = None]
  /\ before' = [before EXCEPT ![a] = {}]
  /\ UNCHANGED <<file, servers, lock>>

\* A host gets a new key (it is reinstalled).
Rekey(h, k) ==
  /\ rekeys < MaxRekeys /\ k # hostKey[h]
  /\ hostKey' = [hostKey EXCEPT ![h] = k]
  /\ rekeys' = rekeys + 1
  /\ UNCHANGED <<file, call, lock>>

-----------------------------------------------------------------------------
Progress(a) == ReadKnownHosts(a) \/ Handshake(a) \/ Check(a) \/ Store(a)

Next ==
  \/ \E a \in Attempt :
       \/ Progress(a) \/ Leave(a)
       \/ \E h \in Host, p \in Process : Call(a, h, p)
  \/ \E h \in Host, k \in Key : Rekey(h, k)

Spec == Init /\ [][Next]_vars

\* Each call goes on until it has an answer (connect_timeout bounds the network
\* part); the lock is not fair, but it is never held across an await.
FairSpec == Spec /\ \A a \in Attempt : SF_vars(Progress(a))

-----------------------------------------------------------------------------
\* "to prevent concurrent first-connections from writing conflicting host keys"
\* (ssh_connection.py:60): as long as the file can be read and written for a host,
\* no process appends two keys for it.  The lock is not shared, so two may differ.
OneKeyPerProcess ==
  \A h \in Host \ faults, p \in Process : \A k1, k2 \in Key :
    <<h, k1, p>> \in known /\ <<h, k2, p>> \in known => k1 = k2

\* A key that was accepted is on file, for later connections to verify against,
\* whatever is stored meanwhile, unless the file failed for that host.
AcceptedIsRecorded ==
  \A a \in Attempt :
    pc[a] = "accepted" => presented[a] \in KeysOf(host[a]) \/ host[a] \in faults

\* A host that was known when ssh_connect was called, and presents that key, is
\* not rejected, whatever other calls store meanwhile.
KnownHostAccepted ==
  \A a \in Attempt : pc[a] = "rejected" => presented[a] \notin before[a]

\* Every call of ssh_connect gets an answer.
CallsEnd ==
  \A a \in Attempt : pc[a] # "idle" ~> pc[a] \in {"accepted", "rejected"}
=============================================================================
