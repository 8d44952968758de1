----------------------- MODULE TofuKnownHostsProofs -----------------------
(***************************************************************************)
(* Proofs about TofuKnownHosts, for every set of hosts, keys, calls and    *)
(* processes, and whether or not the file can be read and written.  One    *)
(* inductive invariant carries the three safety properties: what a call    *)
(* read is on file still, because entries are never removed, and a call    *)
(* that is storing holds its process's lock, so no entry of its process    *)
(* can appear for its host between its check and its append.               *)
(***************************************************************************)
EXTENDS TofuKnownHosts, TLAPS

\* A call that is under way has a host and a process, and a key once the server
\* has presented one.
CallWhole ==
  \A a \in Attempt :
    /\ pc[a] # "idle" => host[a] \in Host /\ at[a] \in Process
    /\ pc[a] \in {"validating", "storing", "accepted", "rejected"} => presented[a] \in Key

\* The call that is storing holds its process's lock.
LockHeld == \A a \in Attempt : pc[a] = "storing" => lock[at[a]] = a

\* What was on file at the call is on file when it is read, and is what is read.
BeforeOnFile == \A a \in Attempt : pc[a] = "connecting" => before[a] \subseteq KeysOf(host[a])
BeforeRead == \A a \in Attempt : pc[a] = "handshake" => before[a] \subseteq trusted[a]
BeforeSpared ==
  \A a \in Attempt : pc[a] \in {"validating", "storing", "rejected"} => presented[a] \notin before[a]

\* What was read is on file still.
ReadOnFile == \A a \in Attempt : pc[a] = "handshake" => trusted[a] \subseteq KeysOf(host[a])

\* Between its check and its append, a call's host has no key from its process.
StoringIsFirst ==
  \A a \in Attempt : pc[a] = "storing" /\ host[a] \notin faults =>
    \A k \in Key : <<host[a], k, at[a]>> \notin known

Typed == TypeOK /\ CallWhole
Spared == BeforeOnFile /\ BeforeRead /\ BeforeSpared
Recorded == ReadOnFile /\ AcceptedIsRecorded
Locked == LockHeld /\ StoringIsFirst /\ OneKeyPerProcess

IInv == Typed /\ Spared /\ Recorded /\ Locked

\* The steps of a call, for the case splits below.
LEMMA NextCases ==
  ASSUME [Next]_vars
  PROVE  \/ \E a \in Attempt, h \in Host, p \in Process : Call(a, h, p)
         \/ \E a \in Attempt : ReadKnownHosts(a)
         \/ \E a \in Attempt : Handshake(a)
         \/ \E a \in Attempt : Check(a)
         \/ \E a \in Attempt : Store(a)
         \/ \E a \in Attempt : Leave(a)
         \/ \E h \in Host, k \in Key : Rekey(h, k)
         \/ UNCHANGED vars
  BY DEF Next, Progress

\* The file only grows, and so do the hosts it has failed for.
LEMMA FileGrows ==
  ASSUME [Next]_vars
  PROVE  known \subseteq known' /\ faults \subseteq faults' /\ \A h : KeysOf(h) \subseteq KeysOf(h)'
  <1>1. known \subseteq known' /\ faults \subseteq faults'
    BY NextCases DEF Call, ReadKnownHosts, Handshake, Check, Verdict, Store, WriteEntry, Leave,
                     Rekey, vars, file
  <1>q. QED BY <1>1 DEF KeysOf

\* A step that appends nothing leaves every host its keys.
LEMMA SameFile == ASSUME known' = known PROVE \A h : KeysOf(h)' = KeysOf(h)
  BY DEF KeysOf

LEMMA InvInit == Init => IInv
  BY TofuAssumption
  DEF Init, IInv, Typed, Spared, Recorded, Locked, TypeOK, CallWhole, LockHeld, BeforeOnFile,
      BeforeRead, BeforeSpared, ReadOnFile, AcceptedIsRecorded, StoringIsFirst, OneKeyPerProcess

\* The types, and the parts of a call.
LEMMA TypedNext == ASSUME Typed, [Next]_vars PROVE Typed'
  <1> USE TofuAssumption DEF Typed, TypeOK, CallWhole
  <1>1. ASSUME NEW a \in Attempt, NEW h \in Host, NEW p \in Process, Call(a, h, p) PROVE Typed'
    <2>1. KeysOf(h) \in SUBSET Key BY DEF KeysOf
    <2>q. QED BY <1>1, <2>1 DEF Call, Go, file, servers
  <1>2. ASSUME NEW a \in Attempt, ReadKnownHosts(a) PROVE Typed'
    <2>1. KeysOf(host[a]) \in SUBSET Key BY DEF KeysOf
    <2>q. QED BY <1>2, <2>1 DEF ReadKnownHosts, Go, file, servers
  <1>3. ASSUME NEW a \in Attempt, Handshake(a) PROVE Typed'
    BY <1>3 DEF Handshake, Go, file, servers
  <1>4. ASSUME NEW a \in Attempt, Check(a) PROVE Typed'
    BY <1>4 DEF Check, Verdict, Go, servers
  <1>5. ASSUME NEW a \in Attempt, Store(a) PROVE Typed'
    BY <1>5 DEF Store, WriteEntry, Entry, Go, servers
  <1>6. ASSUME NEW a \in Attempt, Leave(a) PROVE Typed'
    BY <1>6 DEF Leave, file, servers
  <1>7. ASSUME NEW h \in Host, NEW k \in Key, Rekey(h, k) PROVE Typed'
    BY <1>7 DEF Rekey, file, call
  <1>8. ASSUME UNCHANGED vars PROVE Typed'
    BY <1>8 DEF vars, file, call, servers
  <1>q. QED BY <1>1, <1>2, <1>3, <1>4, <1>5, <1>6, <1>7, <1>8, NextCases

\* What a call found on file, from the call to its verdict.
LEMMA SparedNext == ASSUME Typed, Spared, [Next]_vars PROVE Spared'
  <1> USE DEF Typed, TypeOK, CallWhole, Spared, BeforeOnFile, BeforeRead, BeforeSpared
  <1>g. \A h : KeysOf(h) \subseteq KeysOf(h)' BY FileGrows
  <1>1. ASSUME NEW a \in Attempt, NEW h \in Host, NEW p \in Process, Call(a, h, p) PROVE Spared'
    BY <1>1, <1>g DEF Call, Go
  <1>2. ASSUME NEW a \in Attempt, ReadKnownHosts(a) PROVE Spared'
    BY <1>2, <1>g DEF ReadKnownHosts, Go
  <1>3. ASSUME NEW a \in Attempt, Handshake(a) PROVE Spared'
    BY <1>3, <1>g DEF Handshake, Go
  <1>4. ASSUME NEW a \in Attempt, Check(a) PROVE Spared'
    BY <1>4, <1>g DEF Check, Verdict, Go
  <1>5. ASSUME NEW a \in Attempt, Store(a) PROVE Spared'
    BY <1>5, <1>g DEF Store, WriteEntry, Go
  <1>6. ASSUME NEW a \in Attempt, Leave(a) PROVE Spared'
    BY <1>6, <1>g DEF Leave
  <1>7. ASSUME NEW h \in Host, NEW k \in Key, Rekey(h, k) PROVE Spared'
    BY <1>7, <1>g DEF Rekey, call
  <1>8. ASSUME UNCHANGED vars PROVE Spared'
    BY <1>8, <1>g DEF vars, call
  <1>q. QED BY <1>1, <1>2, <1>3, <1>4, <1>5, <1>6, <1>7, <1>8, NextCases

\* An accepted key was read from the file, or appended to it, unless the file failed.
LEMMA RecordedNext == ASSUME Typed, Recorded, [Next]_vars PROVE Recorded'
  <1> USE DEF Typed, TypeOK, CallWhole, Recorded, ReadOnFile, AcceptedIsRecorded
  <1>g. faults \subseteq faults' /\ \A h : KeysOf(h) \subseteq KeysOf(h)' BY FileGrows
  <1>1. ASSUME NEW a \in Attempt, NEW h \in Host, NEW p \in Process, Call(a, h, p) PROVE Recorded'
    BY <1>1, <1>g DEF Call, Go
  <1>2. ASSUME NEW a \in Attempt, ReadKnownHosts(a) PROVE Recorded'
    BY <1>2, <1>g DEF ReadKnownHosts, Go
  <1>3. ASSUME NEW a \in Attempt, Handshake(a) PROVE Recorded'
    BY <1>3, <1>g DEF Handshake, Go
  <1>4. ASSUME NEW a \in Attempt, Check(a) PROVE Recorded'
    BY <1>4, <1>g DEF Check, Verdict, Go
  <1>5. ASSUME NEW a \in Attempt, Store(a) PROVE Recorded'
    <2>1. presented[a] \in KeysOf(host[a])' \/ host[a] \in faults'
      BY <1>5 DEF Store, WriteEntry, Entry, Go, KeysOf
    <2>2. pc' = [pc EXCEPT ![a] = "accepted"] /\ UNCHANGED <<host, presented, trusted>>
      BY <1>5 DEF Store, WriteEntry, Go
    <2>q. QED BY <2>1, <2>2, <1>g
  <1>6. ASSUME NEW a \in Attempt, Leave(a) PROVE Recorded'
    BY <1>6, <1>g DEF Leave
  <1>7. ASSUME NEW h \in Host, NEW k \in Key, Rekey(h, k) PROVE Recorded'
    BY <1>7, <1>g DEF Rekey, call
  <1>8. ASSUME UNCHANGED vars PROVE Recorded'
    BY <1>8, <1>g DEF vars, call
  <1>q. QED BY <1>1, <1>2, <1>3, <1>4, <1>5, <1>6, <1>7, <1>8, NextCases

\* The lock, and what it is for.
LEMMA LockedNext == ASSUME Typed, Locked, [Next]_vars PROVE Locked'
  <1> USE TofuAssumption DEF Typed, TypeOK, CallWhole, Locked, LockHeld, StoringIsFirst, OneKeyPerProcess
  <1>1. ASSUME NEW a \in Attempt, NEW h \in Host, NEW p \in Process, Call(a, h, p) PROVE Locked'
    BY <1>1 DEF Call, Go, file
  <1>2. ASSUME NEW a \in Attempt, ReadKnownHosts(a) PROVE Locked'
    BY <1>2 DEF ReadKnownHosts, Go, file
  <1>3. ASSUME NEW a \in Attempt, Handshake(a) PROVE Locked'
    BY <1>3 DEF Handshake, Go, file
  <1>4. ASSUME NEW a \in Attempt, Check(a) PROVE Locked'
    <2>1. /\ known' = known /\ faults \subseteq faults' /\ lock[at[a]] = None
          /\ UNCHANGED <<host, at>>
          /\ \A b \in Attempt \ {a} : pc'[b] = pc[b]
      BY <1>4 DEF Check, Verdict, Go
    <2>2. LockHeld' BY <1>4 DEF Check, Verdict, Go
    <2>3. pc'[a] = "storing" /\ host[a] \notin faults' =>
            \A k \in Key : <<host[a], k, at[a]>> \notin known
      BY <1>4 DEF Check, Verdict, Go, KeysOf
    <2>4. StoringIsFirst' BY <2>1, <2>3
    <2>5. OneKeyPerProcess' BY <2>1
    <2>q. QED BY <2>2, <2>4, <2>5
  <1>5. ASSUME NEW a \in Attempt, Store(a) PROVE Locked'
    <2>1. /\ pc[a] = "storing" /\ pc' = [pc EXCEPT ![a] = "accepted"]
          /\ lock' = [lock EXCEPT ![at[a]] = None]
          /\ UNCHANGED <<host, at>>
          /\ \/ known' = known \cup {<<host[a], presented[a], at[a]>>} /\ faults' = faults
             \/ known' = known /\ faults \subseteq faults'
      BY <1>5 DEF Store, WriteEntry, Entry, Go
    <2>2. \A b \in Attempt : pc[b] = "storing" /\ at[b] = at[a] => b = a
      BY <2>1
    <2>3. LockHeld' BY <2>1, <2>2
    <2>4. CASE known' = known /\ faults \subseteq faults'
      BY <2>1, <2>3, <2>4
    <2>5. CASE known' = known \cup {<<host[a], presented[a], at[a]>>} /\ faults' = faults
      <3>1. StoringIsFirst' BY <2>1, <2>2, <2>5
      <3>2. OneKeyPerProcess' BY <2>1, <2>5
      <3>q. QED BY <2>3, <3>1, <3>2
    <2>q. QED BY <2>1, <2>4, <2>5
  <1>6. ASSUME NEW a \in Attempt, Leave(a) PROVE Locked'
    BY <1>6 DEF Leave, file
  <1>7. ASSUME NEW h \in Host, NEW k \in Key, Rekey(h, k) PROVE Locked'
    BY <1>7 DEF Rekey, call, file
  <1>8. ASSUME UNCHANGED vars PROVE Locked'
    BY <1>8 DEF vars, call, file
  <1>q. QED BY <1>1, <1>2, <1>3, <1>4, <1>5, <1>6, <1>7, <1>8, NextCases

THEOREM Invariance == Spec => []IInv
  <1>1. IInv /\ [Next]_vars => IInv'
    BY TypedNext, SparedNext, RecordedNext, LockedNext DEF IInv
  <1>q. QED BY InvInit, <1>1, PTL DEF Spec

\* Type correctness: whatever the hosts, keys, calls and processes, and whether
\* or not the file can be read and written.
THEOREM TypeCorrect == Spec => []TypeOK
  <1>1. IInv => TypeOK BY DEF IInv, Typed
  <1>q. QED BY <1>1, Invariance, PTL

\* A host on file when ssh_connect is called, presenting the key on file, is never
\* rejected: not by other calls, other processes or failing writes.
THEOREM KnownHostsAreAccepted == Spec => []KnownHostAccepted
  <1>1. IInv => KnownHostAccepted BY DEF IInv, Spared, BeforeSpared, KnownHostAccepted
  <1>q. QED BY <1>1, Invariance, PTL

\* Every key that was accepted is on file, in any number of processes, unless the
\* file failed for its host.
THEOREM AcceptedKeysAreRecorded == Spec => []AcceptedIsRecorded
  <1>1. IInv => AcceptedIsRecorded BY DEF IInv, Recorded
  <1>q. QED BY <1>1, Invariance, PTL

\* The lock keeps its word: no process ever appends two keys for one host, whatever
\* its server presents and whatever other processes append.
THEOREM LockKeepsOneKey == Spec => []OneKeyPerProcess
  <1>1. IInv => OneKeyPerProcess BY DEF IInv, Locked
  <1>q. QED BY <1>1, Invariance, PTL
=============================================================================
