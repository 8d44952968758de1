------------------------------ MODULE Sitemap ------------------------------
(***************************************************************************)
(* The site map: the devices table and its discovery history, and the      *)
(* tools that change them (sitemap.py, database.py, network_handlers.py).  *)
(*                                                                         *)
(* A discovery reads the table to choose what to dial, waits for the       *)
(* network, and writes what it learned under the name the machine gave.    *)
(* In one process nothing runs between two statements of a tool except     *)
(* during that wait: `busy' is the call that has the event loop.  When     *)
(* `shared' is TRUE every call is in a process of its own and the database *)
(* is all they share: SELECTs open no transaction, so anything may happen  *)
(* between a SELECT and the write it decided.                              *)
(***************************************************************************)
EXTENDS Naturals, FiniteSets

CONSTANTS
  Name,      \* machine names
  Address,   \* IP addresses
  Call,      \* discover_and_map calls in progress at once
  MaxRows,   \* BOUND: rows ever inserted
  MaxMoves,  \* BOUND: times a machine is renamed, moved or switched off
  None

ASSUME SitemapAssumption ==
  /\ Name # {} /\ Name \cap Address = {} /\ IsFiniteSet(Call)
  /\ MaxRows \in Nat /\ MaxMoves \in Nat
  /\ None \notin Name \cup Address \cup Call

VARIABLES
  rows,     \* Id -> the row with that primary key, or Absent
  nextId,   \* the next AUTOINCREMENT key
  history,  \* the ids that discovery_history has entries for
  owner,    \* Address -> the machine that answers there, or None
  moves,    \* how often that changed
  shared,   \* is every call in a process of its own
  pc,       \* Call -> where discover_and_store is
  device,   \* Call -> its identifier and the device it is about to store, or None
  busy,     \* the call that has the event loop, or None
  doomed    \* the ids a purge has selected

calls == <<pc, device, busy>>
world == <<owner, moves, shared>>
vars  == <<rows, nextId, history, world, calls, doomed>>

Id == 1..MaxRows
Ident == Name \cup Address
Absent == [hostname |-> None]

Row == [hostname : Ident, ip : Ident, status : {"success", "error"}]

\* What a call knows: the identifier it was given, what it will store (ip is the
\* dial target first), and the row the SELECT of store_device found, or 0.
Device == [ident : Ident, hostname : Ident, ip : Ident,
           status : {"success", "error"}, row : Id \cup {0}]

TypeOK ==
  /\ rows \in [Id -> Row \cup {Absent}]
  /\ nextId \in 1..(MaxRows + 1)
  /\ history \subseteq Id
  /\ owner \in [Address -> Name \cup {None}]
  /\ moves \in 0..MaxMoves
  /\ shared \in BOOLEAN
  /\ pc \in [Call -> {"idle", "opened", "dialing", "answered", "keyed", "found", "stored"}]
  /\ device \in [Call -> Device \cup {None}]
  /\ busy \in Call \cup {None}
  /\ doomed \subseteq Id

Init ==
  /\ rows = [r \in Id |-> Absent]
  /\ nextId = 1
  /\ history = {}
  /\ owner \in [Address -> Name \cup {None}]
  /\ moves = 0
  /\ shared \in BOOLEAN
  /\ pc = [c \in Call |-> "idle"]
  /\ device = [c \in Call |-> None]
  /\ busy = None
  /\ doomed = {}

-----------------------------------------------------------------------------
Present == {r \in Id : rows[r] # Absent}

\* find_devices_by_hostname_or_ip, which selects no status column.
Matches(i) == {r \in Present : rows[r].hostname = i \/ rows[r].ip = i}

Named(n) == {r \in Present : rows[r].hostname = n}

\* What answers when x is dialled: an address directly, a name wherever it lives.
Reach(x) ==
  IF x \in Address THEN owner[x]
  ELSE IF \E a \in Address : owner[a] = x THEN x ELSE None

Go(c, from, to) == pc[c] = from /\ pc' = [pc EXCEPT ![c] = to]

\* The event loop: c may run, and keeps running until it waits or returns.
\* Calls in processes of their own need not wait for one another.
Take(c) == busy \in {None, c} /\ busy' = IF shared THEN None ELSE c
Release(c) == busy \in {None, c} /\ busy' = None

\* The sets of rows the Phase 35 migration may leave, which opening the database
\* runs: one row of each name (that with the latest last_seen, which may be any).
Deduplicated ==
  {ids \in SUBSET Present :
     \A r \in Present : \E k \in Id : ids \cap Named(rows[r].hostname) = {k}}

Keep(ids) == [r \in Id |-> IF r \in ids THEN rows[r] ELSE Absent]

\* handle_discover_and_map(i) opens the site map: the migration drops duplicate
\* names, and leaves the history of the rows it drops.
Open(c, i) ==
  /\ Go(c, "idle", "opened") /\ Take(c)
  /\ device' = [device EXCEPT ![c] =
       [ident |-> i, hostname |-> i, ip |-> i, status |-> "error", row |-> 0]]
  /\ \E kept \in Deduplicated : rows' = Keep(kept)
  /\ UNCHANGED <<nextId, history, world, doomed>>

\* resolve_ssh_for_sitemap_row: no row dials the identifier, one row its
\* connection_ip; two are an error, answered without dialling.
Resolve(c) ==
  LET m == Matches(device[c].ident) IN
  /\ pc[c] = "opened"
  /\ IF Cardinality(m) > 1
     THEN Go(c, "opened", "answered") /\ Take(c) /\ UNCHANGED device
     ELSE /\ Go(c, "opened", "dialing") /\ Release(c)
          /\ \E target \in IF m = {} THEN {device[c].ident} ELSE {rows[r].ip : r \in m} :
               device' = [device EXCEPT ![c].ip = target]
  /\ UNCHANGED <<rows, nextId, history, world, doomed>>

\* ssh_discover_system returns: the machine's own name (or the identifier, when
\* the hostname probe failed) and what was dialled; or, at any time, an error, of
\* the identifier at what was dialled or (retries exhausted) at the identifier.
Answer(c) ==
  /\ Go(c, "dialing", "answered") /\ Take(c)
  /\ \/ /\ Reach(device[c].ip) # None
        /\ \E n \in {Reach(device[c].ip), device[c].ident} :
             device' = [device EXCEPT ![c].hostname = n, ![c].status = "success"]
     \/ \E x \in {device[c].ip, device[c].ident} : device' = [device EXCEPT ![c].ip = x]
  /\ UNCHANGED <<rows, nextId, history, world, doomed>>

\* MUTANT: an error is stored under the identifier it was asked for.
IdentifyNone(c) ==
  /\ Go(c, "answered", "keyed") /\ Take(c)
  /\ UNCHANGED <<rows, nextId, history, world, device, doomed>>

\* An error takes the identity of a row that matches the identifier, if any
\* (matched[0], of a SELECT without ORDER BY).
Identify(c) ==
  /\ Go(c, "answered", "keyed") /\ Take(c)
  /\ IF device[c].status = "error" /\ Matches(device[c].ident) # {}
     THEN \E r \in Matches(device[c].ident) :
            device' = [device EXCEPT ![c].hostname = rows[r].hostname, ![c].ip = rows[r].ip]
     ELSE UNCHANGED device
  /\ UNCHANGED <<rows, nextId, history, world, doomed>>

\* MUTANT: the Phase 33 key, name and address together.
LookupByPair(c) ==
  LET same == {r \in Named(device[c].hostname) : rows[r].ip = device[c].ip} IN
  /\ Go(c, "keyed", "found") /\ Take(c)
  /\ \E r \in IF same = {} THEN {0} ELSE same : device' = [device EXCEPT ![c].row = r]
  /\ UNCHANGED <<rows, nextId, history, world, doomed>>

\* store_device's SELECT: a row of that hostname, or none.
Lookup(c) ==
  LET same == Named(device[c].hostname) IN
  /\ Go(c, "keyed", "found") /\ Take(c)
  /\ \E r \in IF same = {} THEN {0} ELSE same : device' = [device EXCEPT ![c].row = r]
  /\ UNCHANGED <<rows, nextId, history, world, doomed>>

\* The row store_device writes.
Written(res) == [hostname |-> res.hostname, ip |-> res.ip, status |-> res.status]

\* store_device's UPDATE by id (of no row, if it was deleted) or INSERT, committed.
Write(c) ==
  LET r == device[c].row IN
  /\ Go(c, "found", "stored") /\ Take(c)
  /\ IF r = 0
     THEN /\ nextId <= MaxRows
          /\ rows' = [rows EXCEPT ![nextId] = Written(device[c])]
          /\ nextId' = nextId + 1
          /\ device' = [device EXCEPT ![c].row = nextId]
     ELSE /\ rows' = [rows EXCEPT ![r] =
                        IF @ = Absent THEN @
                        ELSE [Written(device[c]) EXCEPT !.hostname = rows[r].hostname]]
          /\ UNCHANGED <<nextId, device>>
  /\ UNCHANGED <<history, world, doomed>>

\* store_discovery_history, with the id store_device returned.
Log(c) ==
  /\ Go(c, "stored", "idle") /\ Release(c)
  /\ history' = history \cup {device[c].row}
  /\ device' = [device EXCEPT ![c] = None]
  /\ UNCHANGED <<rows, nextId, world, doomed>>

-----------------------------------------------------------------------------
\* No call has the event loop.
Idle == busy = None

\* Every tool opens the site map first, so it too runs the migration.
Delete(kept, ids) ==
  /\ rows' = Keep(kept \ ids)
  /\ history' = history \ ids

\* get_network_sitemap and the other tools that only read.
OpenOnly ==
  /\ Idle
  /\ \E kept \in Deduplicated : rows' = Keep(kept)
  /\ UNCHANGED <<nextId, history, world, calls, doomed>>

\* MUTANT: the history is left behind.
RemoveRowOnly(r) ==
  /\ Idle
  /\ \E kept \in Deduplicated : r \in kept /\ rows' = Keep(kept \ {r})
  /\ UNCHANGED <<nextId, history, world, calls, doomed>>

\* handle_remove_device: delete_device_by_id.
RemoveDevice(r) ==
  /\ Idle
  /\ \E kept \in Deduplicated : r \in kept /\ Delete(kept, {r})
  /\ UNCHANGED <<nextId, world, calls, doomed>>

Failed(r) == rows[r] # Absent /\ rows[r].status = "error"

\* handle_purge_failed_discoveries: the SELECT of the candidates.  In one process
\* the DELETEs of their ids follow at once.
PurgeFailed ==
  /\ Idle /\ doomed = {}
  /\ \E kept \in Deduplicated :
       LET ids == {r \in kept : Failed(r)} IN
       /\ ids # {}
       /\ IF shared THEN rows' = Keep(kept) /\ doomed' = ids /\ UNCHANGED history
          ELSE Delete(kept, ids) /\ UNCHANGED doomed
  /\ UNCHANGED <<nextId, world, calls>>

\* The two DELETEs, by id, in one transaction.
PurgeDelete ==
  /\ doomed # {}
  /\ Delete(Present, doomed) /\ doomed' = {}
  /\ UNCHANGED <<nextId, world, calls>>

-----------------------------------------------------------------------------
\* A machine is renamed, moved, replaced or switched off.
Move(a, n) ==
  /\ moves < MaxMoves /\ owner[a] # n
  /\ owner' = [owner EXCEPT ![a] = n]
  /\ moves' = moves + 1
  /\ UNCHANGED <<rows, nextId, history, shared, calls, doomed>>

Next ==
  \/ \E c \in Call :
       \/ \E i \in Ident : Open(c, i)
       \/ Resolve(c) \/ Answer(c) \/ Identify(c) \/ Lookup(c) \/ Write(c) \/ Log(c)
  \/ \E r \in Id : RemoveDevice(r)
  \/ OpenOnly \/ PurgeFailed \/ PurgeDelete
  \/ \E a \in Address, n \in Name \cup {None} : Move(a, n)

Spec == Init /\ [][Next]_vars

-----------------------------------------------------------------------------
NoTwins   == \A r1, r2 \in Present : rows[r1].hostname = rows[r2].hostname => r1 = r2
NoOrphans == \A r \in history : rows[r] # Absent

\* The hostname is the natural key: in one process no two rows have one name,
\* however discoveries of one machine under several identifiers overlap.
NamesUnique == ~shared => NoTwins

\* In one process, removing a row, one by one or by purge, leaves no history of a
\* device that is gone, and no discovery in progress brings one back.
HistoryOwned == ~shared => NoOrphans

\* In one process, "errors NEVER collapse onto a degenerate zombie row"
\* (sitemap.py:458): a failed discovery adds a row only for an identifier no row
\* answers to when it is stored, and never renames or re-addresses a row.
FailureKeepsIdentity ==
  [][\A c \in Call :
       ~shared /\ pc[c] = "found" /\ pc'[c] = "stored" /\ device[c].status = "error" =>
         /\ nextId' # nextId => Matches(device[c].ident) = {}
         /\ \A r \in Present : rows'[r].hostname = rows[r].hostname /\ rows'[r].ip = rows[r].ip]_vars

\* Duplicate names that processes racing to insert leave behind do not pile up: a
\* later store finds one of them by name and updates it, whatever address it comes
\* with, so a name never has more rows than there are processes.
DuplicatesBounded ==
  \A n \in Ident : Cardinality(Named(n)) <= Cardinality(Call)

\* "Multiple matches -> prefer status='success' rows; if exactly one healthy row
\* remains, use it" (ssh_tools.py:862): such an identifier is dialled.
HealthyRowIsUsed ==
  [][\A c \in Call : pc[c] = "opened" /\ pc'[c] = "answered" =>
       Cardinality({r \in Matches(device[c].ident) : ~Failed(r)}) # 1]_vars
=============================================================================
