------------------------------- MODULE Upgrade -------------------------------
(***************************************************************************)
(* What an opening of the site map does to a database, a credential        *)
(* registry and a state file of an earlier release: init_schema and        *)
(* run_sqlite_migrations or run_postgres_migrations (migration.py).        *)
(*                                                                         *)
(* Every process runs all of it at every opening; a kill may fall between  *)
(* any two commits, and the next opening starts over.  Others that are     *)
(* open meanwhile go on storing.  Rows of degenerate names, which          *)
(* deduplication skips, discovery_history and deletions are left out.      *)
(***************************************************************************)
EXTENDS Naturals, FiniteSets

CONSTANTS
  Name,       \* host names
  Credential, \* registry entries that may ever be issued
  Process,    \* processes that open the site map
  MaxSeen,    \* BOUND: last_seen times and ids of rows, stores included
  None

VARIABLES
  backend,  \* "sqlite" or "postgres"
  table,    \* the devices table, or None
  spare,    \* there is a table devices_new
  legacy,   \* the tables of earlier releases that are still there
  stamped,  \* the state file says that the destructive migration has been applied
  registry, \* the entries of the registry file, or None without a file
  backups,  \* what the .bak files of the registry hold
  clock,    \* the next last_seen, and the next id
  pc,       \* Process -> how far its opening is
  read,     \* Process -> the rows of duplicated names its deduplication read
  aim,      \* Process -> the row its store_device found, of which name, or None
  issued,   \* entries ever registered (history)
  stored,   \* Name -> the entry its row was last bound to, or None (history)
  undone,   \* names stored while a deduplication held rows of theirs it then wrote (history)
  overlap   \* two processes have been in the migrations at once (history)

files    == <<stamped, registry, backups>>
database == <<backend, table, spare, legacy>>
held     == <<read, aim>>
history  == <<issued, stored, undone, overlap>>
vars     == <<database, clock, files, pc, held, history>>

Binding == {"ssh_credential_id", "proxmox_credential_id"}
Detail == {"devices", "fingerprint"}

\* SQLite keeps the device lists and the fingerprint in columns, PostgreSQL in JSON.
Column == IF backend = "sqlite" THEN Binding \cup Detail ELSE Binding

Row == [id : 1..MaxSeen, name : Name, seen : 1..MaxSeen, bound : Credential \cup {None}]
Table == [columns : SUBSET (Binding \cup Detail), unique : BOOLEAN, rows : SUBSET Row]

\* What store_device found: the id of a row, or no row.
NoRow == 0
Aim == [name : Name, id : 0..MaxSeen]

ASSUME UpgradeAssumption ==
  /\ MaxSeen \in Nat
  /\ None \notin Credential \cup Table \cup Aim /\ \A S \in SUBSET Credential : S # None

Legacy == {"ssh_credentials", "drift_baselines"}

Stage == {"ssh", "check", "archive", "drop", "recreate", "stamp", "alter", "dedupe", "merge",
          "unique", "create", "copy", "baselines"}

TypeOK ==
  /\ backend \in {"sqlite", "postgres"}
  /\ table \in {None} \cup Table
  /\ spare \in BOOLEAN
  /\ legacy \subseteq Legacy
  /\ stamped \in BOOLEAN
  /\ registry \in {None} \cup SUBSET Credential
  /\ backups \in SUBSET SUBSET Credential
  /\ clock \in 1..(MaxSeen + 1)
  /\ pc \in [Process -> Stage \cup {"off", "ready", "failed"}]
  /\ read \in [Process -> SUBSET Row]
  /\ aim \in [Process -> {None} \cup Aim]
  /\ issued \subseteq Credential
  /\ stored \in [Name -> Credential \cup {None}]
  /\ undone \subseteq Name
  /\ overlap \in BOOLEAN

Registered == IF registry = None THEN {} ELSE registry
Fresh == [columns |-> Column, unique |-> FALSE, rows |-> {}]
Missing == Column \ table.columns
HasBindings == Binding \subseteq table.columns

-----------------------------------------------------------------------------
\* Deduplication: the row seen last stays, with what it lacks from the one seen
\* last among those that have it.
Newest(R) == CHOOSE r \in R : \A s \in R : s.seen <= r.seen
Bound(R) == {r \in R : r.bound # None}
RowsOf(n, rows) == {r \in rows : r.name = n}

Merged(R) ==
  [Newest(R) EXCEPT !.bound = IF Bound(R) = {} THEN None ELSE Newest(Bound(R)).bound]

Names(rows) == {r.name : r \in rows}
Ids(rows) == {r.id : r \in rows}
Duplicated(rows) == {n \in Name : \E r, s \in RowsOf(n, rows) : r # s}

\* The rows of a name that its merge is made from: those read before the write
\* transaction, for the names in early, or those of the moment.
Taken(n, rows, old, early) == RowsOf(n, IF n \in early THEN old ELSE rows)

\* UPDATE and DELETE by id: the newest of the rows taken, if it is still there,
\* is written anew, and the others go; a row that was not taken stays.
Deduplicated(rows, old, early) ==
  {r \in rows : r.name \in Names(old) => r.id \notin Ids(Taken(r.name, rows, old, early))}
  \cup {Merged(Taken(n, rows, old, early)) :
          n \in {m \in Names(old) :
                   Newest(Taken(m, rows, old, early)).id \in Ids(RowsOf(m, rows))}}

-----------------------------------------------------------------------------
\* Databases of the releases before: columns came one release after the other,
\* and the first had the UNIQUE(hostname, connection_ip) and the legacy tables.
\* The state file is per user, so that it may speak of another database.
Release == {{}, {"devices"}, {"devices", "fingerprint"}, Column}

Init ==
  /\ backend \in {"sqlite", "postgres"}
  /\ registry \in {None} \cup SUBSET Credential
  /\ table \in {None} \cup Table
  /\ table # None =>
       /\ table.columns \in Release \cap SUBSET Column
       /\ table.unique => table.columns \in {{}, Column}
       /\ \A r \in table.rows : r.bound \in Registered \cup {None}
       /\ \A r, s \in table.rows : r.seen = s.seen \/ r.id = s.id => r = s
       /\ \A r \in table.rows : r.seen < clock /\ r.id < clock
       /\ table.columns # Column => Bound(table.rows) = {}
  /\ legacy \in IF table # None /\ table.columns = {} THEN SUBSET Legacy ELSE {{}}
  /\ spare = FALSE
  /\ stamped \in BOOLEAN
  /\ backups = {}
  /\ clock \in 1..(MaxSeen + 1)
  /\ pc = [p \in Process |-> "off"]
  /\ read = [p \in Process |-> {}]
  /\ aim = [p \in Process |-> None]
  /\ issued = Registered
  /\ stored = [n \in Name |->
       LET R == IF table = None THEN {} ELSE Bound(RowsOf(n, table.rows))
       IN  IF R = {} THEN None ELSE Newest(R).bound]
  /\ undone = {}
  /\ overlap = FALSE

-----------------------------------------------------------------------------
\* The other players: `credentials add`, whose steps are in CredentialBindings, a
\* discovery of a process that is ready, and the loss of the state file.
Register(e) ==
  /\ e \notin issued
  /\ registry' = Registered \cup {e}
  /\ issued' = issued \cup {e}
  /\ UNCHANGED <<database, clock, stamped, backups, pc, held, stored, undone, overlap>>

\* The SELECT of store_device: any row of the name, or none.
Find(p, n) ==
  /\ pc[p] = "ready" /\ table # None /\ aim[p] = None
  /\ \E id \in IF RowsOf(n, table.rows) = {} THEN {NoRow} ELSE Ids(RowsOf(n, table.rows)) :
       aim' = [aim EXCEPT ![p] = [name |-> n, id |-> id]]
  /\ UNCHANGED <<database, clock, files, pc, read, history>>

\* Its INSERT or UPDATE by id, and the binding that follows by the same id.
Put(p, old, new) ==
  /\ table' = [table EXCEPT !.rows = (@ \ old) \cup {new}]
  /\ clock' = clock + 1
  /\ stored' = [stored EXCEPT ![new.name] = new.bound]
  /\ undone' = undone \ {new.name}

Store(p, e) ==
  /\ pc[p] = "ready" /\ table # None /\ HasBindings
  /\ aim[p] # None /\ aim' = [aim EXCEPT ![p] = None]
  /\ e \in Registered /\ clock <= MaxSeen
  /\ \/ /\ aim[p].id = NoRow
        /\ Put(p, {}, [id |-> clock, name |-> aim[p].name, seen |-> clock, bound |-> e])
     \/ \E r \in table.rows :
          /\ r.id = aim[p].id
          /\ Put(p, {r}, [r EXCEPT !.seen = clock, !.bound = e])
     \/ /\ aim[p].id \notin Ids(table.rows) \cup {NoRow}
        /\ UNCHANGED <<table, clock, stored, undone>>
  /\ UNCHANGED <<backend, spare, legacy, files, pc, read, issued, overlap>>

LoseState ==
  /\ stamped /\ stamped' = FALSE
  /\ UNCHANGED <<database, clock, registry, backups, pc, held, history>>

-----------------------------------------------------------------------------
Go(p, from, to) == pc[p] = from /\ pc' = [pc EXCEPT ![p] = to]

Busy(p) == pc[p] \in Stage

\* init_schema: CREATE TABLE IF NOT EXISTS, committed before the migrations.
Open(p) ==
  /\ Go(p, "off", "ssh")
  /\ table' = IF table = None THEN Fresh ELSE table
  /\ overlap' = (overlap \/ \E q \in Process : Busy(q))
  /\ UNCHANGED <<backend, clock, spare, legacy, files, held, issued, stored, undone>>

DropCredentials(p) ==
  /\ Go(p, "ssh", "check")
  /\ legacy' = legacy \ {"ssh_credentials"}
  /\ UNCHANGED <<backend, table, spare, clock, files, held, history>>

\* MUTANT: only the stamp is looked at.
MustReplaceUnstamped == table # None

\* Without the stamp, a table without the binding columns is one to replace.
MustReplace == table # None /\ ~HasBindings

Check(p) ==
  /\ \/ stamped /\ Go(p, "check", "alter")
     \/ ~stamped /\ MustReplace /\ Go(p, "check", "archive")
     \/ ~stamped /\ ~MustReplace /\ Go(p, "check", "stamp")
  /\ UNCHANGED <<database, clock, files, held, history>>

\* MUTANT: there is one backup path.
SetAsideOver == backups' = IF registry = None THEN backups ELSE {registry}

\* The registry is renamed to a .bak path that is not in use.
SetAside == backups' = backups \cup ({registry} \ {None})

Archive(p) ==
  /\ Go(p, "archive", "drop")
  /\ SetAside /\ registry' = None
  /\ UNCHANGED <<database, clock, stamped, held, history>>

Drop(p) ==
  /\ Go(p, "drop", "recreate")
  /\ table' = None
  /\ UNCHANGED <<backend, spare, legacy, clock, files, held, history>>

Recreate(p) ==
  /\ Go(p, "recreate", "stamp")
  /\ table' = IF table = None THEN Fresh ELSE table
  /\ UNCHANGED <<backend, spare, legacy, clock, files, held, history>>

Stamp(p) ==
  /\ Go(p, "stamp", "alter")
  /\ stamped' = TRUE
  /\ UNCHANGED <<database, clock, registry, backups, held, history>>

Fail(p, at) ==
  /\ Go(p, at, "failed")
  /\ UNCHANGED <<database, clock, files, held, history>>

\* ALTER TABLE ADD COLUMN: each column commits by itself in SQLite, PostgreSQL
\* commits both together.
Alter(p) ==
  \/ table = None /\ Fail(p, "alter")
  \/ /\ table # None
     /\ \/ /\ Missing = {} /\ Go(p, "alter", "dedupe") /\ UNCHANGED table
        \/ /\ backend = "sqlite" /\ Go(p, "alter", "alter")
           /\ \E c \in Missing : table' = [table EXCEPT !.columns = @ \cup {c}]
        \/ /\ backend = "postgres" /\ Missing # {} /\ Go(p, "alter", "dedupe")
           /\ table' = [table EXCEPT !.columns = @ \cup Missing]
     /\ UNCHANGED <<backend, spare, legacy, clock, files, held, history>>

\* Deduplication reads the duplicated names and rows of theirs in autocommit mode
\* (SQLite) or statement by statement (PostgreSQL); its first UPDATE comes later.
Dedupe(p) ==
  \/ table = None /\ Fail(p, "dedupe")
  \/ /\ table # None
     /\ LET dup == Duplicated(table.rows) IN
          /\ Go(p, "dedupe", IF dup = {} THEN "unique" ELSE "merge")
          /\ read' = [read EXCEPT ![p] = {r \in table.rows : r.name \in dup}]
     /\ UNCHANGED <<database, clock, files, aim, history>>

\* One transaction writes the merges.  SQLite has read the first name before it and
\* reads the others inside it; PostgreSQL reads each name just before its UPDATE, and
\* any of them may be written meanwhile.  A name without a row raises.
Merge(p) ==
  \/ table = None /\ Fail(p, "merge")
  \/ /\ table # None
     /\ \E early \in SUBSET Names(read[p]) :
          /\ backend = "sqlite" => Cardinality(early) = 1
          /\ \/ /\ ~(Names(read[p]) \subseteq early \cup Names(table.rows))
                /\ Fail(p, "merge")
             \/ /\ Names(read[p]) \subseteq early \cup Names(table.rows)
                /\ Go(p, "merge", "unique")
                /\ table' = [table EXCEPT !.rows = Deduplicated(@, read[p], early)]
                /\ undone' = undone \cup
                     {n \in early : RowsOf(n, table.rows) # RowsOf(n, read[p])}
                /\ read' = [read EXCEPT ![p] = {}]
                /\ UNCHANGED <<backend, clock, spare, legacy, files, aim, issued, stored, overlap>>

\* PostgreSQL drops the constraint and asks for its table by name; SQLite builds
\* a new table, after dropping the one an earlier attempt may have left.
DropUnique(p) ==
  \/ table = None /\ backend = "postgres" /\ Fail(p, "unique")
  \/ /\ IF table = None THEN backend = "sqlite" ELSE ~table.unique
     /\ Go(p, "unique", "baselines")
     /\ UNCHANGED <<database, clock, files, held, history>>
  \/ /\ table # None /\ table.unique /\ backend = "postgres"
     /\ Go(p, "unique", "baselines")
     /\ table' = [table EXCEPT !.unique = FALSE]
     /\ UNCHANGED <<backend, spare, legacy, clock, files, held, history>>

\* MUTANT: what an earlier attempt left is not dropped.
DropSpareTrusting(p) ==
  /\ table # None /\ table.unique /\ backend = "sqlite"
  /\ Go(p, "unique", "create")
  /\ UNCHANGED <<database, clock, files, held, history>>

DropSpare(p) ==
  /\ table # None /\ table.unique /\ backend = "sqlite"
  /\ Go(p, "unique", "create")
  /\ spare' = FALSE
  /\ UNCHANGED <<backend, table, legacy, clock, files, held, history>>

CreateSpare(p) ==
  \/ spare /\ Fail(p, "create")
  \/ /\ ~spare /\ Go(p, "create", "copy")
     /\ spare' = TRUE
     /\ UNCHANGED <<backend, table, legacy, clock, files, held, history>>

\* INSERT, DROP and RENAME are one transaction.
Copy(p) ==
  \/ (table = None \/ ~spare) /\ Fail(p, "copy")
  \/ /\ table # None /\ spare /\ Go(p, "copy", "baselines")
     /\ table' = [Fresh EXCEPT !.rows = table.rows]
     /\ spare' = FALSE
     /\ UNCHANGED <<backend, legacy, clock, files, held, history>>

DropBaselines(p) ==
  /\ Go(p, "baselines", "ready")
  /\ legacy' = legacy \ {"drift_baselines"}
  /\ UNCHANGED <<backend, table, spare, clock, files, held, history>>

\* A process ends, or a call that failed leaves it to the next call to open again.
Leave(p) ==
  /\ pc[p] # "off" /\ pc' = [pc EXCEPT ![p] = "off"]
  /\ read' = [read EXCEPT ![p] = {}]
  /\ aim' = [aim EXCEPT ![p] = None]
  /\ UNCHANGED <<database, clock, files, history>>

Migrate(p) ==
  \/ DropCredentials(p) \/ Check(p) \/ Archive(p) \/ Drop(p) \/ Recreate(p) \/ Stamp(p)
  \/ Alter(p) \/ Dedupe(p) \/ Merge(p) \/ DropUnique(p) \/ DropSpare(p) \/ CreateSpare(p) \/ Copy(p)
  \/ DropBaselines(p)

Next ==
  \/ \E e \in Credential : Register(e)
  \/ LoseState
  \/ \E p \in Process : Open(p) \/ Migrate(p) \/ Leave(p)
  \/ \E p \in Process, n \in Name : Find(p, n)
  \/ \E p \in Process, e \in Credential : Store(p, e)

Spec == Init /\ [][Next]_vars

-----------------------------------------------------------------------------
\* No credential is ever lost to an upgrade: whatever was registered is in the
\* registry or in one of its backups, however many processes upgrade, and are
\* killed, at once (D-22: a backup is never overwritten).
LegacyKept == issued \subseteq Registered \cup UNION backups

\* What the new schema stored survives every later opening, with the state file
\* lost (CR-01) or an opening killed anywhere: the name keeps a row, the entry it was
\* bound to stays registered, and a row of the name is bound to it.  Two exceptions
\* are all there are: two processes in the migrations at once may drop what another
\* stored, and a name stored between the reads and the write of a deduplication
\* loses that binding, not its row, until it is stored again.
StoredKept ==
  ~overlap => \A n \in Name : stored[n] # None =>
    /\ table # None
    /\ stored[n] \in Registered
    /\ \E r \in RowsOf(n, table.rows) : n \notin undone => r.bound = stored[n]

\* One process at a time, no opening fails however many were killed before it,
\* and one that is through works on a table with every column and no UNIQUE (I8).
OpeningsSucceed ==
  ~overlap => \A p \in Process :
    /\ pc[p] # "failed"
    /\ pc[p] = "ready" => table # None /\ Missing = {} /\ ~table.unique
=============================================================================
