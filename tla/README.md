# Formal models of homelab-mcp

`homelab_mcp` is an MCP server that manages a home lab: it discovers machines
over SSH, keeps a site map of them in a database, binds credentials to them,
runs commands, jobs and installations on them, opens shells, talks to the
Proxmox API and reports drift. These are TLA+ models of its stateful core. TLC
checks them on small instances; TLAPS proves the central invariants for every
value of the constants. Paths are relative to `src/homelab_mcp/` of the
repository.

To check: `tlc -config <run>.cfg <module>`; to prove: `tlapm <module>.tla`.
`PROJECT.json` lists the runs, the lines each definition models, the hazards
and, for every property of a passing run, a mutation of the model that the
property rejects (the definitions marked `MUTANT` beside the ones they replace;
no specification uses them).

## 1. Inventory

| Part | State it keeps | Operations | What is hard about it |
|---|---|---|---|
| Credential store (`credential_store.py`) | OS keyring; registry file | store, get, delete; register, unregister, list, find | load-edit-save of a file without a lock; a save that empties the file before it writes; two stores that must agree |
| Credentials CLI (`server.py`) | none of its own | `credentials add`, `remove`, `link`, `unlink`, `list` | each command is a process that touches three stores in turn, next to other commands and to running servers, and may be killed between any two |
| Credential resolution (`ssh_tools.py`, `proxmox_api.py`) | cluster and telemetry caches | bound UUID, node entry, cluster entry found by asking | bindings that are stale, caches that outlive what they cache |
| Site map (`sitemap.py`, `database.py`, `network_handlers.py`) | tables `devices` and `discovery_history` | discover, bulk discover, remove, purge, bind, fingerprint | an await between the row that was read and the row that is written; a natural key without a constraint |
| Migrations (`migration.py`) | schema, version stamp, registry backups | deduplication, columns, one-shot archive and drop, SQLite to PostgreSQL | several steps, most not in a transaction; run at every opening |
| Background jobs (`background_jobs.py`) | dict `_jobs`, asyncio tasks | start, cancel, output, poll, prune | entry and task change at different times; cancel before the first tick |
| Shells (`shell_session.py`, `http_app.py`) | dict `sessions`, cleanup task, websockets | create, page, attach, resize, sweep, close | websockets outlive table entries; one cleanup task awaits remote hosts |
| Host keys (`ssh_connection.py`) | `known_hosts` file, `_tofu_lock` | connect, validate, store | asyncssh reads the file before the callback decides; the lock is per process |
| Call guards (`error_handling.py`) | health counters | timeout, retry, SSH envelopes | a timeout cancels in the middle of a retry or of a change |
| Drift (`drift_detection.py`) | latest report | scan: probes, classification, diff, enumeration | probes at once under a common limit, over rows that change meanwhile, with tokens from caches others fill |
| Proxmox (`proxmox_api.py`) | tickets, caches | resolve, request, VM operations | a stop that is a task of its own; several requests and resolutions per tool |
| Infrastructure changes (`infrastructure_crud.py`) and VM operations (`vm_operations.py`, `vm_providers/`) | containers, images, archives, units on remote hosts | deploy, update, decommission, migrate, back up; deploy, control, remove | sequences of remote commands any of which may fail, some of whose results are not looked at, and a timeout between any two |
| Service installer (`service_installer.py`) | service directories, Terraform state on remote hosts | install by four methods, destroy, plan, refresh, playbook, status | a command whose answer is no longer awaited goes on at the other end |
| Server (`server.py`, `tools.py`, `resource_manager.py`, transports) | lifespan, subscriptions | dispatch, notify, shut down | tools in progress when the lifespan ends |
| Configuration, logging, prompts, schemas, validation, Proxmox scripts | none | read or format | nothing that changes state |

How they interact: MCP tools (one event loop per server process) call the site
map, which resolves credentials (keyring, registry, bindings of the row), dials
(host keys), and writes the row, its history and its binding. The CLI commands
change keyring, registry and the same rows from other processes. Every opening
of the site map runs the migrations, which may archive the registry. Several
servers and commands of one user share the registry file, the keyring, the
database and `known_hosts`; no lock spans two of them, or two processes. Tools
that change machines hold nothing but an SSH connection, so two of them meet on
the machine: in its containers, in `/tmp`, in the state of Terraform. The drift
scan reads what all the others write, through the caches of the Proxmox client.

What makes each part correct, in a sentence:

- credentials: an account is listed once; keyring and registry agree when no
  command runs; a binding names a credential of its own type, and one that is
  stale is stale for a reason an operator caused;
- site map: one row per machine name, no history without a device, and a failed
  discovery changes no identity;
- migrations: nothing registered is lost, an opening finishes what a killed one
  left, and spares what the new schema holds;
- jobs: each goes through its life once, none is left running with nothing to
  end it, and what polls report is consistent;
- shells: every open connection has an owner who will close it; abandoned
  sessions go, used ones stay;
- host keys: no process appends two keys for a host, an accepted key is on
  file, a known host is not turned away;
- drift: what can be reached is probed, what is unknown is listed, what is
  reported is so, and the scan ends;
- changes to machines: no failure, timeout or other call makes a migration lose
  a service, and what is reported done is done.

## 2. The modules

| Module | Models | Kind |
|---|---|---|
| `AccountRegistry` | what the registry promises: a table of accounts that changes by whole puts and drops | abstract specification |
| `CredentialStore` | registry and keyring functions as operators on sets of entries | data |
| `CredentialBindings` | commands, discoveries and `remove_device` over keyring, registry file and rows | component (composes the store with its callers) |
| `JobLifecycle` | what a job promises: new, running, ended once, forgotten | abstract specification |
| `BackgroundJobs` | `_jobs`, tasks, callbacks, output, clock | component |
| `Sitemap` | discoveries, removals and purges over the two tables | component |
| `Upgrade` | every opening's migrations, over database, registry, backups and stamp | component |
| `ShellSessions` | session table, cleanup loop, websockets | component |
| `TofuKnownHosts` | `ssh_connect` and the trust-on-first-use callback | component |
| `ProxmoxResolver` | `resolve_proxmox_credentials` and its two caches | component |
| `ProxmoxTools` | the tools of `proxmox_api.py`, on the resolver | component |
| `DriftScan` | `scan_drift`, on both: the three share the caches and the machines | composition |
| `HostChange` | the tools that change containers and units, under the dispatch timeout | component |
| `ServiceInstall` | the installer's tools and the remote processes they leave | component |
| `MC...` | choice of initial states, bounds and symmetry for TLC; `MCRemoteTools` joins `HostChange` and `ServiceInstall` | model checking |
| `...Proofs` | section 4 | proofs |

### How state and actions correspond to the code

**`CredentialBindings`.** One step is one access to one store. `add` is
`Begin` (arguments), `AddStore` (keyring), `Register` (load and edit the list),
`Truncate` and `Write` (the two halves of `write_text`), `AutoBind`, `Answer`
(the prompt) and `Bind` (the row: a SELECT by name and an UPDATE by id, taken as one
access). `remove` lists, deletes each secret, rewrites
the registry and nulls each UUID's bindings; `link` and `unlink` check and then
bind. `Discover*` is `discover_and_store`: it resolves, waits for SSH, upserts
the row and binds the UUID it used at the start. `Crash` kills a command before
any access. The file is a set of entries or `Torn`, the empty file between the
halves of a save, which loads as the empty list. A secret is its kind (password
or key path); a host argument and a cluster name are both targets, because their
keyring names can never be equal. History variables record what was ever
issued, found by a remove, replaced or nulled, and in `mishaps` what has gone
wrong so far - a command killed, killed with the file emptied, a secret kept that
was to be deleted, a binding written by a discovery - for the properties to speak
of causes.

**`BackgroundJobs`.** `status` is the dict entry, `task` the asyncio task,
`hooked` the callback that has not run. `FirstTick`, `BodyEnds` and `Finalize`
are the three steps of the loop a task takes; a cancel before `FirstTick` skips
the body. Buffers are lengths in characters, the counter is in bytes, and a chunk has
any number of bytes that its characters can have (`MaxWidth` each at most): the code
trims the one and adds `len(chunk.encode('utf-8'))` to the other. The clock is in
seconds and the polled signals are operators on it.

**`Sitemap`.** A discovery is `Open` (the handler opens the database, which
deduplicates), `Resolve`, the wait, `Answer`, `Identify` (an error takes the
identity of the row that matches the identifier), `Lookup` and `Write` (the
SELECT and the UPDATE or INSERT of `store_device`) and `Log`. A bulk discovery is
several such calls at once. `busy` is the call that holds the event loop: in one
process only the wait lets others in. With `shared` each call is a process of its
own, and anything may run between the statements. A machine may be renamed, moved
or switched off at any time (`Move`). The deduplication is atomic here, and which
row of a name it keeps is left open.

**`Upgrade`.** One step is one commit, rename or unlink: `Open` creates the table,
`DropCredentials` the first legacy drop, `Check` reads the stamp and the columns,
`Archive`, `Drop`, `Recreate` and `Stamp` are the destructive migration, `Alter`
adds columns (one commit each in SQLite, one for both in PostgreSQL), `Dedupe` reads
the duplicated names and their rows, `Merge` writes and deletes them by id in a
transaction that came later, `DropUnique`, `DropSpare`, `CreateSpare` and `Copy`
remove the constraint, `DropBaselines` ends. SQLite reads the rows of its first name
before its write lock and of the others under it; PostgreSQL reads each name before its
own UPDATE: which names were read early is a choice of `Merge`. `Leave` is the end of a
process, a kill, or a failure of which the next call starts over. `Register`,
`LoseState`, and `Find` and `Store` - the SELECT of `store_device` and its write by id -
are what happens elsewhere; `undone` are the names stored between the two halves of a
deduplication. Tables of any release may be there at
the start, with rows of one name, under a state file that may belong to another
database.

**`ShellSessions`.** One step is what runs between two awaits. The sweep lists
the expired ids and then closes them one by one, waiting for each host; time and
users go on meanwhile. The table and the list are sets, and in which order the sweep
closes what it listed is left open. A websocket finds its session (`FindSession`) and
then waits for the browser to be accepted (`AttachSocket`); it holds the session object,
so `sockets` may name a session that left the table. Ages saturate just past the threshold, so
behaviours are infinite without a bound on time.

**`TofuKnownHosts`.** A call is `Call`, `ReadKnownHosts` (asyncssh, with the
transport up), `Handshake`, then for a key that was not read `Check` and `Store`
under the process's lock. An entry carries the process that appended it, as
history; `faults` are the hosts for which the file has failed, also history.

**`ProxmoxResolver`, `ProxmoxTools`, `DriftScan`.** `Resolved` is the part of a
resolution without an await: explicit variables, the bound entry, the telemetry
and cluster caches, the node entry. `Walked` is the walk over the cluster
entries, which asks the host. `Remember` is what both caches keep. A tool is a
list of resolutions and requests; a stop leaves the machine `stopping` until it
has stopped, because the API only starts a task. A scan is `Start` (the rows are
read once), `Probe` per machine and `EndProbes` (all ended, or the common limit),
then the rows one by one - `Client`, `Telemetry`, `Walk`, `Ask` - and after
`Enumerate` the same for one host of each cluster, with `List` for `Ask`. Outside
it hosts move between clusters, credentials go, machines and rows change.

**`HostChange`.** A tool is a list of commands, `Must` where the code looks at
the exit status and `Try` where it does not. `CommandWorks` and `CommandFails`
take the first of the list; `Possible` and `After` say what a command needs and
leaves on a machine, `Remains` what a failed one leaves (a created container, an
empty archive). When the migration of a decommissioning fails (`GiveUp`), its result
says so (`failed`) and the tool goes on: it connects to the device again (`LeavePlan`)
and reports success. `CutOff` is `timeout_wrapper`: the client is told, and the command
that was waited for may go on at the other end and end later, after which nothing of the
tool follows. `LoseConnection` is an exception under a command, which then has not run:
that one goes on behind a lost connection is left to the installer's model. `Refuse` is
an early return, `FallBack` the attempt with LXD when Docker does not know the name. A
plan moves one service: the results of several are independent. The contents of a
container are those of the machine it came from, `Fresh` or `Old`, and they travel through image and archive.

**`ServiceInstall`.** A tool is a list of commands again, but each is a process
(`Start`, `Finish`) that the tool may stop waiting for (`StopsWaiting`) or leave
behind when it is cut off (`Dismiss`). What a process does is done when it
finishes, whoever waits. Terraform's lock excludes plans, applies and destroys of
one another; a saved plan is refused once the state changed. The state file itself
is left out: a destroy in a directory that an earlier destroy removed and a third call
made again finds nothing to destroy, which takes one call more than the run has. A
configuration is who wrote its main file and its variables.

## 3. The runs

Nine runs pass; three show disagreements between the code and what it says.

| Run | Bounds | Shows |
|---|---|---|
| `credentials_alone` | 2 hosts, 1 cluster, 2 users, 2 UUIDs, 2 rows, both types, one command at a time, kills, a failing keyring delete, a discovery in flight; once a command was killed or a discovery began, 1 user, 1 row, ssh passwords, and with a discovery the credentials of one host | between commands that ran to their end keyring and registry agree (`ConsistentAtRest`) and only rotation leaves stale bindings (`StaleOnlyByRotation`); `AutoBindNeverOverwrites`; the registry implements `AccountRegistry`; after any kill an entry without a secret was being removed (`SecretlessEntriesWereBeingRemoved`) and a stale binding has a cause (`StaleHasCause`) |
| `credentials_concurrent` | 2 commands at once, both types, failing keyring deletes | the registry lists no account or UUID twice, bindings are type safe, commands end |
| `credentials_rebound` | 1 of each | **violation** of `RemovedStaysUnbound` |
| `jobs` | 4 jobs of which 1 finished one is kept; or 1 job, a buffer of 2, chunks up to 2 on both streams, 5 seconds, stall at 2 | `RunningIsBacked`, `RetentionByStart`, `JobsEnd`, the refinement of `JobLifecycle`; `SignalsAgree`, `OutputAccounted` |
| `sitemap` | 2 names, 2 addresses, 2 calls, 3 rows, 1 move, in one process; or 2 processes about one machine | `NamesUnique`, `HistoryOwned`, `FailureKeepsIdentity`; `DuplicatesBounded` |
| `sitemap_ambiguous` | 1 discovery | **violation** of `HealthyRowIsUsed` |
| `upgrade` | 2 processes, 2 entries, 2 names, at most 2 rows at the start, both databases | `LegacyKept`, `StoredKept`, `OpeningsSucceed` |
| `shell_sessions` | 3 sessions (one with an initial command), 1 websocket, timeout and period of 1, failures | `TableIsLive`, `ConnectionsOwned`, `IdleSessionsClose` |
| `shell_hung` | 2 sessions, one host that never answers a close | **violation** of `IdleSessionsClose` |
| `tofu_shared` | 1 host, 3 keys, 2 rekeys, 2 calls, 1 process or 2, a file that may fail | `OneKeyPerProcess`, `AcceptedIsRecorded`, `KnownHostAccepted`, `CallsEnd` |
| `drift` | 2 hosts, 2 clusters, one with the name of a host, 2 virtual machines, 2 fields of 2 values, 1 change outside, 1 other tool | `EligibleIsProbed`, `UnknownComplete`, `DriftIsReal`, `ScanEnds` |
| `remote_tools` | 3 machines, 2 calls, images of an earlier migration where both containers start on one machine; or 1 machine, 2 calls of the installer, 2 processes left behind | `MigrationLosesNothing`, `MigrationBringsContents`, `SuccessIsReal`; `DestroyedStaysGone`, `SuccessIsAsked` |

A run whose row says "or" has an initial choice (`about`, `installing`, `shared`): a behaviour is about one of the cases. The cases of one run do not
touch one another's state, which is why they share a run and not a product.
`drift` likewise takes its topic first: tokens, virtual machines, fingerprints or
the other tools, with the rest starting in one way only (`MCDrift`).

Why these bounds are enough. Every hazard the properties are about needs two
actors and at most two rows, accounts, keys or sessions; the runs have two
actors wherever actors interact, and one spare of what they fight over: two
UUIDs so that one can replace the other, a third row so that a duplicate can be
re-added, a third session so that one is queued behind another, a third machine
so that two migrations can go different ways or exchange a service, four jobs
with one kept so that pruning chooses, a buffer of two so that a chunk is trimmed,
fits exactly or fits with room. Constants marked `BOUND` in the modules are
counters that the code does not limit (rows inserted, moves, rekeys, jobs, calls,
abandoned processes, changes outside); reaching a bound disables the action that
counts, so the bounded behaviours are behaviours of the code that stop short.
Where symmetry is used, no property of the run distinguishes the permuted values
and none is a liveness property.

Deadlock is not checked (`CHECK_DEADLOCK FALSE`) where the system may really
stop: commands are finite and UUIDs, rows, calls and job numbers run out.

### Preconditions of properties

Where a property excuses something, the excuse is a behaviour TLC found, which
the code does not prevent: `slipped` (a failure whose status the code does not
look at), `shared` and `heir` (another call, or a process an earlier one left
behind, on files that carry no call's name), `overlap` (two processes in the
migrations at once), `undone` (a name stored while a
deduplication held older readings of it), `failed` (a migration whose own result is an
error), `astray` (the cached cluster of a host was wrong when the scan began),
`OwnName` (two sites with one name), the sessions in `failed` (a start or a close
raised), `hurt`, `blind` and `stirred` (a request failed or a host moved, a probe did
not find all, a machine changed during the scan). Section 5 lists them.

### Fairness

- `CredentialBindings`: weak fairness of each command's steps - the operating
  system runs a started process - and nothing of operators or prompts.
- `BackgroundJobs`: weak fairness of the event loop's steps per job; a body is
  assumed to end (a command that hangs is the SSH timeout's business).
- `ShellSessions`: time passes, the loop runs what is ready, hosts outside
  `Hung` answer a close. Users owe nothing.
- `TofuKnownHosts`: strong fairness of a call's steps: the lock is not fair, but
  it is held over no await, and `connect_timeout` bounds the network part.
- `DriftScan`: weak fairness of the scan's own steps. Requests have a time limit;
  of `Probe` none is assumed, for a machine may never answer, and `ScanEnds` then
  rests on the limit of the whole pass (`EndProbes`).

## 4. What is proved

| Module | Theorems | Assumptions |
|---|---|---|
| `CredentialBindingsProofs` | `TypeCorrect`, `RegistryStaysWellFormed`, `BindingsAreTypeSafe` | those of the modules |
| | `SecretsComeFirst`, `StoresAgree`, `StaleIsExplained`, `OnlyRotationLeavesStale`, `BindingsAreKept`, `RegistryIsImplemented` | and that commands do not overlap (`Alone`: at most one member of `Operators`) |
| `BackgroundJobsProofs` | `TypeCorrect`, `RunningJobsAreBacked`, `OutputIsAccounted`, `SignalsNeverDisagree`, `ImplementsLifecycle`, `OldestAreForgotten` | those of the modules |
| `SitemapProofs` | `TypeCorrect`, `NamesStayUnique`, `HistoryStaysOwned`, `FailuresKeepIdentity` | one process (`~shared`, in the statements) |
| | `DuplicatesStayBounded` | finitely many calls (`SitemapAssumption`), in one process or in several |
| `ShellSessionsProofs` | `TypeCorrect`, `TableStaysLive`, `ConnectionsStayOwned` | `ShellAssumption` |
| `UpgradeProofs` | `TypeCorrect`, `LegacyIsKept`, `StoredIsKept`, `OpeningsAlwaysSucceed` | `UpgradeAssumption` |
| `TofuKnownHostsProofs` | `TypeCorrect`, `KnownHostsAreAccepted`, `AcceptedKeysAreRecorded`, `LockKeepsOneKey` | those of the module |
| `RemoteToolsProofs` | of `HostChange`: `TypeCorrect`, `MigrationsLoseNothing`, `SuccessMeansUp`, `MigrationsBringContents` | finitely many machines and calls (`HostAssumption`), `None` is no call |
| | of `ServiceInstall`: `ServiceTypeCorrect`, `DestroyedIsFinal`, `InstallsAreAsked` | `NoOne` is no process or call (`NobodyApart`) |
| `DriftScanProofs` | `TypeCorrect`, `DriftReported`, `EligibleAreProbed`, `UnknownAreListed` | `None` is no host, cluster or bucket, the bounds are numbers |

How the arguments go, and why the properties are not inductive by themselves:

- **Credentials.** The registry is one step from ill formed at any load: two
  processes hold lists that differ. The invariant says of every list in a
  process's hands (loaded, about to be written) what it says of the file - each
  account once - and that all entries ever issued have distinct UUIDs; and of every
  UUID that is about to be bound (by add, link, a prompt or a discovery) that it was
  issued for the column's type.
- **Commands that do not overlap.** Nothing locks the three stores, and the
  properties in the second row of credentials fail when two commands overlap (section
  5), so their theorems suppose one at a time (as the run does: `Operators = {p1}`);
  kills, failing deletes, discoveries and removals of rows remain. `InStep` says what
  a command still knows at its next access: until it saves, the file is what it
  loaded; what it is about to save is that with one account put in or one target
  taken out; a file caught empty is its own, or a kill's. Five invariants follow it
  from access to access: how far the keyring agrees with the list the command is
  about to save (`InAgreement`, `SecretsFirst`); that every UUID in a row or in the
  hands of a command or a discovery is registered or has a recorded cause
  (`EveryIdKnown`); that, undisturbed, the cause is a rotation or the UUID is on the
  list the remove is clearing (`Rotated`); and that an add about to bind unasked will
  meet unbound rows (`AboutToBind`). The last needs that rows of one name are all
  unbound, since bindings are made by name and a name with two rows is refused. The
  refinement maps `accounts` to the registry as of its last completed save and `lost`
  to whether a command was killed with the file empty.
- **Jobs.** A task that is not done still has its callback, and jobs not yet
  started have nothing. Retention is about cardinalities: of a finite set of finished
  jobs, those with at most `MaxFinished` at or after them are the latest, at most that
  many, and exactly that many when any is left out (`KeptFacts`). The greatest element
  it needs comes from `SetInduction`, for sets of a given carrier, by the pigeonhole
  principle. A buffer that is not full has lost nothing, so that what it holds was
  counted at one to `MaxWidth` bytes a character.
- **Site map.** Between SELECT and write a call relies on what it found. The
  invariant adds that only the call with the event loop is between statements, that
  what it found is still true, and that the row it stored is still there when it
  logs. A failed discovery keeps identities because from `Identify` on it carries the
  name and address of a row that matches its identifier, or there is none and it
  carries the identifier (`FailureIsNamed`). Between processes none of that holds;
  there the rows of a name and the calls whose SELECT found none are counted together
  (`PlacesLeft`): an insert turns the second into the first, and a call joins the
  second only when there are none of the first.
- **Shells.** A connection without a shell is still being created, and the session
  being closed was told so: an id is never handed out again, so neither returns to the
  table (`OneLife`).
- **Upgrades.** `LegacyKept` needs no more than types: every step that takes the
  registry away puts it into the backups. `StoredKept` and `OpeningsSucceed` need
  what each stage knows of the table while no other process is in the migrations
  (`Stages`: from `alter` on there is one, between `create` and `copy` the spare
  is as the stage left it, a destructive stage found no binding columns), that no row
  which a merge has read is deleted before it writes, so that the row it keeps is there,
  and that the binding of a name that is not `undone` is that of its row seen last
  (`LastBound`), for which that row must exist: sets of rows have bounded times, and a
  well-founded order gives the last.
- **Host keys.** The file only grows, so what was read stays true; a call between
  check and append holds its process's lock, so no entry of its process for its
  host can appear in between.
- **Migrations of containers.** That a service is up somewhere is no property of
  one migration: of two that exchange it between machines, the one may stop what
  the other has just started. The invariant counts. A Docker migration is about to
  stop its source only after it has started a container where there was none, so
  the machines that are up outnumber the migrations about to stop one (`Fewer`);
  the same of LXD containers, copies and deletions. Underneath, `Fits` says which
  rests of which lists a call can have, so that no other tool stops or removes. What
  one call achieves needs that a call which met no other is the only one (`Alone` of
  that module), and then what it knows at each rest of its list: that the command
  which starts the service is required and last, and where the contents have arrived -
  image, archive, its copy, image of the target - unless a failure was not looked at
  (`Moved`, `Brought`). A command that goes on after its call was cut off has its record
  still, and is the call's last.
- **Installations.** What was destroyed stays gone though processes of earlier
  installs run on: an abandoned apply holds Terraform's lock, so destroy cannot run
  beside it; destroy makes every saved plan stale, and no list that installs nothing
  contains an apply. That an undisturbed install which reports success runs its own
  service with its own files rests on the order of its list (`Orderly`): files before
  the plan, the plan before the command that turns the service, a last command that
  is looked at. `Done` says of each word no longer to come what it has left.
- **Drift scans.** A scan shares two caches with every other tool, and hosts,
  credentials and rows change beside it. What all of that may do to a scan is stated
  once (`Beside`), and what a resolution may do to its host (`Advances`: it starts a
  walk, has a client, or gives up, and under which circumstances). The base is that
  the cluster cache is only ever set right (`Led`), so that it misleads about a host
  only if it did at the start or the host has moved. `Eligible` follows a host that
  the registry serves from stage to stage: when it is walked it has no entry of its
  own, and the pools that were read have all that are left. `Faithful` relates what the
  scan has of a machine to what the machine and its row still are, and `Sorted` the
  bucket to that. For the unknown machines, `Provided` says that a host that answered
  can be asked again without a walk, unless a credential was lost, and `Listing` that
  for each such host one of its site is due, is being asked with a token it takes, or
  has listed: the targets are deduplicated by the cached cluster, which by `Led` is
  the real one, and a key that is a host's own name is a cluster's only where `OwnName`
  excuses the host. The proof showed
  that the precondition had to be about the beginning of the scan (`astray`): with two
  other calls, one can correct the cache after the scan was misled by it, and the end
  state no longer shows why a host was refused.

Three assumptions on constants are there for these proofs: `NoBucket` in `DriftScan`,
`IsFiniteSet(Call)` in `Sitemap` (a server has finitely many calls) and
`TornAssumption` in `CredentialStore` (what a save leaves half way is no list of
entries; for TLC `Torn` is therefore a set of something that is no entry).

Only model-checked: liveness (`CommandsEnd`, `JobsEnd`, `IdleSessionsClose`,
`CallsEnd`, `ScanEnds`), which is out of the prover's reach. The three
properties of section 5 that the code violates are, of course, no theorems.

## 5. Where code and documents disagree

Shown by a run:

- `credentials_rebound`: a discovery writes back the UUID a `remove` has cleared
  meanwhile (`sitemap.py:546`), though the rotation cleanup exists to null them.
- `sitemap_ambiguous`: an identifier that matches two rows is refused even when
  one of them is healthy, because the SELECT has no `status` column
  (`database.py:470`), though the docstring says the healthy row is used.
- `shell_hung`: one host that never answers a close stops the cleanup of every
  session (`shell_session.py:146`).

Read in the source and stated here without a run; where a model has the
behaviour, its properties name it as a precondition.

Credentials and site map:

- two overlapping `add` commands: the second save drops the first entry
  (`credential_store.py:218`), and of two that bind one row the second overwrites the
  binding (`server.py:704`); a save killed between its two halves loses the whole
  registry to the next one (`credential_store.py:173`);
- a `remove` killed after it unregistered leaves bindings that no later remove clears
  (`server.py:1046`);
- `add` again for an account gives it a new UUID and leaves the rows on the old
  one unless a prompt is answered (`server.py:713`), where the documentation calls
  it the way to rotate a password;
- `add` writes keyring and registry one after the other (`server.py:881`), where
  the documentation says atomically; and its auto-bind reads and writes the row in
  two transactions (`server.py:704`);
- a failed discovery sets `last_seen` (`sitemap.py:101`) and the error status, so a
  machine that is gone and tried again is degenerate to a drift scan and never
  missing; a purge may delete a row rediscovered since it was selected
  (`database.py:1410`), and two processes may insert one name twice
  (`database.py:309`) until the next opening collapses them;
- `credentials add` as the first command after an upgrade registers the entry and
  then opens the site map, whose migration archives the registry with it; two
  processes that upgrade at once may drop what the other has stored; the state file
  is per user and not per database; the deduplication reads rows before the transaction
  that writes them (`migration.py:327`, `migration.py:630`), so that a device stored in
  between is overwritten by its older reading or deleted as a duplicate, and its binding
  lost until it is discovered again; it also leaves the history of the rows
  it deletes (`migration.py:348`).

Shells and host keys:

- a `create_process` that raises leaves its connection open with nothing to close it
  (`shell_session.py:108`), and so does a `process.wait` that raises in a close, after
  the session has left the table (`shell_session.py:150`);
- the sweep closes an id it listed as expired even if the session has been used
  since (`shell_session.py:63`); typing into a websocket does not count as use
  (`http_app.py:229`); the initial command is sent at every connect
  (`http_app.py:182`);
- a key whose append to `known_hosts` failed is accepted all the same
  (`ssh_connection.py:138`), at every connection anew;
- two processes may leave two keys for a host, and the second of two concurrent
  first connections is turned away with the key that is on file
  (`ssh_connection.py:75`).

Drift and Proxmox:

- with an API token in the environment the telemetry cache stays cold, and a scan
  resolves each host again: those without an entry become not eligible although
  the client works;
- `unknown` lists a cluster's machines once for each of its hosts when they resolve
  by binding or node entry, where the docstring promises one entry per cluster; a
  scan of one node knows only that node's name, so every adopted machine is listed,
  and its report replaces the full one;
- the hosts to list are keyed by cluster name or host name without telling them apart
  (`drift_detection.py:445`): of a host in no cluster and a cluster of its name only one
  is asked, and the machines of the other are not listed; a stale cluster name
  (`proxmox_api.py:352`) does the same to the cluster a host has left;
- the common limit of the probes drops the results of those that ended; a stored
  fingerprint that lacks a field shows as changed;
- a cluster walk ends at the first host that times out; it dials the name and not
  the address;
- `delete_proxmox_vm` posts a stop and deletes at once, while the stop is a task
  of its own; when that fails the machine is left stopped. Creation with a start
  ignores the result of the start.

Changes to machines:

- a decommissioning answers `"status": "success"`, "successfully decommissioned", whatever
  its migrations returned (`infrastructure_crud.py:294`): that a service was not moved is
  an entry of its list of results only;
- an installation by Terraform ignores a failed write of its files
  (`service_installer.py:659`) and reports the success of what an earlier call left;
- a command whose wait was given up goes on at the other end
  (`error_handling.py:253`): an apply or a `docker run` may take effect after its tool
  was answered, or called again;
- an LXD migration does not look at the result of the start on the target before
  it deletes the source (`infrastructure_crud.py:1276`), so that the container may be
  left stopped;
- an update stops and removes the container before the new one runs
  (`infrastructure_crud.py:874`), goes on when the backup before it failed, and a
  failure leaves the service on no machine;
- a migration brings the contents of an older image when the commit or the load
  failed, and two of one name exchange their archives; ports, volumes and
  environment are not carried over;
- `docker save ... | gzip` has the status of gzip, so an empty archive goes on;
- rollback counts what it would restore and reports success; decommissioning
  without a plan stops nothing; scaling is a stub; errors of the analysis count as
  "no critical services"; the site map is not updated after a deployment;
- an install by script reports success whatever its exit status; requirements that
  cannot be checked count as met; a refresh whose plan fails reports `in_sync`; an
  install over a running service of the same port is refused by it.

Notifications:

- a successful discovery or drift scan notifies the session that called the tool and
  no other (`server.py:432`), where the docstring says subscribed clients; the set
  of subscriptions is written (`server.py:274`, `server.py:284`), one for the process
  whatever the client, and nothing reads it.

## 6. Not modelled, and why

- **The PostgreSQL adapter**: the same operations in other SQL; its schema and its
  migrations are in `Upgrade`. The copy of a SQLite database to PostgreSQL: a tool
  run by hand, on two databases nothing else uses meanwhile.
- **Payload**: hardware and packages of a discovery, templates, rendered
  configurations, schemas, prompts, log redaction: data or text that no property
  distinguishes.
- **Readers**: topology analysis, deployment suggestions, resource readers, listing
  and logs of virtual machines, validation, plans of capacity. They change nothing,
  and what they read is in the models that write it.
- **Stubs**: rollback, scaling, network changes, leaving clusters. They report
  success and do nothing (section 5).
- **Unreachable code**: `http_transport.py`, and the providers' snapshot functions.
- **Request routing, header checks, configuration, the Proxmox script catalogue**:
  no state.
- **Quantitative time**: timeouts are choices that may always be taken; only the
  job clock and session ages count, in units of their thresholds.
- `retry_on_failure` guards discovery only; the model of a discovery has the outcome
  after the last attempt. A cancelled wait between two attempts is `CutOff` elsewhere
  and planned here.

`PROJECT.json` gives each component its status and reason, and each hazard
without a property the reason why.

## 7. Plan

1. `Server`: lifespan of the shared session and database, tools in progress when it
   ends, the stdio task group that must end when its client goes
   (`server.py:1426`).
2. `Fingerprints`: merge and rediscovery of one row (`database.py:351`); no merge is
   lost.
3. An abstract specification of a service that moves - on its old host until it runs
   on the new one - and the refinement by a migration that meets no other.

The suite is kept to a dozen runs so that it can be repeated in minutes: a new
module with a small state space is to join a run, one component per behaviour, as
`MCRemoteTools` does.
