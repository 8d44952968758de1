--------------------------- MODULE SitemapProofs ---------------------------
(***************************************************************************)
(* Proofs about Sitemap in one process: names stay unique and history      *)
(* stays owned, for every set of names, addresses, calls and row limit.    *)
(* Both need that what store_device's SELECT found is still true when it   *)
(* writes, which only the event loop gives.  The last theorem is about     *)
(* calls in processes of their own: they may insert a name twice, but no   *)
(* more often than there are calls.                                        *)
(***************************************************************************)
EXTENDS Sitemap, FiniteSetTheorems, TLAPS

\* A call past its wait has the event loop, and knows a device.
Holding ==
  \A c \in Call :
    /\ pc[c] \in {"opened", "answered", "keyed", "found", "stored"} => busy = c
    /\ pc[c] # "idle" => device[c] \in Device

\* What the SELECT found is so: the row of that name, or that there is none.
FoundIsTrue ==
  \A c \in Call : pc[c] = "found" =>
    IF device[c].row = 0 THEN Named(device[c].hostname) = {}
    ELSE /\ device[c].row \in Present
         /\ rows[device[c].row].hostname = device[c].hostname

\* The row just written is there when its history is.
StoredIsThere ==
  \A c \in Call : pc[c] = "stored" => device[c].row \in Present

IInv ==
  /\ TypeOK /\ Holding /\ FoundIsTrue /\ StoredIsThere
  /\ NoTwins /\ NoOrphans /\ doomed = {}

LEMMA InvInit == Init => IInv
  BY SitemapAssumption
  DEF Init, IInv, TypeOK, Holding, FoundIsTrue, StoredIsThere, NoTwins, NoOrphans,
      Present, Id, Absent

LEMMA AbsentNoRow == Absent \notin Row
  <1>1. None \notin Ident BY SitemapAssumption DEF Ident
  <1>2. Absent \notin Row BY <1>1 DEF Absent, Row
  <1>q. QED BY <1>2

\* With unique names the migration of Open drops nothing.
LEMMA DedupKeepsAll ==
  ASSUME TypeOK, NoTwins, NEW ids \in Deduplicated PROVE ids = Present
  <1>1. ASSUME NEW r \in Present PROVE r \in ids
    <2>1. Named(rows[r].hostname) = {r} BY <1>1 DEF NoTwins, Named
    <2>2. PICK k \in Id : ids \cap Named(rows[r].hostname) = {k} BY <1>1 DEF Deduplicated
    <2>q. QED BY <2>1, <2>2
  <1>q. QED BY <1>1 DEF Deduplicated

\* What a call does while it changes neither rows nor history.
LEMMA ReadingStep ==
  ASSUME ~shared, IInv, NEW c \in Call, UNCHANGED <<rows, nextId, history, world, doomed>>,
         NEW d \in Device, device' = [device EXCEPT ![c] = d],
         NEW p \in {"opened", "dialing", "answered", "keyed", "found"},
         pc' = [pc EXCEPT ![c] = p],
         busy \in {None, c}, busy' = IF p = "dialing" THEN None ELSE c,
         p = "found" => IF d.row = 0 THEN Named(d.hostname) = {}
                        ELSE d.row \in Present /\ rows[d.row].hostname = d.hostname
  PROVE  IInv'
  <1>1. TypeOK' BY DEF IInv, TypeOK, world
  <1>2. Holding' BY SitemapAssumption DEF IInv, TypeOK, Holding
  <1>3. FoundIsTrue' BY DEF IInv, TypeOK, FoundIsTrue, Named, Present
  <1>4. (StoredIsThere /\ NoTwins /\ NoOrphans /\ doomed = {})'
    BY DEF IInv, TypeOK, StoredIsThere, NoTwins, NoOrphans, Present
  <1>q. QED BY <1>1, <1>2, <1>3, <1>4 DEF IInv

\* A row that store_device found may be written over, and a new name added.
LEMMA WriteStep ==
  ASSUME ~shared, IInv, NEW c \in Call, Write(c) PROVE IInv'
  <1> DEFINE r == device[c].row
  <1>0. /\ TypeOK /\ Holding /\ FoundIsTrue /\ StoredIsThere /\ NoTwins /\ NoOrphans
        /\ doomed = {} /\ pc[c] = "found" /\ device[c] \in Device /\ busy = c
    BY DEF IInv, Holding, Write, Go
  <1>1. Written(device[c]) \in Row
    BY <1>0 DEF Written, Device, Row
  <1>2. CASE r = 0
    <2>1. /\ nextId \in Id /\ Named(device[c].hostname) = {}
          /\ rows' = [rows EXCEPT ![nextId] = Written(device[c])]
          /\ nextId' = nextId + 1
          /\ device' = [device EXCEPT ![c].row = nextId]
      <3>1. /\ nextId <= MaxRows /\ nextId' = nextId + 1
            /\ rows' = [rows EXCEPT ![nextId] = Written(device[c])]
            /\ device' = [device EXCEPT ![c].row = nextId]
        BY <1>2 DEF Write
      <3>2. nextId \in Id BY <3>1, <1>0, SitemapAssumption DEF TypeOK, Id
      <3>3. Named(device[c].hostname) = {} BY <1>2, <1>0 DEF FoundIsTrue
      <3>q. QED BY <3>1, <3>2, <3>3
    <2>2. Written(device[c]) \in Row /\ rows'[nextId] # Absent
          /\ rows'[nextId].hostname = device[c].hostname
      BY <1>1, <2>1, <1>0, AbsentNoRow DEF TypeOK, Written
    <2>3. Present' = Present \cup {nextId} BY <2>1, <2>2, <1>0 DEF Present, TypeOK
    <2>4. device'[c] \in Device /\ device'[c].row = nextId BY <2>1, <1>0 DEF TypeOK, Device
    <2>5. TypeOK'
      BY <2>1, <2>2, <2>4, <1>0, SitemapAssumption DEF TypeOK, Write, Go, Take, world, Id
    <2>6. Holding' BY <2>1, <2>4, <1>0 DEF TypeOK, Holding, Write, Go, Take
    <2>7. (FoundIsTrue /\ StoredIsThere)'
      BY <2>1, <2>3, <2>4, <1>0 DEF TypeOK, Holding, FoundIsTrue, StoredIsThere, Write, Go
    <2>8. NoTwins'
      BY <2>1, <2>2, <2>3, <1>0 DEF NoTwins, Named, Present, TypeOK
    <2>9. NoOrphans'
      BY <2>1, <2>2, <1>0 DEF NoOrphans, TypeOK, Write
    <2>q. QED BY <2>5, <2>6, <2>7, <2>8, <2>9, <1>0 DEF IInv, Write
  <1>3. CASE r # 0
    <2>1. /\ r \in Present /\ rows[r].hostname = device[c].hostname
          /\ UNCHANGED <<nextId, device>>
      BY <1>3, <1>0 DEF FoundIsTrue, Write
    <2>w. rows[r] \in Row BY <2>1, <1>0 DEF Present, TypeOK
    <2> DEFINE w == [Written(device[c]) EXCEPT !.hostname = rows[r].hostname]
    <2>2. rows' = [rows EXCEPT ![r] = w]
      BY <1>3, <2>1, <1>0 DEF Write, Present, TypeOK
    <2>3. w \in Row /\ w # Absent /\ w.hostname = rows[r].hostname
      BY <1>1, <2>w, AbsentNoRow DEF Row, Written
    <2>4. Present' = Present BY <2>1, <2>2, <2>3, <1>0 DEF Present, TypeOK
    <2>5. \A q \in Present : rows'[q].hostname = rows[q].hostname
      BY <2>1, <2>2, <2>3, <1>0 DEF Present, TypeOK
    <2>6. TypeOK'
      BY <2>1, <2>2, <2>3, <1>0 DEF TypeOK, Write, Go, Take, world
    <2>7. Holding' BY <2>1, <1>0 DEF TypeOK, Holding, Write, Go, Take
    <2>8. (FoundIsTrue /\ StoredIsThere)'
      BY <2>1, <2>4, <1>0 DEF TypeOK, Holding, FoundIsTrue, StoredIsThere, Write, Go
    <2>9. NoTwins' BY <2>4, <2>5, <1>0 DEF NoTwins
    <2>10. NoOrphans'
      BY <2>2, <2>3, <1>0 DEF NoOrphans, TypeOK, Write
    <2>q. QED BY <2>6, <2>7, <2>8, <2>9, <2>10, <1>0 DEF IInv, Write
  <1>q. QED BY <1>2, <1>3

\* Rows deleted with their history, while no call has the event loop.
LEMMA DeleteStep ==
  ASSUME ~shared, IInv, NEW kept \in Deduplicated, NEW ids \in SUBSET Id,
         Delete(kept, ids), busy = None, UNCHANGED <<nextId, world, calls, doomed>>
  PROVE  IInv'
  <1>0. rows' = [r \in Id |-> IF r \in Present \ ids THEN rows[r] ELSE Absent]
    BY DedupKeepsAll DEF IInv, Delete, Keep
  <1>1. \A c \in Call : pc[c] \in {"idle", "dialing"}
    BY SitemapAssumption DEF IInv, TypeOK, Holding
  <1>2. Present' \subseteq Present /\ \A q \in Present' : rows'[q] = rows[q]
    BY <1>0 DEF Present
  <1>3. TypeOK' BY <1>0 DEF IInv, TypeOK, Delete, Present, calls, world
  <1>4. (Holding /\ FoundIsTrue /\ StoredIsThere /\ doomed = {})'
    BY <1>1 DEF IInv, Holding, FoundIsTrue, StoredIsThere, calls
  <1>5. NoTwins' BY <1>2 DEF IInv, NoTwins
  <1>6. NoOrphans' BY <1>0 DEF IInv, TypeOK, NoOrphans, Delete, Present
  <1>q. QED BY <1>3, <1>4, <1>5, <1>6 DEF IInv

-----------------------------------------------------------------------------
\* A call that resolves, dials or takes an identity still knows a device.
LEMMA DeviceGiven ==
  ASSUME TypeOK, NEW c \in Call, device[c] \in Device,
         Resolve(c) \/ Answer(c) \/ Identify(c)
  PROVE  \E d \in Device : device' = [device EXCEPT ![c] = d]
  <1>0. device[c].ip \in Ident /\ device[c].ident \in Ident BY DEF Device
  <1>1. CASE UNCHANGED device BY <1>1 DEF TypeOK
  <1>2. ASSUME NEW x \in Ident, device' = [device EXCEPT ![c].ip = x]
        PROVE  \E d \in Device : device' = [device EXCEPT ![c] = d]
    <2> DEFINE d == [device[c] EXCEPT !.ip = x]
    <2>1. d \in Device /\ device' = [device EXCEPT ![c] = d] BY <1>2 DEF Device
    <2>q. QED BY <2>1
  <1>3. CASE Resolve(c)
    <2>1. SUFFICES ASSUME ~(Cardinality(Matches(device[c].ident)) > 1)
                   PROVE  \E x \in Ident : device' = [device EXCEPT ![c].ip = x]
      BY <1>1, <1>2, <1>3 DEF Resolve
    <2>2. PICK target \in IF Matches(device[c].ident) = {} THEN {device[c].ident}
                          ELSE {rows[r].ip : r \in Matches(device[c].ident)} :
            device' = [device EXCEPT ![c].ip = target]
      BY <1>3, <2>1 DEF Resolve
    <2>3. \A r \in Matches(device[c].ident) : rows[r].ip \in Ident
      BY DEF Matches, Present, TypeOK, Row
    <2>q. QED BY <1>0, <2>2, <2>3
  <1>4. CASE Answer(c)
    <2>1. ASSUME Reach(device[c].ip) # None, NEW n \in {Reach(device[c].ip), device[c].ident},
                 device' = [device EXCEPT ![c].hostname = n, ![c].status = "success"]
          PROVE  \E d \in Device : device' = [device EXCEPT ![c] = d]
      <3>1. n \in Ident BY <1>0, <2>1 DEF Reach, TypeOK, Ident
      <3> DEFINE d == [device[c] EXCEPT !.hostname = n, !.status = "success"]
      <3>2. d \in Device BY <3>1 DEF Device
      <3>3. device' = [device EXCEPT ![c] = d] BY <2>1 DEF TypeOK, Device
      <3>q. QED BY <3>2, <3>3
    <2>q. QED BY <1>0, <1>2, <1>4, <2>1 DEF Answer
  <1>5. CASE Identify(c)
    <2>1. ASSUME NEW r \in Matches(device[c].ident),
                 device' = [device EXCEPT ![c].hostname = rows[r].hostname, ![c].ip = rows[r].ip]
          PROVE  \E d \in Device : device' = [device EXCEPT ![c] = d]
      <3>1. rows[r].hostname \in Ident /\ rows[r].ip \in Ident
        BY <2>1 DEF Matches, Present, TypeOK, Row
      <3> DEFINE d == [device[c] EXCEPT !.hostname = rows[r].hostname, !.ip = rows[r].ip]
      <3>2. d \in Device BY <3>1 DEF Device
      <3>3. device' = [device EXCEPT ![c] = d] BY <2>1 DEF TypeOK, Device
      <3>q. QED BY <3>2, <3>3
    <2>q. QED BY <1>1, <1>5, <2>1 DEF Identify
  <1>q. QED BY <1>3, <1>4, <1>5

\* Every action of a discovery keeps the invariant.
LEMMA CallStep ==
  ASSUME ~shared, IInv, NEW c \in Call,
         \/ \E i \in Ident : Open(c, i)
         \/ Resolve(c) \/ Answer(c) \/ Identify(c) \/ Lookup(c) \/ Write(c) \/ Log(c)
  PROVE  IInv'
  <1>0. TypeOK /\ Holding /\ NoTwins BY DEF IInv
  <1>d. ASSUME pc[c] # "idle" PROVE device[c] \in Device BY <1>d, <1>0 DEF Holding
  <1>1. ASSUME NEW i \in Ident, Open(c, i) PROVE IInv'
    <2> DEFINE d == [ident |-> i, hostname |-> i, ip |-> i, status |-> "error", row |-> 0]
    <2>1. d \in Device BY DEF Device
    <2>2. rows' = rows
      <3>1. rows' = [r \in Id |-> IF r \in Present THEN rows[r] ELSE Absent]
        BY <1>1, <1>0, DedupKeepsAll DEF Open, Keep
      <3>q. QED BY <3>1, <1>0 DEF TypeOK, Present
    <2>3. /\ device' = [device EXCEPT ![c] = d] /\ pc' = [pc EXCEPT ![c] = "opened"]
          /\ busy \in {None, c} /\ busy' = c /\ UNCHANGED <<nextId, history, world, doomed>>
      BY <1>1 DEF Open, Go, Take
    <2>q. QED BY <2>1, <2>2, <2>3, ReadingStep
  <1>2. CASE Resolve(c)
    <2>1. device[c] \in Device BY <1>2, <1>d DEF Resolve
    <2>2. PICK d \in Device : device' = [device EXCEPT ![c] = d]
      BY <1>0, <1>2, <2>1, DeviceGiven
    <2>3. CASE Cardinality(Matches(device[c].ident)) > 1
      <3>1. /\ pc' = [pc EXCEPT ![c] = "answered"] /\ busy \in {None, c} /\ busy' = c
            /\ UNCHANGED <<rows, nextId, history, world, doomed>>
        BY <1>2, <2>3 DEF Resolve, Go, Take
      <3>q. QED BY <2>2, <3>1, ReadingStep
    <2>4. CASE ~(Cardinality(Matches(device[c].ident)) > 1)
      <3>1. /\ pc' = [pc EXCEPT ![c] = "dialing"] /\ busy \in {None, c} /\ busy' = None
            /\ UNCHANGED <<rows, nextId, history, world, doomed>>
        BY <1>2, <2>4 DEF Resolve, Go, Release
      <3>q. QED BY <2>2, <3>1, ReadingStep
    <2>q. QED BY <2>3, <2>4
  <1>3. CASE Answer(c)
    <2>1. device[c] \in Device BY <1>3, <1>d DEF Answer, Go
    <2>2. /\ pc' = [pc EXCEPT ![c] = "answered"] /\ busy \in {None, c} /\ busy' = c
          /\ UNCHANGED <<rows, nextId, history, world, doomed>>
      BY <1>3 DEF Answer, Go, Take
    <2>q. QED BY <1>0, <1>3, <2>1, <2>2, DeviceGiven, ReadingStep
  <1>4. CASE Identify(c)
    <2>1. device[c] \in Device BY <1>4, <1>d DEF Identify, Go
    <2>2. /\ pc' = [pc EXCEPT ![c] = "keyed"] /\ busy \in {None, c} /\ busy' = c
          /\ UNCHANGED <<rows, nextId, history, world, doomed>>
      BY <1>4 DEF Identify, Go, Take
    <2>q. QED BY <1>0, <1>4, <2>1, <2>2, DeviceGiven, ReadingStep
  <1>5. CASE Lookup(c)
    <2>1. device[c] \in Device BY <1>5, <1>d DEF Lookup, Go
    <2> DEFINE same == Named(device[c].hostname)
    <2>2. PICK r \in IF same = {} THEN {0} ELSE same : device' = [device EXCEPT ![c].row = r]
      BY <1>5 DEF Lookup
    <2> DEFINE d == [device[c] EXCEPT !.row = r]
    <2>3. r \in Id \cup {0} BY <2>2 DEF Named, Present
    <2>4. d \in Device /\ d.hostname = device[c].hostname /\ d.row = r BY <2>1, <2>3 DEF Device
    <2>5. device' = [device EXCEPT ![c] = d] BY <2>2
    <2>6. IF r = 0 THEN same = {} ELSE r \in Present /\ rows[r].hostname = device[c].hostname
      BY <2>2 DEF Named, Present, Id
    <2>7. /\ pc' = [pc EXCEPT ![c] = "found"] /\ busy \in {None, c} /\ busy' = c
          /\ UNCHANGED <<rows, nextId, history, world, doomed>>
      BY <1>5 DEF Lookup, Go, Take
    <2> HIDE DEF d, same
    <2>8. IF d.row = 0 THEN Named(d.hostname) = {}
          ELSE d.row \in Present /\ rows[d.row].hostname = d.hostname
      BY <2>4, <2>6 DEF same
    <2>q. QED BY <2>4, <2>5, <2>7, <2>8, ReadingStep
  <1>6. CASE Write(c) BY <1>6, WriteStep
  <1>7. CASE Log(c)
    <2>1. /\ device[c] \in Device /\ device[c].row \in Present /\ pc[c] = "stored"
          /\ pc' = [pc EXCEPT ![c] = "idle"] /\ busy' = None /\ busy = c
          /\ history' = history \cup {device[c].row} /\ device' = [device EXCEPT ![c] = None]
          /\ UNCHANGED <<rows, nextId, owner, moves, shared, doomed>>
      BY <1>7, <1>d DEF Log, Go, Release, IInv, StoredIsThere, Holding, world
    <2>2. TypeOK' BY <2>1, <1>0 DEF TypeOK, Present
    <2>3. Holding' BY <2>1, <1>0, SitemapAssumption DEF TypeOK, Holding
    <2>4. (FoundIsTrue /\ StoredIsThere)'
      BY <2>1, <1>0 DEF IInv, TypeOK, FoundIsTrue, StoredIsThere, Named, Present
    <2>5. (NoTwins /\ NoOrphans /\ doomed = {})'
      BY <2>1 DEF IInv, NoTwins, NoOrphans, Present
    <2>q. QED BY <2>2, <2>3, <2>4, <2>5 DEF IInv
  <1>q. QED BY <1>1, <1>2, <1>3, <1>4, <1>5, <1>6, <1>7

\* Whether calls share a process never changes.
LEMMA SharedStays == ASSUME [Next]_vars PROVE shared' = shared
  BY DEF Next, vars, world, Open, Resolve, Answer, Identify, Lookup, Write, Log,
         RemoveDevice, OpenOnly, PurgeFailed, PurgeDelete, Move

LEMMA InvNext == ASSUME ~shared, IInv, [Next]_vars PROVE IInv'
  <1>1. ASSUME NEW r \in Id, RemoveDevice(r) PROVE IInv'
    BY <1>1, DeleteStep DEF RemoveDevice, Idle
  <1>2. CASE PurgeFailed
    <2>1. PICK kept \in Deduplicated : Delete(kept, {r \in kept : Failed(r)})
      BY <1>2 DEF PurgeFailed
    <2> DEFINE ids == {r \in kept : Failed(r)}
    <2>2. ids \in SUBSET Id BY DEF Deduplicated, Present
    <2>3. busy = None /\ UNCHANGED <<nextId, world, calls, doomed>>
      BY <1>2 DEF PurgeFailed, Idle
    <2>4. Delete(kept, ids) BY <2>1
    <2> HIDE DEF ids
    <2>q. QED BY <2>2, <2>3, <2>4, DeleteStep
  <1>o. CASE OpenOnly
    <2>1. PICK kept \in Deduplicated : rows' = Keep(kept \ {})
      BY <1>o DEF OpenOnly, Keep
    <2>2. Delete(kept, {}) BY <2>1, <1>o DEF OpenOnly, Delete
    <2>q. QED BY <2>2, <1>o, DeleteStep DEF OpenOnly, Idle
  <1>3. CASE PurgeDelete BY <1>3 DEF PurgeDelete, IInv
  <1>4. ASSUME NEW a \in Address, NEW n \in Name \cup {None}, Move(a, n) PROVE IInv'
    <2>1. UNCHANGED <<rows, nextId, history, pc, device, busy, doomed>> BY <1>4 DEF Move, calls
    <2>2. TypeOK' BY <1>4, <2>1, SitemapAssumption DEF Move, IInv, TypeOK
    <2>3. (Holding /\ FoundIsTrue /\ StoredIsThere /\ NoTwins /\ NoOrphans /\ doomed = {})'
      BY <2>1 DEF IInv, Holding, FoundIsTrue, StoredIsThere, NoTwins, NoOrphans, Named, Present
    <2>q. QED BY <2>2, <2>3 DEF IInv
  <1>6. CASE UNCHANGED vars
    BY <1>6 DEF vars, world, calls, IInv, TypeOK, Holding, FoundIsTrue, StoredIsThere,
                NoTwins, NoOrphans, Named, Present
  <1>q. QED BY <1>1, <1>2, <1>o, <1>3, <1>4, <1>6, CallStep DEF Next

\* While calls share a process the whole invariant holds, throughout.
THEOREM Invariance == Spec => [](~shared => IInv)
  <1>1. Init => (~shared => IInv) BY InvInit
  <1>2. (~shared => IInv) /\ [Next]_vars => (~shared => IInv)'
    BY SharedStays, InvNext
  <1>q. QED BY <1>1, <1>2, PTL DEF Spec

\* In one process every variable keeps its type, for any names, addresses and calls.
THEOREM TypeCorrect == Spec => [](~shared => TypeOK)
  <1>1. (~shared => IInv) => (~shared => TypeOK) BY DEF IInv
  <1>q. QED BY <1>1, Invariance, PTL

\* The hostname is the natural key of the site map: store_device, which looks a
\* name up and then writes, never adds a second row of a name.
THEOREM NamesStayUnique == Spec => []NamesUnique
  <1>1. (~shared => IInv) => NamesUnique BY DEF IInv, NamesUnique
  <1>q. QED BY <1>1, Invariance, PTL

\* No deletion, by id or by purge, leaves history without its device, and no
\* discovery that was waiting logs one for a device deleted meanwhile.
THEOREM HistoryStaysOwned == Spec => []HistoryOwned
  <1>1. (~shared => IInv) => HistoryOwned BY DEF IInv, HistoryOwned
  <1>q. QED BY <1>1, Invariance, PTL

-----------------------------------------------------------------------------
(* An error keeps the identity of the row it matches.                      *)

\* What a failed discovery is about to store: until it has matched the rows, its own
\* identifier as the name; then the name and address of a matching row, if any.
FailureIsNamed ==
  \A c \in Call : pc[c] \notin {"idle", "stored"} /\ device[c].status = "error" =>
    LET m == Matches(device[c].ident) IN
    \/ /\ device[c].hostname = device[c].ident
       /\ pc[c] \in {"keyed", "found"} => m = {}
    \/ /\ pc[c] \in {"keyed", "found"}
       /\ \E r \in m : rows[r].hostname = device[c].hostname /\ rows[r].ip = device[c].ip

LEMMA FailureInit == Init => FailureIsNamed
  BY DEF Init, FailureIsNamed

\* While a call has the event loop, the others are idle or wait for the network, and
\* what a wait will store does not depend on the rows.
LEMMA OthersWait ==
  ASSUME IInv, NEW c \in Call, FailureIsNamed, NEW d \in Device \cup {None},
         NEW p \in {"idle", "opened", "dialing", "answered", "keyed", "found", "stored"},
         busy \in {None, c}, pc' = [pc EXCEPT ![c] = p], device' = [device EXCEPT ![c] = d],
         p \in {"keyed", "found"} => UNCHANGED rows,
         p \notin {"idle", "stored"} /\ d.status = "error" =>
           \/ /\ d.hostname = d.ident
              /\ p \in {"keyed", "found"} => Matches(d.ident) = {}
           \/ /\ p \in {"keyed", "found"}
              /\ \E r \in Matches(d.ident) : rows[r].hostname = d.hostname /\ rows[r].ip = d.ip
  PROVE  FailureIsNamed'
  <1>1. \A k \in Call \ {c} : pc[k] \in {"idle", "dialing"}
    BY SitemapAssumption DEF IInv, TypeOK, Holding
  <1>2. \A k \in Call \ {c} : pc'[k] = pc[k] /\ device'[k] = device[k]
    BY DEF IInv, TypeOK
  <1>3. pc'[c] = p /\ device'[c] = d
    BY DEF IInv, TypeOK
  <1>4. ASSUME NEW k \in Call \ {c}, pc[k] = "dialing", device[k].status = "error"
        PROVE  device[k].hostname = device[k].ident
    BY <1>4 DEF FailureIsNamed
  <1>5. ASSUME p \in {"keyed", "found"} PROVE Matches(device[c].ident)' = Matches(d.ident)
    BY <1>3, <1>5 DEF Matches, Present
  <1>6. ASSUME NEW k \in Call, pc'[k] \notin {"idle", "stored"}, device'[k].status = "error"
        PROVE  LET m == Matches(device[k].ident)' IN
               \/ /\ device'[k].hostname = device'[k].ident
                  /\ pc'[k] \in {"keyed", "found"} => m = {}
               \/ /\ pc'[k] \in {"keyed", "found"}
                  /\ \E r \in m : rows'[r].hostname = device'[k].hostname
                                  /\ rows'[r].ip = device'[k].ip
    <2>1. CASE k # c BY <2>1, <1>1, <1>2, <1>4, <1>6
    <2>2. CASE k = c BY <2>2, <1>3, <1>5, <1>6
    <2>q. QED BY <2>1, <2>2
  <1>q. QED BY <1>6 DEF FailureIsNamed

LEMMA FailureStep ==
  ASSUME ~shared, IInv, FailureIsNamed, [Next]_vars PROVE FailureIsNamed'
  <1>0. TypeOK /\ Holding /\ NoTwins /\ FoundIsTrue BY DEF IInv
  <1>d. ASSUME NEW c \in Call, pc[c] # "idle" PROVE device[c] \in Device
    BY <1>d, <1>0 DEF Holding
  <1>1. ASSUME NEW c \in Call, NEW i \in Ident, Open(c, i) PROVE FailureIsNamed'
    <2> DEFINE d == [ident |-> i, hostname |-> i, ip |-> i, status |-> "error", row |-> 0]
    <2>1. /\ pc' = [pc EXCEPT ![c] = "opened"] /\ busy \in {None, c}
          /\ device' = [device EXCEPT ![c] = d]
      BY <1>1 DEF Open, Go, Take
    <2>2. d.hostname = d.ident /\ d \in Device BY DEF Device
    <2> HIDE DEF d
    <2>q. QED BY <2>1, <2>2, OthersWait
  <1>2. ASSUME NEW c \in Call, Resolve(c) \/ Answer(c) PROVE FailureIsNamed'
    <2>1. pc[c] \in {"opened", "dialing"} /\ device[c] \in Device
      BY <1>2, <1>d DEF Resolve, Answer, Go
    <2>2. PICK d \in Device : device' = [device EXCEPT ![c] = d]
      BY <1>0, <1>2, <2>1, DeviceGiven
    <2>3. PICK p \in {"answered", "dialing"} : pc' = [pc EXCEPT ![c] = p] /\ busy \in {None, c}
      BY <1>2 DEF Resolve, Answer, Go, Take, Release
    <2>4. d.status = "error" => d.hostname = d.ident
      <3>1. device'[c] = d BY <2>2, <1>0 DEF TypeOK
      <3>2. d.status = "error" =>
              /\ device[c].status = "error"
              /\ d.hostname = device[c].hostname /\ d.ident = device[c].ident
        <4>1. CASE UNCHANGED device BY <4>1, <3>1
        <4>2. CASE \E x : device' = [device EXCEPT ![c].ip = x]
          BY <4>2, <3>1, <2>1, <1>0 DEF TypeOK, Device
        <4>3. CASE \E n : device' = [device EXCEPT ![c].hostname = n, ![c].status = "success"]
          BY <4>3, <3>1, <2>1, <1>0 DEF TypeOK, Device
        <4>q. QED BY <1>2, <4>1, <4>2, <4>3 DEF Resolve, Answer
      <3>q. QED BY <3>2, <2>1 DEF FailureIsNamed
    <2>q. QED BY <2>2, <2>3, <2>4, OthersWait
  <1>3. ASSUME NEW c \in Call, Identify(c) PROVE FailureIsNamed'
    <2>1. /\ pc[c] = "answered" /\ device[c] \in Device /\ busy \in {None, c}
          /\ pc' = [pc EXCEPT ![c] = "keyed"] /\ UNCHANGED rows
      BY <1>3, <1>d DEF Identify, Go, Take
    <2> DEFINE m == Matches(device[c].ident)
    <2>3. CASE device[c].status = "error" /\ m # {}
      <3>1. PICK r \in m :
              device' = [device EXCEPT ![c].hostname = rows[r].hostname, ![c].ip = rows[r].ip]
        BY <1>3, <2>3 DEF Identify
      <3> DEFINE d == [device[c] EXCEPT !.hostname = rows[r].hostname, !.ip = rows[r].ip]
      <3>2. device' = [device EXCEPT ![c] = d] BY <3>1, <2>1, <1>0 DEF TypeOK, Device
      <3>3. d.ident = device[c].ident /\ d.hostname = rows[r].hostname /\ d.ip = rows[r].ip
        BY <2>1 DEF Device
      <3>4. d \in Device BY <2>1, <1>0 DEF Device, Matches, Present, TypeOK, Row
      <3> HIDE DEF d
      <3>q. QED BY <2>1, <3>1, <3>2, <3>3, <3>4, OthersWait
    <2>4. CASE ~(device[c].status = "error" /\ m # {})
      <3>1. device' = [device EXCEPT ![c] = device[c]] BY <1>3, <2>4, <1>0 DEF Identify, TypeOK
      <3>2. device[c].status = "error" => device[c].hostname = device[c].ident /\ m = {}
        BY <2>1, <2>4 DEF FailureIsNamed
      <3>q. QED BY <2>1, <3>1, <3>2, OthersWait
    <2>q. QED BY <2>3, <2>4
  <1>4. ASSUME NEW c \in Call, Lookup(c) PROVE FailureIsNamed'
    <2>1. /\ pc[c] = "keyed" /\ device[c] \in Device /\ busy \in {None, c}
          /\ pc' = [pc EXCEPT ![c] = "found"] /\ UNCHANGED rows
      BY <1>4, <1>d DEF Lookup, Go, Take
    <2>2. PICK r \in Id \cup {0} : device' = [device EXCEPT ![c].row = r]
      BY <1>4 DEF Lookup, Named, Present
    <2> DEFINE d == [device[c] EXCEPT !.row = r]
    <2>3. device' = [device EXCEPT ![c] = d] BY <2>2
    <2>4. /\ d.ident = device[c].ident /\ d.hostname = device[c].hostname
          /\ d.ip = device[c].ip /\ d.status = device[c].status /\ d \in Device
      BY <2>1, <2>2 DEF Device
    <2> HIDE DEF d
    <2>5. d.status = "error" =>
            \/ d.hostname = d.ident /\ Matches(d.ident) = {}
            \/ \E s \in Matches(d.ident) : rows[s].hostname = d.hostname /\ rows[s].ip = d.ip
      BY <2>1, <2>4 DEF FailureIsNamed
    <2>q. QED BY <2>1, <2>3, <2>4, <2>5, OthersWait
  <1>5. ASSUME NEW c \in Call, Write(c) PROVE FailureIsNamed'
    <2>1. /\ pc[c] = "found" /\ pc' = [pc EXCEPT ![c] = "stored"] /\ busy \in {None, c}
          /\ device[c] \in Device
      BY <1>5, <1>d DEF Write, Go, Take
    <2>2. CASE UNCHANGED device
      <3>1. device' = [device EXCEPT ![c] = device[c]] BY <2>2, <1>0 DEF TypeOK
      <3>q. QED BY <2>1, <3>1, OthersWait
    <2>3. CASE device' = [device EXCEPT ![c].row = nextId] /\ nextId \in Id
      <3> DEFINE d == [device[c] EXCEPT !.row = nextId]
      <3>1. d \in Device /\ device' = [device EXCEPT ![c] = d] BY <2>1, <2>3 DEF Device
      <3> HIDE DEF d
      <3>q. QED BY <2>1, <3>1, OthersWait
    <2>q. QED BY <1>0, <1>5, <2>2, <2>3, SitemapAssumption DEF Write, TypeOK, Id
  <1>6. ASSUME NEW c \in Call, Log(c) PROVE FailureIsNamed'
    BY <1>6, OthersWait DEF Log, Go, Release
  <1>7. CASE busy = None /\ UNCHANGED calls
    <2>1. \A c \in Call : pc[c] \in {"idle", "dialing"}
      BY <1>0, <1>7, SitemapAssumption DEF TypeOK, Holding
    <2>q. QED BY <1>7, <2>1 DEF FailureIsNamed, calls
  <1>8. CASE UNCHANGED <<calls, rows>>
    BY <1>8 DEF FailureIsNamed, calls, Matches, Present
  <1>q. QED BY <1>1, <1>2, <1>3, <1>4, <1>5, <1>6, <1>7, <1>8
    DEF IInv, Next, RemoveDevice, OpenOnly, PurgeFailed, PurgeDelete, Idle, Move, vars

\* An id that AUTOINCREMENT has not handed out has no row.
FreshIds == \A r \in Id : r >= nextId => rows[r] = Absent

LEMMA FreshInit == Init => FreshIds
  BY DEF Init, FreshIds

LEMMA FreshStep == ASSUME TypeOK, FreshIds, [Next]_vars PROVE FreshIds'
  <1>1. ASSUME nextId' = nextId, \A r \in Id : rows'[r] \in {rows[r], Absent} PROVE FreshIds'
    BY <1>1 DEF FreshIds
  <1>2. ASSUME NEW c \in Call,
               \/ \E i \in Ident : Open(c, i)
               \/ Resolve(c) \/ Answer(c) \/ Identify(c) \/ Lookup(c) \/ Log(c)
        PROVE  FreshIds'
    BY <1>1, <1>2 DEF Open, Resolve, Answer, Identify, Lookup, Log, Keep
  <1>3. ASSUME NEW c \in Call, Write(c) PROVE FreshIds'
    <2>1. CASE device[c].row = 0
      <3>1. nextId' = nextId + 1 /\ nextId \in Nat BY <1>3, <2>1, SitemapAssumption DEF Write, TypeOK
      <3>2. \A r \in Id : r # nextId => rows'[r] = rows[r] BY <1>3, <2>1 DEF Write, TypeOK
      <3>q. QED BY <3>1, <3>2 DEF FreshIds, Id
    <2>2. CASE device[c].row # 0
      <3>1. nextId' = nextId BY <1>3, <2>2 DEF Write
      <3>2. ASSUME NEW r \in Id, rows[r] = Absent PROVE rows'[r] = Absent
        BY <1>3, <2>2, <3>2 DEF Write, TypeOK
      <3>q. QED BY <3>1, <3>2 DEF FreshIds
    <2>q. QED BY <2>1, <2>2
  <1>4. ASSUME OpenOnly \/ PurgeFailed \/ PurgeDelete \/ \E r \in Id : RemoveDevice(r) PROVE FreshIds'
    BY <1>1, <1>4 DEF OpenOnly, PurgeFailed, PurgeDelete, RemoveDevice, Delete, Keep
  <1>5. ASSUME NEW a \in Address, NEW n \in Name \cup {None}, Move(a, n) PROVE FreshIds'
    BY <1>1, <1>5 DEF Move
  <1>6. CASE UNCHANGED vars BY <1>1, <1>6 DEF vars
  <1>q. QED BY <1>2, <1>3, <1>4, <1>5, <1>6 DEF Next

\* In one process a failed discovery never adds a second row for a machine that has
\* one, and changes no row's name or address.
THEOREM FailuresKeepIdentity == Spec => FailureKeepsIdentity
  <1> DEFINE Keeps(c) ==
        ~shared /\ pc[c] = "found" /\ pc'[c] = "stored" /\ device[c].status = "error" =>
          /\ nextId' # nextId => Matches(device[c].ident) = {}
          /\ \A r \in Present : rows'[r].hostname = rows[r].hostname /\ rows'[r].ip = rows[r].ip
  <1>1. ASSUME ~shared => IInv /\ FailureIsNamed /\ FreshIds, [Next]_vars, NEW c \in Call PROVE Keeps(c)
    <2>1. SUFFICES ASSUME ~shared, pc[c] = "found", pc'[c] = "stored", device[c].status = "error"
                   PROVE  Keeps(c)
      OBVIOUS
    <2>0. TypeOK /\ NoTwins /\ FoundIsTrue /\ FailureIsNamed /\ FreshIds /\ device[c] \in Device
      BY <1>1, <2>1 DEF IInv, Holding
    <2>2. Write(c)
      BY <1>1, <2>0, <2>1 DEF Next, Open, Resolve, Answer, Identify, Lookup, Write, Log, Go,
         RemoveDevice, OpenOnly, PurgeFailed, PurgeDelete, Move, calls, vars, TypeOK
    <2> DEFINE m == Matches(device[c].ident)
               w == device[c].row
    <2>3. \/ device[c].hostname = device[c].ident /\ m = {}
          \/ \E r \in m : rows[r].hostname = device[c].hostname /\ rows[r].ip = device[c].ip
      BY <2>0, <2>1 DEF FailureIsNamed
    <2>4. CASE w = 0
      <3>1. Named(device[c].hostname) = {} BY <2>0, <2>1, <2>4 DEF FoundIsTrue
      <3>2. m = {} BY <2>3, <3>1 DEF Matches, Named
      <3>3. rows' = [rows EXCEPT ![nextId] = Written(device[c])] /\ nextId \in Id
        BY <2>0, <2>2, <2>4, SitemapAssumption DEF Write, TypeOK, Id
      <3>4. ASSUME NEW r \in Present PROVE rows'[r] = rows[r]
        <4>1. r # nextId BY <2>0, <3>3 DEF FreshIds, Present, Id
        <4>q. QED BY <2>0, <3>3, <4>1 DEF Present, TypeOK
      <3>q. QED BY <3>2, <3>4
    <2>5. CASE w # 0
      <3>1. w \in Present /\ rows[w].hostname = device[c].hostname
        BY <2>0, <2>1, <2>5 DEF FoundIsTrue
      <3>2. rows[w].ip = device[c].ip
        <4>1. m # {} BY <2>3, <3>1 DEF Matches
        <4>2. PICK r \in m : rows[r].hostname = device[c].hostname /\ rows[r].ip = device[c].ip
          BY <2>3, <4>1
        <4>3. r = w BY <2>0, <3>1, <4>2 DEF NoTwins, Matches
        <4>q. QED BY <4>2, <4>3
      <3>3. rows' = [rows EXCEPT ![w] = [Written(device[c]) EXCEPT !.hostname = rows[w].hostname]]
            /\ nextId' = nextId
        BY <2>0, <2>2, <2>5, <3>1 DEF Write, Present, TypeOK
      <3>q. QED BY <2>0, <3>1, <3>2, <3>3 DEF Present, TypeOK, Written
    <2>q. QED BY <2>4, <2>5
  <1>2. Init => (~shared => IInv /\ FailureIsNamed /\ FreshIds)
    BY InvInit, FailureInit, FreshInit
  <1>3. (~shared => IInv /\ FailureIsNamed /\ FreshIds) /\ [Next]_vars
          => (~shared => IInv /\ FailureIsNamed /\ FreshIds)'
    BY SharedStays, InvNext, FailureStep, FreshStep DEF IInv
  <1>4. (~shared => IInv /\ FailureIsNamed /\ FreshIds) /\ [Next]_vars => [\A c \in Call : Keeps(c)]_vars
    BY <1>1
  <1>q. QED BY <1>2, <1>3, <1>4, PTL DEF Spec, FailureKeepsIdentity

-----------------------------------------------------------------------------
(* In processes of their own: duplicates stay bounded.                     *)

\* A call that is not idle knows a device, and a row once it has stored one.
Knows ==
  \A c \in Call :
    /\ pc[c] # "idle" => device[c] \in Device
    /\ pc[c] = "stored" => device[c].row \in Id

\* The calls whose SELECT found no row named n, and that will insert one.
Adding(n) == {c \in Call : pc[c] = "found" /\ device[c].row = 0 /\ device[c].hostname = n}

\* Whoever will insert a row named n looked when there was none, so each of them
\* and each row there is stands for a call.
PlacesLeft(n) == Cardinality(Named(n)) + Cardinality(Adding(n)) <= Cardinality(Call)

SharedInv == TypeOK /\ Knows /\ \A n \in Ident : PlacesLeft(n)

LEMMA Finite ==
  ASSUME NEW n
  PROVE  /\ IsFiniteSet(Named(n)) /\ Cardinality(Named(n)) \in Nat
         /\ IsFiniteSet(Adding(n)) /\ Cardinality(Adding(n)) \in Nat
         /\ Cardinality(Adding(n)) <= Cardinality(Call) /\ Cardinality(Call) \in Nat
  <1>1. IsFiniteSet(Id) BY FS_Interval, SitemapAssumption DEF Id
  <1>2. Named(n) \in SUBSET Id /\ Adding(n) \in SUBSET Call BY DEF Named, Present, Adding
  <1>q. QED BY <1>1, <1>2, FS_Subset, FS_CardinalityType, SitemapAssumption

LEMMA SharedInit == Init => SharedInv
  <1> SUFFICES ASSUME Init PROVE SharedInv OBVIOUS
  <1>1. TypeOK /\ Knows
    BY SitemapAssumption DEF Init, TypeOK, Knows, Id, Absent
  <1>2. ASSUME NEW n \in Ident PROVE PlacesLeft(n)
    <2>1. Named(n) = {} BY DEF Init, Named, Present
    <2>q. QED BY <2>1, Finite, FS_EmptySet DEF PlacesLeft
  <1>q. QED BY <1>1, <1>2 DEF SharedInv

\* The migration keeps the names of the rows it keeps.
LEMMA KeepNames ==
  ASSUME TypeOK, NEW ids \in SUBSET Present, rows' = Keep(ids)
  PROVE  /\ rows' \in [Id -> Row \cup {Absent}]
         /\ \A n : Named(n)' \subseteq Named(n)
  BY DEF TypeOK, Keep, Named, Present

\* Nothing is added: the names of fewer rows, and of fewer calls that will insert.
LEMMA FewerPlaces ==
  ASSUME NEW n, PlacesLeft(n), Named(n)' \subseteq Named(n), Adding(n)' \subseteq Adding(n)
  PROVE  PlacesLeft(n)'
  <1>1. Cardinality(Named(n)') <= Cardinality(Named(n)) /\ IsFiniteSet(Named(n)')
    BY Finite, FS_Subset
  <1>2. Cardinality(Adding(n)') <= Cardinality(Adding(n)) /\ IsFiniteSet(Adding(n)')
    BY Finite, FS_Subset
  <1>3. Cardinality(Named(n)') \in Nat /\ Cardinality(Adding(n)') \in Nat
    BY <1>1, <1>2, FS_CardinalityType
  <1>q. QED BY <1>1, <1>2, <1>3, Finite DEF PlacesLeft

\* A call goes on with a device, and finds no row missing.
LEMMA PlainStep ==
  ASSUME SharedInv, NEW c \in Call, NEW d \in Device \cup {None},
         NEW p \in {"idle", "opened", "dialing", "answered", "keyed", "found", "stored"},
         pc' = [pc EXCEPT ![c] = p], device' = [device EXCEPT ![c] = d],
         p # "idle" => d \in Device,
         p = "found" => d.row # 0,
         p = "stored" => d.row \in Id,
         \A n \in Ident : Named(n)' \subseteq Named(n)
  PROVE  Knows' /\ \A n \in Ident : PlacesLeft(n)'
  <1>0. /\ \A k \in Call \ {c} : pc'[k] = pc[k] /\ device'[k] = device[k]
        /\ pc'[c] = p /\ device'[c] = d
    BY DEF SharedInv, TypeOK
  <1>1. Knows' BY <1>0 DEF SharedInv, Knows
  <1>2. ASSUME NEW n \in Ident PROVE PlacesLeft(n)'
    <2>1. Adding(n)' \subseteq Adding(n) BY <1>0 DEF Adding
    <2>q. QED BY <2>1, FewerPlaces DEF SharedInv
  <1>q. QED BY <1>1, <1>2

\* store_device's SELECT: it finds none of the name only when there is none.
LEMMA SharedLookup == ASSUME SharedInv, NEW c \in Call, Lookup(c) PROVE SharedInv'
  <1>0. /\ TypeOK /\ pc[c] = "keyed" /\ pc' = [pc EXCEPT ![c] = "found"]
        /\ device[c] \in Device /\ UNCHANGED <<rows, nextId, history, world, doomed>>
        /\ busy' \in {None, c}
    BY DEF SharedInv, Knows, Lookup, Go, Take
  <1>h. PICK h \in Ident : h = device[c].hostname BY <1>0 DEF Device
  <1>1. PICK r \in IF Named(h) = {} THEN {0} ELSE Named(h) : device' = [device EXCEPT ![c].row = r]
    BY <1>0, <1>h DEF Lookup
  <1> DEFINE d == [device[c] EXCEPT !.row = r]
  <1>2. r \in Id \cup {0} /\ (r = 0 => Named(h) = {}) BY <1>1 DEF Named, Present, Id
  <1>3. d \in Device /\ d.row = r /\ d.hostname = h BY <1>0, <1>h, <1>2 DEF Device
  <1>4. device' = [device EXCEPT ![c] = d] BY <1>1
  <1>5. \A n : Named(n)' = Named(n) BY <1>0 DEF Named, Present
  <1> HIDE DEF d
  <1>6. TypeOK' BY <1>0, <1>3, <1>4 DEF TypeOK, world
  <1>7. Knows' /\ \A n \in Ident : PlacesLeft(n)'
    <2>1. CASE r # 0
      <3>q. QED BY <1>0, <1>3, <1>4, <1>5, <2>1, PlainStep
    <2>2. CASE r = 0
      <3>0. /\ \A k \in Call \ {c} : pc'[k] = pc[k] /\ device'[k] = device[k]
            /\ pc'[c] = "found" /\ device'[c] = d
        BY <1>0, <1>4 DEF TypeOK
      <3>1. Knows' BY <3>0, <1>3 DEF SharedInv, Knows
      <3>2. ASSUME NEW n \in Ident, n # h PROVE PlacesLeft(n)'
        <4>1. Adding(n)' \subseteq Adding(n) BY <3>0, <3>2, <1>3 DEF Adding
        <4>q. QED BY <4>1, <1>5, FewerPlaces DEF SharedInv
      <3>3. PlacesLeft(h)'
        <4>1. Named(h)' = {} BY <1>2, <1>5, <2>2
        <4>2. Adding(h)' \in SUBSET Call BY DEF Adding
        <4>3. Cardinality(Adding(h)') <= Cardinality(Call) /\ IsFiniteSet(Adding(h)')
          BY <4>2, FS_Subset, SitemapAssumption
        <4>4. Cardinality(Adding(h)') \in Nat BY <4>3, FS_CardinalityType
        <4>5. Cardinality(Named(h)') = 0 BY <4>1, FS_EmptySet
        <4>6. Cardinality(Named(h)') + Cardinality(Adding(h)') <= Cardinality(Call)
          BY <4>3, <4>4, <4>5
        <4>q. QED BY <4>6 DEF PlacesLeft
      <3>q. QED BY <3>1, <3>2, <3>3
    <2>q. QED BY <2>1, <2>2
  <1>q. QED BY <1>6, <1>7 DEF SharedInv

\* store_device's write: the row added takes the place of the call that looked.
LEMMA SharedWrite == ASSUME SharedInv, NEW c \in Call, Write(c) PROVE SharedInv'
  <1>0. /\ TypeOK /\ pc[c] = "found" /\ pc' = [pc EXCEPT ![c] = "stored"]
        /\ device[c] \in Device /\ UNCHANGED <<history, world, doomed>> /\ busy' \in {None, c}
    BY DEF SharedInv, Knows, Write, Go, Take
  <1>h. PICK h \in Ident : h = device[c].hostname BY <1>0 DEF Device
  <1>w. Written(device[c]) \in Row /\ Written(device[c]).hostname = h
    BY <1>0, <1>h DEF Written, Device, Row
  <1>1. CASE device[c].row = 0
    <2>1. /\ nextId \in Id /\ nextId' = nextId + 1
          /\ rows' = [rows EXCEPT ![nextId] = Written(device[c])]
          /\ device' = [device EXCEPT ![c].row = nextId]
      BY <1>0, <1>1, SitemapAssumption DEF Write, TypeOK, Id
    <2> DEFINE d == [device[c] EXCEPT !.row = nextId]
    <2>2. d \in Device /\ d.row \in Id /\ device' = [device EXCEPT ![c] = d]
      BY <1>0, <2>1 DEF Device
    <2> HIDE DEF d
    <2>3. TypeOK'
      <3>1. nextId' \in 1..(MaxRows + 1) BY <2>1, SitemapAssumption DEF Id
      <3>2. rows' \in [Id -> Row \cup {Absent}] BY <1>0, <1>w, <2>1 DEF TypeOK
      <3>q. QED BY <1>0, <2>2, <3>1, <3>2 DEF TypeOK, world
    <2>4. /\ \A k \in Call \ {c} : pc'[k] = pc[k] /\ device'[k] = device[k]
          /\ pc'[c] = "stored" /\ device'[c] = d
      BY <1>0, <2>2 DEF TypeOK
    <2>5. Knows' BY <2>2, <2>4 DEF SharedInv, Knows
    <2>6. \A n : Adding(n)' \subseteq Adding(n) BY <2>4 DEF Adding
    <2>7. ASSUME NEW n \in Ident, n # h PROVE PlacesLeft(n)'
      <3>1. Named(n)' \subseteq Named(n) BY <1>0, <1>w, <2>1, <2>7 DEF Named, Present, TypeOK
      <3>q. QED BY <2>6, <3>1, FewerPlaces DEF SharedInv
    <2>8. PlacesLeft(h)'
      <3>1. Named(h)' \subseteq Named(h) \cup {nextId} BY <1>0, <2>1 DEF Named, Present, TypeOK
      <3>2. Adding(h)' \subseteq Adding(h) \ {c} /\ c \in Adding(h)
        BY <1>0, <1>1, <1>h, <2>4, <2>6 DEF Adding
      <3>3. /\ Cardinality(Named(h)') <= Cardinality(Named(h) \cup {nextId})
            /\ IsFiniteSet(Named(h)') /\ Cardinality(Named(h) \cup {nextId}) <= Cardinality(Named(h)) + 1
            /\ Cardinality(Named(h) \cup {nextId}) \in Nat
        <4>1. IsFiniteSet(Named(h) \cup {nextId})
              /\ Cardinality(Named(h) \cup {nextId}) \in {Cardinality(Named(h)), Cardinality(Named(h)) + 1}
          BY Finite, FS_AddElement
        <4>q. QED BY <3>1, <4>1, Finite, FS_Subset
      <3>4. /\ Cardinality(Adding(h)') <= Cardinality(Adding(h) \ {c})
            /\ IsFiniteSet(Adding(h)') /\ Cardinality(Adding(h) \ {c}) = Cardinality(Adding(h)) - 1
        BY <3>2, Finite, FS_RemoveElement, FS_Subset
      <3>5. Cardinality(Named(h)') \in Nat /\ Cardinality(Adding(h)') \in Nat
        BY <3>3, <3>4, FS_CardinalityType
      <3>6. PlacesLeft(h) BY DEF SharedInv
      <3>7. Cardinality(Named(h)') + Cardinality(Adding(h)') <= Cardinality(Call)
        BY <3>3, <3>4, <3>5, <3>6, Finite DEF PlacesLeft
      <3>q. QED BY <3>7 DEF PlacesLeft
    <2>q. QED BY <2>3, <2>5, <2>7, <2>8 DEF SharedInv
  <1>2. CASE device[c].row # 0
    <2> DEFINE r == device[c].row
    <2>1. /\ rows' = [rows EXCEPT ![r] = IF @ = Absent THEN @
                        ELSE [Written(device[c]) EXCEPT !.hostname = rows[r].hostname]]
          /\ UNCHANGED <<nextId, device>> /\ r \in Id
      BY <1>0, <1>2 DEF Write, Device
    <2>2. rows[r] # Absent =>
            [Written(device[c]) EXCEPT !.hostname = rows[r].hostname] \in Row
      BY <1>0, <1>w, <2>1 DEF TypeOK, Row
    <2>3. TypeOK' BY <1>0, <2>1, <2>2 DEF TypeOK, world
    <2>4. \A n : Named(n)' \subseteq Named(n)
      <3>1. \A q \in Id : rows'[q] = rows[q]
                          \/ (rows[q] # Absent /\ rows'[q].hostname = rows[q].hostname)
        BY <1>0, <1>w, <2>1 DEF TypeOK, Row
      <3>q. QED BY <3>1 DEF Named, Present
    <2>5. device' = [device EXCEPT ![c] = device[c]] BY <1>0, <2>1 DEF TypeOK
    <2>6. Knows' /\ \A n \in Ident : PlacesLeft(n)' BY <1>0, <1>w, <2>1, <2>4, <2>5, PlainStep
    <2>q. QED BY <2>3, <2>6 DEF SharedInv
  <1>q. QED BY <1>1, <1>2

\* A step in which no call changes and no name gains a row.
LEMMA CallsRest ==
  ASSUME SharedInv, UNCHANGED <<pc, device>>, \A n \in Ident : Named(n)' \subseteq Named(n)
  PROVE  Knows' /\ \A n \in Ident : PlacesLeft(n)'
  <1>1. \A n : Adding(n)' = Adding(n) BY DEF Adding
  <1>q. QED BY <1>1, FewerPlaces DEF SharedInv, Knows

LEMMA SharedStep == ASSUME SharedInv, [Next]_vars PROVE SharedInv'
  <1>0. TypeOK /\ Knows BY DEF SharedInv
  <1>d. \A kept \in Deduplicated : kept \subseteq Present BY DEF Deduplicated
  <1>1. ASSUME NEW c \in Call, NEW i \in Ident, Open(c, i) PROVE SharedInv'
    <2> DEFINE d == [ident |-> i, hostname |-> i, ip |-> i, status |-> "error", row |-> 0]
    <2>1. /\ pc' = [pc EXCEPT ![c] = "opened"] /\ busy' \in {None, c} /\ d \in Device
          /\ device' = [device EXCEPT ![c] = d] /\ UNCHANGED <<nextId, history, world, doomed>>
      BY <1>1 DEF Open, Go, Take, Device
    <2>2. PICK kept \in Deduplicated : rows' = Keep(kept) BY <1>1 DEF Open
    <2>3. rows' \in [Id -> Row \cup {Absent}] /\ \A n : Named(n)' \subseteq Named(n)
      BY <1>0, <1>d, <2>2, KeepNames
    <2> HIDE DEF d
    <2>4. TypeOK' BY <1>0, <2>1, <2>3 DEF TypeOK, world
    <2>5. Knows' /\ \A n \in Ident : PlacesLeft(n)' BY <2>1, <2>3, PlainStep
    <2>q. QED BY <2>4, <2>5 DEF SharedInv
  <1>2. ASSUME NEW c \in Call, Resolve(c) \/ Answer(c) \/ Identify(c) PROVE SharedInv'
    <2>1. /\ pc[c] # "idle" /\ UNCHANGED <<rows, nextId, history, world, doomed>>
          /\ busy' \in {None, c}
      BY <1>2 DEF Resolve, Answer, Identify, Go, Take, Release
    <2>2. PICK p \in {"answered", "dialing", "keyed"} : pc' = [pc EXCEPT ![c] = p]
      BY <1>2 DEF Resolve, Answer, Identify, Go
    <2>3. PICK d \in Device : device' = [device EXCEPT ![c] = d]
      BY <1>0, <1>2, <2>1, DeviceGiven DEF Knows
    <2>4. \A n : Named(n)' = Named(n) BY <2>1 DEF Named, Present
    <2>5. TypeOK' BY <1>0, <2>1, <2>2, <2>3 DEF TypeOK, world
    <2>6. Knows' /\ \A n \in Ident : PlacesLeft(n)' BY <2>2, <2>3, <2>4, PlainStep
    <2>q. QED BY <2>5, <2>6 DEF SharedInv
  <1>3. ASSUME NEW c \in Call, Log(c) PROVE SharedInv'
    <2>1. /\ pc[c] = "stored" /\ pc' = [pc EXCEPT ![c] = "idle"] /\ busy' = None
          /\ device' = [device EXCEPT ![c] = None] /\ history' = history \cup {device[c].row}
          /\ UNCHANGED <<rows, nextId, world, doomed>>
      BY <1>3 DEF Log, Go, Release
    <2>2. \A n : Named(n)' = Named(n) BY <2>1 DEF Named, Present
    <2>3. device[c].row \in Id BY <1>0, <2>1 DEF Knows
    <2>4. Knows' /\ \A n \in Ident : PlacesLeft(n)' BY <2>1, <2>2, PlainStep
    <2>q. QED BY <2>1, <2>3, <2>4, <1>0 DEF SharedInv, TypeOK, world
  <1>4. ASSUME NEW ids \in SUBSET Present, rows' = Keep(ids), history' \subseteq history,
               doomed' \in SUBSET Id, UNCHANGED <<nextId, world, calls>>
        PROVE  SharedInv'
    <2>1. rows' \in [Id -> Row \cup {Absent}] /\ \A n : Named(n)' \subseteq Named(n)
      BY <1>0, <1>4, KeepNames
    <2>2. TypeOK' BY <1>0, <1>4, <2>1 DEF TypeOK, world, calls
    <2>3. Knows' /\ \A n \in Ident : PlacesLeft(n)' BY <1>4, <2>1, CallsRest DEF calls
    <2>q. QED BY <2>2, <2>3 DEF SharedInv
  <1>5. ASSUME NEW r \in Id, RemoveDevice(r) PROVE SharedInv'
    <2>1. PICK kept \in Deduplicated : Delete(kept, {r}) BY <1>5 DEF RemoveDevice
    <2>2. kept \ {r} \in SUBSET Present BY <1>d, <2>1
    <2>q. QED BY <1>0, <1>4, <1>5, <2>1, <2>2 DEF RemoveDevice, Delete, TypeOK
  <1>6. CASE OpenOnly BY <1>0, <1>4, <1>6, <1>d DEF OpenOnly, TypeOK
  <1>7. CASE PurgeFailed
    <2>1. PICK kept \in Deduplicated :
            LET ids == {r \in kept : Failed(r)} IN
            IF shared THEN rows' = Keep(kept) /\ doomed' = ids /\ UNCHANGED history
            ELSE Delete(kept, ids) /\ UNCHANGED doomed
      BY <1>7 DEF PurgeFailed
    <2> DEFINE ids == {r \in kept : Failed(r)}
    <2>2. kept \in SUBSET Present /\ kept \ ids \in SUBSET Present /\ ids \in SUBSET Id
      BY <1>d, <2>1 DEF Present
    <2>3. UNCHANGED <<nextId, world, calls>> BY <1>7 DEF PurgeFailed
    <2>4. \E left \in SUBSET Present : rows' = Keep(left) /\ history' \subseteq history
      BY <2>1, <2>2 DEF Delete
    <2>5. doomed' \in SUBSET Id BY <1>0, <2>1, <2>2 DEF TypeOK
    <2>q. QED BY <1>4, <2>3, <2>4, <2>5
  <1>8. CASE PurgeDelete
    <2>1. rows' = Keep(Present \ doomed) /\ history' \subseteq history /\ doomed' = {}
          /\ UNCHANGED <<nextId, world, calls>>
      BY <1>8 DEF PurgeDelete, Delete
    <2>q. QED BY <1>4, <2>1
  <1>9. CASE UNCHANGED <<rows, nextId, history, calls, doomed>> /\ TypeOK'
    <2>1. \A n : Named(n)' = Named(n) BY <1>9 DEF Named, Present
    <2>2. Knows' /\ \A n \in Ident : PlacesLeft(n)' BY <1>9, <2>1, CallsRest DEF calls
    <2>q. QED BY <1>9, <2>2 DEF SharedInv
  <1>10. ASSUME NEW a \in Address, NEW n \in Name \cup {None}, Move(a, n) PROVE SharedInv'
    <2>1. TypeOK' BY <1>0, <1>10, SitemapAssumption DEF Move, TypeOK, calls
    <2>q. QED BY <1>9, <1>10, <2>1 DEF Move
  <1>11. CASE UNCHANGED vars
    <2>1. TypeOK' BY <1>0, <1>11 DEF TypeOK, vars, world, calls
    <2>q. QED BY <1>9, <1>11, <2>1 DEF vars
  <1>q. QED BY <1>1, <1>2, <1>3, <1>5, <1>6, <1>7, <1>8, <1>10, <1>11, SharedLookup, SharedWrite
    DEF Next

\* Whoever shares the database, a name never has more rows than there are calls at
\* once: every insert of a name takes the place of a call that found none.
THEOREM DuplicatesStayBounded == Spec => []DuplicatesBounded
  <1>1. ASSUME SharedInv, NEW n \in Ident PROVE Cardinality(Named(n)) <= Cardinality(Call)
    BY <1>1, Finite DEF SharedInv, PlacesLeft
  <1>2. SharedInv => DuplicatesBounded BY <1>1 DEF DuplicatesBounded
  <1>q. QED BY <1>2, SharedInit, SharedStep, PTL DEF Spec
=============================================================================
