---------------------------- MODULE UpgradeProofs ----------------------------
(***************************************************************************)
(* Proofs about Upgrade, for any number of processes, names and entries.   *)
(* That nothing registered is lost needs no more than the types.  That     *)
(* openings succeed, and spare what the new schema stored, needs what each *)
(* stage of an opening knows of the table while no other is in the         *)
(* migrations (Stages: of the rows a deduplication read, that each is      *)
(* still there), and that a binding is that of the row seen last           *)
(* (LastBound), for which the row seen last must exist and the clock must  *)
(* be past every row (Times).                                              *)
(***************************************************************************)
EXTENDS Upgrade, WellFoundedInduction, TLAPS

\* A set of rows, of bounded times, has one that was seen last.
LEMMA NewestIsLast ==
  ASSUME NEW R \in SUBSET Row, R # {}
  PROVE  Newest(R) \in R /\ \A s \in R : s.seen <= Newest(R).seen
  <1> DEFINE Ages == {MaxSeen - r.seen : r \in R}
             Less == {ss \in Nat \X Nat : ss[1] < ss[2]}
  <1>1. Ages \subseteq Nat /\ Ages # {} BY UpgradeAssumption DEF Row
  <1>2. IsWellFoundedOn(Less, Nat) BY NatLessThanWellFounded DEF OpToRel
  <1>3. \E a \in Ages : \A b \in Ages : <<b, a>> \notin Less
    <2> HIDE DEF Ages, Less
    <2>q. QED BY <1>1, <1>2, WFMin
  <1>4. PICK a \in Ages : \A b \in Ages : ~ (b < a) BY <1>1, <1>3
  <1>5. PICK r \in R : a = MaxSeen - r.seen OBVIOUS
  <1>6. ASSUME NEW s \in R PROVE s.seen <= r.seen
    <2>1. MaxSeen - s.seen \in Ages OBVIOUS
    <2>2. ~ (MaxSeen - s.seen < MaxSeen - r.seen) BY <2>1, <1>4, <1>5
    <2>q. QED BY <2>2, UpgradeAssumption DEF Row
  <1>q. QED BY <1>6 DEF Newest

LEMMA MergedIsRow ==
  ASSUME NEW R \in SUBSET Row, R # {}
  PROVE  /\ Merged(R) \in Row /\ Merged(R).name = Newest(R).name
         /\ Merged(R).seen = Newest(R).seen /\ Merged(R).id = Newest(R).id
         /\ Merged(R).bound = IF Bound(R) = {} THEN None ELSE Newest(Bound(R)).bound
  <1>1. Newest(R) \in Row BY NewestIsLast
  <1>2. Bound(R) # {} => Newest(Bound(R)) \in Row
    <2>1. Bound(R) \in SUBSET Row BY DEF Bound
    <2>2. ASSUME Bound(R) # {} PROVE Newest(Bound(R)) \in Bound(R) BY <2>1, <2>2, NewestIsLast
    <2>q. QED BY <2>1, <2>2
  <1>q. QED BY <1>1, <1>2 DEF Merged, Row

\* What a merge is made from is there, and bears the name.
LEMMA TakenRows ==
  ASSUME NEW R \in SUBSET Row, NEW O \in SUBSET Row, NEW E,
         Names(O) \subseteq E \cup Names(R), NEW m \in Names(O)
  PROVE  /\ Taken(m, R, O, E) \in SUBSET Row /\ Taken(m, R, O, E) # {}
         /\ Taken(m, R, O, E) \subseteq R \cup O
         /\ Merged(Taken(m, R, O, E)) \in Row /\ Merged(Taken(m, R, O, E)).name = m
         /\ \E r \in Taken(m, R, O, E) : Merged(Taken(m, R, O, E)).seen = r.seen
  <1> DEFINE T == Taken(m, R, O, E)
  <1>1. T \in SUBSET Row /\ T # {} /\ T \subseteq R \cup O /\ \A r \in T : r.name = m
    BY DEF Taken, RowsOf, Names
  <1> HIDE DEF T
  <1>2. Newest(T) \in T BY <1>1, NewestIsLast
  <1>3. /\ Merged(T) \in Row /\ Merged(T).name = Newest(T).name
        /\ Merged(T).seen = Newest(T).seen
    BY <1>1, MergedIsRow
  <1>q. QED BY <1>1, <1>2, <1>3 DEF T

LEMMA DeduplicatedRows ==
  ASSUME NEW R \in SUBSET Row, NEW O \in SUBSET Row, NEW E,
         Names(O) \subseteq E \cup Names(R)
  PROVE  /\ Deduplicated(R, O, E) \in SUBSET Row
         /\ \A d \in Deduplicated(R, O, E) : \E r \in R \cup O : d.seen = r.seen
  <1> SUFFICES ASSUME NEW d \in Deduplicated(R, O, E)
               PROVE  d \in Row /\ \E r \in R \cup O : d.seen = r.seen
    OBVIOUS
  <1>1. CASE d \in R BY <1>1
  <1>2. CASE \E m \in Names(O) : d = Merged(Taken(m, R, O, E)) BY <1>2, TakenRows
  <1>q. QED BY <1>1, <1>2 DEF Deduplicated

LEMMA FreshIsTable ==
  /\ Fresh \in Table /\ Fresh # None /\ Fresh.columns = Column
  /\ Fresh.unique = FALSE /\ Fresh.rows = {}
  <1>1. Fresh \in Table BY DEF Fresh, Table, Column
  <1>2. Fresh # None BY <1>1, UpgradeAssumption
  <1>q. QED BY <1>1, <1>2 DEF Fresh

\* Every step keeps the types.
LEMMA TypeNext == ASSUME TypeOK, [Next]_vars PROVE TypeOK'
  <1> USE DEF TypeOK
  <1>c. Column' \subseteq Binding \cup Detail /\ backend' = backend => Column' = Column
    BY DEF Column
  <1>1. ASSUME NEW e \in Credential, Register(e) PROVE TypeOK'
    BY <1>1 DEF Register, Registered, database, held, Column
  <1>2. CASE LoseState
    BY <1>2 DEF LoseState, database, held, history
  <1>f. ASSUME NEW p \in Process, NEW n \in Name, Find(p, n) PROVE TypeOK'
    <2>1. Ids(RowsOf(n, table.rows)) \subseteq 0..MaxSeen
      BY <1>f, UpgradeAssumption DEF Find, Table, Row, RowsOf, Ids
    <2>2. aim' \in [Process -> {None} \cup Aim]
      BY <1>f, <2>1, UpgradeAssumption DEF Find, Aim, NoRow
    <2>q. QED BY <1>f, <2>2 DEF Find, files, database, history
  <1>3. ASSUME NEW p \in Process, NEW e \in Credential, Store(p, e) PROVE TypeOK'
    <2>1. /\ table \in Table /\ aim[p] \in Aim /\ clock \in 1..MaxSeen
          /\ table.rows \in SUBSET Row /\ e \in Credential
      <3>1. table # None /\ aim[p] # None /\ clock <= MaxSeen /\ e \in Registered
        BY <1>3 DEF Store
      <3>2. clock \in 1..MaxSeen BY <3>1, UpgradeAssumption
      <3>3. e \in Credential BY <3>1 DEF Registered
      <3>4. table \in Table /\ aim[p] \in Aim BY <3>1
      <3>q. QED BY <3>2, <3>3, <3>4 DEF Table
    <2>2. ASSUME NEW old, NEW new \in Row, Put(p, old, new)
          PROVE  /\ table' \in Table /\ clock' \in 1..(MaxSeen + 1) /\ undone' \subseteq Name
                 /\ stored' \in [Name -> Credential \cup {None}]
      BY <2>1, <2>2, UpgradeAssumption DEF Put, Table, Row
    <2>3. [id |-> clock, name |-> aim[p].name, seen |-> clock, bound |-> e] \in Row
      BY <2>1 DEF Row, Aim
    <2>4. ASSUME NEW r \in table.rows PROVE [r EXCEPT !.seen = clock, !.bound = e] \in Row
      <3>1. r \in Row BY <2>1
      <3>q. QED BY <3>1, <2>1 DEF Row
    <2>5. /\ table' \in {None} \cup Table /\ clock' \in 1..(MaxSeen + 1) /\ undone' \subseteq Name
          /\ stored' \in [Name -> Credential \cup {None}]
      <3>1. CASE Put(p, {}, [id |-> clock, name |-> aim[p].name, seen |-> clock, bound |-> e])
        BY <3>1, <2>2, <2>3
      <3>2. ASSUME NEW r \in table.rows, Put(p, {r}, [r EXCEPT !.seen = clock, !.bound = e])
            PROVE  /\ table' \in Table /\ clock' \in 1..(MaxSeen + 1) /\ undone' \subseteq Name
                   /\ stored' \in [Name -> Credential \cup {None}]
        BY <3>2, <2>2, <2>4
      <3>3. CASE UNCHANGED <<table, clock, stored, undone>> BY <3>3
      <3>q. QED BY <1>3, <3>1, <3>2, <3>3 DEF Store
    <2>6. aim' \in [Process -> {None} \cup Aim] BY <1>3 DEF Store
    <2>q. QED BY <1>3, <2>5, <2>6 DEF Store, files
  <1>4. ASSUME NEW p \in Process, Open(p) PROVE TypeOK'
    <2>1. Fresh \in Table BY DEF Fresh, Table, Column
    <2>q. QED BY <1>4, <2>1 DEF Open, Go, Stage, files, held
  <1>5. ASSUME NEW p \in Process, Leave(p) PROVE TypeOK'
    BY <1>5 DEF Leave, database, files, history
  <1>6. ASSUME NEW p \in Process, Migrate(p) PROVE TypeOK'
    <2> USE DEF Go, Stage, Fail, database, files, held, history, Legacy
    <2>1. CASE DropCredentials(p) BY <2>1 DEF DropCredentials
    <2>2. CASE Check(p) BY <2>2 DEF Check
    <2>3. CASE Archive(p) BY <2>3 DEF Archive, SetAside
    <2>4. CASE Drop(p) BY <2>4 DEF Drop
    <2>5. CASE Recreate(p)
      <3>1. Fresh \in Table BY DEF Fresh, Table, Column
      <3>q. QED BY <3>1, <2>5 DEF Recreate
    <2>6. CASE Stamp(p) BY <2>6 DEF Stamp
    <2>7. CASE Alter(p)
      <3>1. table # None =>
              /\ \A c \in Missing : [table EXCEPT !.columns = @ \cup {c}] \in Table
              /\ [table EXCEPT !.columns = @ \cup Missing] \in Table
        BY DEF Table, Missing, Column
      <3>3. table' \in {None} \cup Table
        <4> USE <3>1
        <4>1. CASE table = None BY <2>7, <4>1 DEF Alter
        <4>2. CASE UNCHANGED table BY <4>2
        <4>3. ASSUME table # None, NEW c \in Missing,
                     table' = [table EXCEPT !.columns = @ \cup {c}]
              PROVE  table' \in Table
          BY <4>3
        <4>4. CASE table # None /\ table' = [table EXCEPT !.columns = @ \cup Missing]
          BY <4>4
        <4>q. QED BY <2>7, <4>1, <4>2, <4>3, <4>4 DEF Alter
      <3>4. pc' \in [Process -> Stage \cup {"off", "ready", "failed"}] BY <2>7 DEF Alter
      <3>q. QED BY <2>7, <3>3, <3>4 DEF Alter
    <2>8. CASE Dedupe(p)
      <3>1. table # None => {r \in table.rows : r.name \in Duplicated(table.rows)} \in SUBSET Row
        BY DEF Table
      <3>2. read' \in [Process -> SUBSET Row] BY <3>1, <2>8 DEF Dedupe
      <3>q. QED BY <3>2, <2>8 DEF Dedupe
    <2>m. CASE Merge(p)
      <3>1. \/ Fail(p, "merge")
            \/ /\ table # None /\ Go(p, "merge", "unique")
               /\ \E early \in SUBSET Names(read[p]) :
                    /\ Names(read[p]) \subseteq early \cup Names(table.rows)
                    /\ table' = [table EXCEPT !.rows = Deduplicated(@, read[p], early)]
                    /\ undone' = undone \cup
                         {n \in early : RowsOf(n, table.rows) # RowsOf(n, read[p])}
                    /\ read' = [read EXCEPT ![p] = {}]
                    /\ UNCHANGED <<backend, clock, spare, legacy, files, aim, issued, stored, overlap>>
        BY <2>m DEF Merge
      <3>2. CASE Fail(p, "merge") BY <3>2
      <3>3. ASSUME table # None, NEW early \in SUBSET Names(read[p]),
                   Names(read[p]) \subseteq early \cup Names(table.rows)
            PROVE  /\ [table EXCEPT !.rows = Deduplicated(@, read[p], early)] \in Table
                   /\ early \subseteq Name
        BY <3>3, DeduplicatedRows DEF Table, Names, Row
      <3>q. QED BY <3>1, <3>2, <3>3
    <2>9. CASE DropUnique(p)
      <3>1. table # None => [table EXCEPT !.unique = FALSE] \in Table BY DEF Table
      <3>q. QED BY <3>1, <2>9 DEF DropUnique
    <2>10. CASE DropSpare(p) BY <2>10 DEF DropSpare
    <2>11. CASE CreateSpare(p) BY <2>11 DEF CreateSpare
    <2>12. CASE Copy(p)
      <3>1. table # None => [Fresh EXCEPT !.rows = table.rows] \in Table
        BY DEF Table, Fresh, Column
      <3>q. QED BY <3>1, <2>12 DEF Copy
    <2>13. CASE DropBaselines(p) BY <2>13 DEF DropBaselines
    <2>q. QED
      BY <1>6, <2>1, <2>2, <2>3, <2>4, <2>5, <2>6, <2>7, <2>8, <2>m, <2>9, <2>10, <2>11, <2>12, <2>13
      DEF Migrate
  <1>7. CASE UNCHANGED vars
    BY <1>7 DEF vars, database, files, held, history
  <1>q. QED BY <1>1, <1>2, <1>f, <1>3, <1>4, <1>5, <1>6, <1>7 DEF Next

-----------------------------------------------------------------------------
\* Nothing registered is lost: of all steps only Register and Archive write
\* where entries are kept.
LEMMA KeptNext == ASSUME TypeOK, LegacyKept, [Next]_vars PROVE LegacyKept'
  <1> USE DEF LegacyKept
  <1>1. ASSUME NEW e \in Credential, Register(e) PROVE LegacyKept'
    <2>1. registry' # None /\ registry' = Registered \cup {e}
      BY <1>1, UpgradeAssumption DEF Register, Registered, TypeOK
    <2>q. QED BY <1>1, <2>1 DEF Register, Registered
  <1>2. ASSUME NEW p \in Process, Archive(p) PROVE LegacyKept'
    <2>1. (UNION backups') = (UNION backups) \cup Registered
      BY <1>2 DEF Archive, SetAside, Registered
    <2>q. QED BY <1>2, <2>1 DEF Archive, Registered, history
  <1>3. ASSUME UNCHANGED <<registry, backups, issued>> PROVE LegacyKept'
    BY <1>3 DEF Registered
  <1>4. ASSUME NEW p \in Process, Migrate(p), ~Archive(p)
        PROVE  UNCHANGED <<registry, backups, issued>>
    BY <1>4 DEF Migrate, DropCredentials, Check, Drop, Recreate, Stamp, Alter, Dedupe, Merge,
                DropUnique, DropSpare, CreateSpare, Copy, DropBaselines, Fail, files, history
  <1>5. UNCHANGED <<registry, backups, issued>> \/ (\E e \in Credential : Register(e))
          \/ (\E p \in Process : Archive(p))
    BY <1>4 DEF Next, LoseState, Find, Store, Open, Leave, vars, database, files, history
  <1>q. QED BY <1>1, <1>2, <1>3, <1>5

-----------------------------------------------------------------------------
Alone == \A p, q \in Process : Busy(p) /\ Busy(q) => p = q

\* What the stages of an opening know, one process in the migrations at a time.
Later == {"dedupe", "merge", "unique", "create", "copy", "baselines", "ready"}

Knows(p) ==
  /\ pc[p] # "failed"
  /\ pc[p] \in {"archive", "drop"} => MustReplace
  /\ pc[p] = "recreate" => table = None
  /\ pc[p] \in {"ssh", "check", "stamp", "alter"} \cup Later => table # None
  /\ pc[p] = "stamp" => HasBindings
  /\ pc[p] \in Later => Missing = {}
  /\ pc[p] = "merge" =>
       \A r \in read[p] : \E s \in RowsOf(r.name, table.rows) : s.id = r.id
  /\ pc[p] = "create" => ~spare
  /\ pc[p] = "copy" => spare
  /\ pc[p] \in {"baselines", "ready"} => ~table.unique

Stages == \A p \in Process : Knows(p)

\* A binding is that of the row seen last among those that have one.
LastBound ==
  \A n \in Name : stored[n] # None =>
    /\ table # None /\ HasBindings
    /\ stored[n] \in Registered
    /\ RowsOf(n, table.rows) # {}
    /\ n \notin undone =>
         /\ Bound(RowsOf(n, table.rows)) # {}
         /\ Newest(Bound(RowsOf(n, table.rows))).bound = stored[n]

Solo == Alone /\ Stages /\ LastBound

\* No row, read or stored, was seen later than the clock says.
Times ==
  /\ table # None => \A r \in table.rows : r.seen < clock
  /\ \A p \in Process : \A r \in read[p] : r.seen < clock

IInv == TypeOK /\ LegacyKept /\ Times /\ (~overlap => Solo)

LEMMA InvInit == Init => IInv
  <1> SUFFICES ASSUME Init PROVE IInv OBVIOUS
  <1>1. Registered \in SUBSET Credential BY DEF Init, Registered
  <1>2. ASSUME NEW n \in Name, table # None, Bound(RowsOf(n, table.rows)) # {}
        PROVE  /\ Newest(Bound(RowsOf(n, table.rows))).bound \in Registered
               /\ HasBindings
    <2>1. Bound(RowsOf(n, table.rows)) \in SUBSET Row BY <1>2 DEF Init, Table, Bound, RowsOf
    <2>2. Newest(Bound(RowsOf(n, table.rows))) \in Bound(RowsOf(n, table.rows))
      BY <2>1, <1>2, NewestIsLast
    <2>3. Newest(Bound(RowsOf(n, table.rows))).bound \in Registered
      BY <2>2, <1>2 DEF Init, Bound, RowsOf
    <2>4. table.columns = Column BY <1>2 DEF Init, Bound, RowsOf
    <2>q. QED BY <2>3, <2>4 DEF HasBindings, Column
  <1>3. stored \in [Name -> Credential \cup {None}] BY <1>1, <1>2 DEF Init
  <1>t. Times BY DEF Init, Times
  <1>4. TypeOK BY <1>1, <1>3 DEF Init, TypeOK
  <1>5. LegacyKept BY DEF Init, LegacyKept
  <1>6. Alone /\ Stages BY DEF Init, Alone, Stages, Busy, Stage, Knows, Later
  <1>7. LastBound
    <2> SUFFICES ASSUME NEW n \in Name, stored[n] # None
                 PROVE  /\ table # None /\ Bound(RowsOf(n, table.rows)) # {}
                        /\ stored[n] = Newest(Bound(RowsOf(n, table.rows))).bound
      BY <1>2 DEF LastBound, Bound
    <2>q. QED BY DEF Init
  <1>q. QED BY <1>4, <1>5, <1>6, <1>7, <1>t DEF IInv, Solo

\* A row seen later than all others, put in for some or besides them, is the one
\* seen last of its name.
LEMMA StoredIsNewest ==
  ASSUME NEW R \in SUBSET Row, NEW new \in Row, new.bound # None,
         \A r \in R : r.seen < new.seen, NEW S
  PROVE  /\ Bound(RowsOf(new.name, (R \ S) \cup {new})) # {}
         /\ Newest(Bound(RowsOf(new.name, (R \ S) \cup {new}))) = new
  <1> DEFINE T == Bound(RowsOf(new.name, (R \ S) \cup {new}))
  <1>1. new \in T /\ T \in SUBSET Row BY DEF Bound, RowsOf
  <1>2. \A r \in T : new.seen <= r.seen => r = new BY DEF Bound, RowsOf, Row
  <1> HIDE DEF T
  <1>3. Newest(T) \in T /\ new.seen <= Newest(T).seen BY <1>1, NewestIsLast
  <1>4. Newest(T) = new BY <1>2, <1>3
  <1>q. QED BY <1>1, <1>4 DEF T

\* What deduplication leaves of a name: its rows when it is not among those read, the
\* one merged row when its rows are still those read, and a row in any case while each
\* row that was read has one with its id.
LEMMA NameDeduplicated ==
  ASSUME NEW R \in SUBSET Row, NEW O \in SUBSET Row, NEW E,
         Names(O) \subseteq E \cup Names(R), NEW n \in Name, RowsOf(n, R) # {},
         \A r \in O : r.name = n => \E s \in RowsOf(n, R) : s.id = r.id
  PROVE  LET D == Deduplicated(R, O, E) IN
         /\ RowsOf(n, D) # {}
         /\ n \notin Names(O) => RowsOf(n, D) = RowsOf(n, R)
         /\ n \in Names(O) /\ (n \in E => RowsOf(n, O) = RowsOf(n, R)) =>
              RowsOf(n, D) = {Merged(RowsOf(n, R))}
  <1>0. ASSUME NEW m \in Names(O)
        PROVE  /\ Taken(m, R, O, E) \in SUBSET Row /\ Taken(m, R, O, E) # {}
               /\ Merged(Taken(m, R, O, E)).name = m
    <2>1. Names(O) \subseteq E \cup Names(R) OBVIOUS
    <2>2. R \in SUBSET Row /\ O \in SUBSET Row /\ m \in Names(O) BY <1>0
    <2>q. QED BY ONLY <2>1, <2>2, TakenRows
  <1> DEFINE D == Deduplicated(R, O, E)
             T(m) == Taken(m, R, O, E)
             Written == {m \in Names(O) : Newest(T(m)).id \in Ids(RowsOf(m, R))}
  <1>1. D = {r \in R : r.name \in Names(O) => r.id \notin Ids(T(r.name))}
            \cup {Merged(T(m)) : m \in Written}
    BY DEF Deduplicated
  <1>2. \A m \in Names(O) : T(m) \in SUBSET Row /\ T(m) # {} /\ Merged(T(m)).name = m
    BY <1>0
  <1>3. \A m \in Written : Merged(T(m)) \in D /\ Merged(T(m)).name = m BY <1>1, <1>2
  <1>4. ASSUME n \notin Names(O) PROVE RowsOf(n, D) = RowsOf(n, R)
    <2>1. ASSUME NEW d \in RowsOf(n, D) PROVE d \in R
      <3>1. d \in D /\ d.name = n BY DEF RowsOf
      <3>2. CASE d \in R BY <3>2
      <3>3. CASE \E m \in Written : d = Merged(T(m)) BY <3>3, <3>1, <1>2, <1>4
      <3>q. QED BY <3>1, <3>2, <3>3, <1>1
    <2>2. ASSUME NEW r \in R, r.name = n PROVE r \in D BY <2>2, <1>1, <1>4
    <2>q. QED BY <2>1, <2>2 DEF RowsOf
  <1>5. ASSUME n \in Names(O) PROVE n \in Written
    <2>1. Newest(T(n)) \in T(n)
      <3> HIDE DEF T
      <3>q. QED BY <1>2, <1>5, NewestIsLast
    <2>2. T(n) = RowsOf(n, O) \/ T(n) = RowsOf(n, R) BY DEF Taken
    <2>3. \E s \in RowsOf(n, R) : s.id = Newest(T(n)).id BY <2>1, <2>2 DEF RowsOf
    <2>q. QED BY <1>5, <2>3 DEF Ids
  <1>6. RowsOf(n, D) # {}
    <2>1. CASE n \in Names(O)
      <3>1. Merged(T(n)) \in RowsOf(n, D) BY <1>3, <1>5, <2>1 DEF RowsOf
      <3>q. QED BY <3>1
    <2>q. QED BY <2>1, <1>4
  <1>7. ASSUME n \in Names(O), n \in E => RowsOf(n, O) = RowsOf(n, R)
        PROVE  RowsOf(n, D) = {Merged(RowsOf(n, R))}
    <2>1. T(n) = RowsOf(n, R) BY <1>7 DEF Taken
    <2>2. Merged(T(n)) \in RowsOf(n, D) BY <1>3, <1>5, <1>7 DEF RowsOf
    <2>3. ASSUME NEW d \in RowsOf(n, D) PROVE d = Merged(T(n))
      <3>1. d \in D /\ d.name = n BY DEF RowsOf
      <3>2. ~(d \in R /\ d.id \notin Ids(T(n))) BY <2>1, <3>1 DEF RowsOf, Ids
      <3>3. PICK m \in Written : d = Merged(T(m)) BY <3>1, <3>2, <1>1, <1>7
      <3>4. m = n BY <3>1, <3>3, <1>2
      <3>q. QED BY <3>3, <3>4
    <2> HIDE DEF D, T
    <2>q. QED BY <2>1, <2>2, <2>3
  <1>q. QED BY <1>4, <1>6, <1>7

\* The merged row of a name is bound as its last bound one was.
LEMMA MergedLast ==
  ASSUME NEW N \in SUBSET Row, Bound(N) # {}
  PROVE  /\ Bound({Merged(N)}) # {}
         /\ Newest(Bound({Merged(N)})).bound = Newest(Bound(N)).bound
  <1>1. N # {} /\ Bound(N) \in SUBSET Row BY DEF Bound
  <1>2. Newest(Bound(N)) \in Bound(N) BY <1>1, NewestIsLast
  <1>3. Merged(N) \in Row /\ Merged(N).bound = Newest(Bound(N)).bound /\ Merged(N).bound # None
    BY <1>1, <1>2, MergedIsRow DEF Bound
  <1>4. Bound({Merged(N)}) = {Merged(N)} BY <1>3 DEF Bound
  <1>5. {Merged(N)} \in SUBSET Row /\ {Merged(N)} # {} BY <1>3
  <1>6. Newest({Merged(N)}) = Merged(N) BY <1>5, NewestIsLast
  <1>q. QED BY <1>3, <1>4, <1>6

\* While openings do not overlap, the process of a step is the one in the migrations,
\* and the others are closed or ready.
LEMMA SoloMigrates ==
  ASSUME TypeOK, Solo, NEW p \in Process, Migrate(p)
  PROVE  /\ Busy(p) /\ Alone' /\ UNCHANGED <<overlap, stored, backend, clock>>
         /\ \A q \in Process \ {p} : pc'[q] = pc[q] /\ pc[q] \in {"off", "ready"}
         /\ pc' = [pc EXCEPT ![p] = pc'[p]]
  <1> USE DEF TypeOK, Go, Fail, files, database, held, history
  <1>1. /\ pc' = [pc EXCEPT ![p] = pc'[p]] /\ pc[p] \in Stage
        /\ UNCHANGED <<overlap, stored, backend, clock>>
    BY DEF Migrate, DropCredentials, Check, Archive, Drop, Recreate, Stamp, Alter, Dedupe, Merge,
           DropUnique, DropSpare, CreateSpare, Copy, DropBaselines, Stage
  <1>2. \A q \in Process \ {p} : pc'[q] = pc[q] /\ pc[q] \in {"off", "ready"}
    BY <1>1 DEF Solo, Alone, Stages, Knows, Busy
  <1>q. QED BY <1>1, <1>2 DEF Alone, Busy, Stage, Solo

LEMMA StagesMigrate ==
  ASSUME TypeOK, Solo, NEW p \in Process, Migrate(p) PROVE Stages'
  <1>0. /\ \A q \in Process \ {p} : pc'[q] = pc[q] /\ pc[q] \in {"off", "ready"}
        /\ pc' = [pc EXCEPT ![p] = pc'[p]] /\ backend' = backend /\ Column' = Column
        /\ Knows(p) /\ \A q \in Process : Knows(q)
    BY SoloMigrates DEF Column, Solo, Stages
  <1> SUFFICES ASSUME NEW q \in Process PROVE Knows(q)' BY DEF Stages
  <1> USE <1>0 DEF TypeOK, Go, Fail, files, database, held, history, Knows, Later, Stage
  <1>1. CASE DropCredentials(p) BY <1>1 DEF DropCredentials, MustReplace, HasBindings, Missing
  <1>2. CASE Check(p) BY <1>2 DEF Check, MustReplace, HasBindings, Missing
  <1>3. CASE Archive(p) BY <1>3 DEF Archive, MustReplace, HasBindings, Missing
  <1>4. CASE Drop(p)
    <2>1. \A r \in Process : pc[r] # "ready"
      BY <1>4 DEF Drop, MustReplace, HasBindings, Missing, Column
    <2>q. QED BY <2>1, <1>4 DEF Drop
  <1>5. CASE Recreate(p)
    <2>1. table' = Fresh /\ Fresh # None BY <1>5, FreshIsTable DEF Recreate
    <2>2. \A r \in Process : pc[r] # "ready" BY <1>5 DEF Recreate
    <2>3. HasBindings' BY <2>1 DEF HasBindings, Fresh, Column
    <2>q. QED BY <2>1, <2>2, <2>3, <1>5 DEF Recreate
  <1>6. CASE Stamp(p) BY <1>6 DEF Stamp, MustReplace, HasBindings, Missing
  <1>t. ASSUME table \in Table, table' \in Table, Column \ table'.columns \subseteq Missing,
               spare' = spare, table'.unique \in {FALSE, table.unique}
        PROVE  /\ table # None /\ table' # None
               /\ Missing' \subseteq Missing
               /\ \A r \in Process \ {p} : Knows(r)'
    <2>1. table # None /\ table' # None BY <1>t, UpgradeAssumption
    <2>2. Missing' \subseteq Missing BY <1>t DEF Missing
    <2>3. table.unique = FALSE => table'.unique = FALSE BY <1>t
    <2>q. QED BY <2>1, <2>2, <2>3, <1>t
  <1>7. CASE Alter(p)
    <2>0. table \in Table BY <1>7 DEF Alter
    <2>1. \/ table' = table
          \/ \E C \in SUBSET Missing : table' = [table EXCEPT !.columns = @ \cup C]
      <3>1. CASE \E c \in Missing : table' = [table EXCEPT !.columns = @ \cup {c}]
        <4>1. PICK c \in Missing : table' = [table EXCEPT !.columns = @ \cup {c}] BY <3>1
        <4>2. {c} \in SUBSET Missing OBVIOUS
        <4>q. QED BY <4>1, <4>2
      <3>2. CASE table' = [table EXCEPT !.columns = @ \cup Missing]
        <4>1. Missing \in SUBSET Missing OBVIOUS
        <4>q. QED BY <3>2, <4>1
      <3>q. QED BY <1>7, <3>1, <3>2 DEF Alter
    <2>2. /\ table' \in Table /\ table'.unique = table.unique /\ spare' = spare
          /\ Column \ table'.columns \subseteq Missing
      BY <2>0, <2>1, <1>7 DEF Table, Missing, Column, Alter
    <2>3. pc'[p] = "dedupe" => Missing' = {}
      BY <1>7, <2>0, <2>2 DEF Alter, Missing, Table
    <2>q. QED BY <1>t, <2>0, <2>2, <2>3, <1>7 DEF Alter
  <1>8. CASE Dedupe(p)
    <2>0. table \in Table BY <1>8 DEF Dedupe
    <2>1. Column \ table'.columns \subseteq Missing /\ UNCHANGED <<table, spare>>
      BY <2>0, <1>8 DEF Missing, Dedupe
    <2>2. \A r \in read'[p] : r \in table.rows BY <1>8, <2>0 DEF Dedupe
    <2>3. pc'[p] \in {"unique", "merge"} BY <1>8 DEF Dedupe
    <2>4. Knows(p)'
      <3>1. Missing' = {} /\ table' # None BY <1>8, <2>0, <2>1, UpgradeAssumption DEF Dedupe, Missing
      <3>2. \A r \in read'[p] : \E t \in RowsOf(r.name, table'.rows) : t.id = r.id
        BY <2>1, <2>2 DEF RowsOf
      <3>q. QED BY <3>1, <3>2, <2>3
    <2>q. QED BY <1>t, <2>0, <2>1, <2>4
  <1>m. CASE Merge(p)
    <2>0. table \in Table /\ table # None /\ pc[p] = "merge" BY <1>m DEF Merge
    <2>s. \A r \in read[p] : \E t \in RowsOf(r.name, table.rows) : t.id = r.id BY <2>0
    <2>n. Names(read[p]) \subseteq Names(table.rows)
      BY <2>s DEF Names, RowsOf
    <2>1. PICK early \in SUBSET Names(read[p]) :
            /\ Go(p, "merge", "unique")
            /\ table' = [table EXCEPT !.rows = Deduplicated(@, read[p], early)]
            /\ spare' = spare
      BY <1>m, <2>0, <2>n DEF Merge
    <2>2. table' \in Table /\ table'.columns = table.columns /\ table'.unique = table.unique
      BY <2>0, <2>1, <2>n, DeduplicatedRows DEF Table
    <2>3. Column \ table'.columns \subseteq Missing /\ spare' = spare
      BY <2>1, <2>2 DEF Missing
    <2>q. QED BY <1>t, <2>0, <2>1, <2>2, <2>3
  <1>9. CASE DropUnique(p)
    <2>0. table \in Table BY <1>9 DEF DropUnique
    <2>1. table' \in Table /\ table'.columns = table.columns /\ table'.unique = FALSE
      BY <2>0, <1>9 DEF DropUnique, Table
    <2>2. Column \ table'.columns \subseteq Missing /\ spare' = spare
      BY <2>1, <1>9 DEF Missing, DropUnique
    <2>q. QED BY <1>t, <2>0, <2>1, <2>2, <1>9 DEF DropUnique
  <1>10. CASE DropSpare(p) BY <1>10 DEF DropSpare, MustReplace, HasBindings, Missing
  <1>11. CASE CreateSpare(p) BY <1>11 DEF CreateSpare, MustReplace, HasBindings, Missing
  <1>12. CASE Copy(p)
    <2>0. table \in Table /\ spare /\ pc[p] = "copy" BY <1>12 DEF Copy
    <2>1. table' \in Table /\ table'.columns = Column /\ table'.unique = FALSE
      BY <2>0, <1>12, FreshIsTable DEF Copy, Table, Fresh
    <2>2. Missing' = {} /\ table' # None BY <2>1, UpgradeAssumption DEF Missing
    <2>q. QED BY <2>0, <2>1, <2>2, <1>12 DEF Copy
  <1>13. CASE DropBaselines(p) BY <1>13 DEF DropBaselines, MustReplace, HasBindings, Missing
  <1>q. QED
    BY <1>1, <1>2, <1>3, <1>4, <1>5, <1>6, <1>7, <1>8, <1>m, <1>9, <1>10, <1>11, <1>12, <1>13
    DEF Migrate

LEMMA LastBoundMigrate ==
  ASSUME TypeOK, Solo, NEW p \in Process, Migrate(p) PROVE LastBound'
  <1>0. /\ stored' = stored /\ backend' = backend /\ Column' = Column /\ Knows(p) /\ LastBound
    BY SoloMigrates DEF Column, Solo, Stages
  <1> DEFINE Last(R, n) == /\ Bound(RowsOf(n, R)) # {}
                           /\ Newest(Bound(RowsOf(n, R))).bound = stored[n]
  <1> SUFFICES ASSUME NEW n \in Name, stored[n] # None
               PROVE  /\ table' # None /\ HasBindings' /\ stored[n] \in Registered'
                      /\ RowsOf(n, table'.rows) # {}
                      /\ n \notin undone' => Last(table'.rows, n)
    BY <1>0 DEF LastBound
  <1>1. /\ table # None /\ HasBindings /\ stored[n] \in Registered
        /\ RowsOf(n, table.rows) # {}
        /\ n \notin undone => Last(table.rows, n)
    BY <1>0 DEF LastBound
  <1>2. table \in Table /\ table.rows \in SUBSET Row BY <1>1 DEF TypeOK, Table
  <1>3. ~Archive(p) /\ ~Drop(p) /\ ~Recreate(p)
    BY <1>0, <1>1 DEF Archive, Drop, Recreate, Go, Knows, MustReplace
  <1>4. registry' = registry
    BY <1>3 DEF Migrate, DropCredentials, Check, Stamp, Alter, Dedupe, Merge, DropUnique, DropSpare,
                CreateSpare, Copy, DropBaselines, Fail, files
  <1>5. CASE Merge(p)
    <2>0. pc[p] = "merge" /\ read[p] \in SUBSET Row BY <1>5 DEF Merge, Fail, Go, TypeOK
    <2>s. \A r \in read[p] : \E t \in RowsOf(r.name, table.rows) : t.id = r.id
      BY <2>0, <1>0 DEF Knows
    <2>n. Names(read[p]) \subseteq Names(table.rows) BY <2>s DEF Names, RowsOf
    <2>1. PICK early \in SUBSET Names(read[p]) :
            /\ table' = [table EXCEPT !.rows = Deduplicated(@, read[p], early)]
            /\ undone' = undone \cup {m \in early : RowsOf(m, table.rows) # RowsOf(m, read[p])}
      BY <1>5, <1>1, <2>n DEF Merge
    <2>2. /\ table' \in Table /\ table'.columns = table.columns
          /\ table'.rows = Deduplicated(table.rows, read[p], early)
      BY <2>0, <2>1, <2>n, <1>2, DeduplicatedRows DEF Table
    <2>3. table' # None /\ HasBindings' /\ Registered' = Registered
      BY <2>2, <1>1, <1>4, UpgradeAssumption DEF HasBindings, Registered
    <2>4. Names(read[p]) \subseteq early \cup Names(table.rows) BY <2>n
    <2>5. \A r \in read[p] : r.name = n => \E t \in RowsOf(n, table.rows) : t.id = r.id BY <2>s
    <2>6. /\ RowsOf(n, table'.rows) # {}
          /\ n \notin Names(read[p]) => RowsOf(n, table'.rows) = RowsOf(n, table.rows)
          /\ n \in Names(read[p]) /\ (n \in early => RowsOf(n, read[p]) = RowsOf(n, table.rows)) =>
               RowsOf(n, table'.rows) = {Merged(RowsOf(n, table.rows))}
      <3> DEFINE D == Deduplicated(table.rows, read[p], early)
      <3>1. /\ RowsOf(n, D) # {}
            /\ n \notin Names(read[p]) => RowsOf(n, D) = RowsOf(n, table.rows)
            /\ n \in Names(read[p]) /\ (n \in early => RowsOf(n, read[p]) = RowsOf(n, table.rows)) =>
                 RowsOf(n, D) = {Merged(RowsOf(n, table.rows))}
        BY <1>1, <1>2, <2>0, <2>4, <2>5, NameDeduplicated
      <3>q. QED BY <3>1, <2>2
    <2>7. ASSUME n \notin undone' PROVE Last(table'.rows, n)
      <3>1. n \notin undone /\ (n \in early => RowsOf(n, read[p]) = RowsOf(n, table.rows))
        BY <2>1, <2>7
      <3>2. Last(table.rows, n) BY <3>1, <1>1
      <3>3. CASE n \notin Names(read[p]) BY <3>2, <3>3, <2>6
      <3>4. CASE n \in Names(read[p])
        <4>1. RowsOf(n, table.rows) \in SUBSET Row BY <1>2 DEF RowsOf
        <4>q. QED BY <3>1, <3>2, <3>4, <4>1, <2>6, MergedLast
      <3>q. QED BY <3>3, <3>4
    <2>q. QED BY <2>3, <2>6, <2>7, <1>1
  <1>6. CASE ~Merge(p)
    <2>1. /\ table' \in Table /\ table'.rows = table.rows
          /\ table.columns \subseteq table'.columns \/ table'.columns = Column
      <3> USE <1>2 DEF Fail, database, Table
      <3>1. CASE Alter(p) BY <3>1, <1>1 DEF Alter, Missing, Column
      <3>2. CASE DropUnique(p) BY <3>2, <1>1 DEF DropUnique
      <3>3. CASE Copy(p) BY <3>3, <1>1, FreshIsTable DEF Copy, Fresh
      <3>4. CASE table' = table BY <3>4
      <3>5. Alter(p) \/ DropUnique(p) \/ Copy(p) \/ table' = table
        BY <1>3, <1>6
        DEF Migrate, DropCredentials, Check, Stamp, Dedupe, DropSpare, CreateSpare, DropBaselines
      <3>q. QED BY <3>1, <3>2, <3>3, <3>4, <3>5
    <2>2. table' # None BY <2>1, UpgradeAssumption
    <2>3. undone' = undone
      BY <1>6, <1>3 DEF Migrate, DropCredentials, Check, Stamp, Alter, Dedupe, DropUnique, DropSpare,
                CreateSpare, Copy, DropBaselines, Fail, history
    <2>q. QED BY <2>1, <2>2, <2>3, <1>1, <1>4 DEF HasBindings, Column, Registered
  <1>q. QED BY <1>5, <1>6

LEMMA SoloNext == ASSUME TypeOK, Times, Solo, ~overlap', [Next]_vars PROVE Solo'
  <1>1. ASSUME NEW e \in Credential, Register(e) PROVE Solo'
    <2>1. UNCHANGED <<table, spare, backend, pc, read, stored, undone>> /\ Registered \subseteq Registered'
      <3>1. registry' # None BY <1>1, UpgradeAssumption DEF Register, Registered, TypeOK
      <3>q. QED BY <1>1, <3>1 DEF Register, Registered, database, held
    <2>q. QED BY <2>1 DEF Solo, Alone, Busy, Stages, Knows, LastBound, MustReplace, HasBindings,
                         Missing, Column
  <1>2. CASE LoseState
    BY <1>2 DEF LoseState, database, held, history, Solo, Alone, Busy, Stages, Knows, LastBound,
                MustReplace, HasBindings, Missing, Column, Registered
  <1>f. ASSUME NEW p \in Process, NEW n \in Name, Find(p, n) PROVE Solo'
    BY <1>f DEF Find, files, database, history, Solo, Alone, Busy, Stages, Knows, LastBound,
                MustReplace, HasBindings, Missing, Column, Registered
  <1>u. ASSUME NEW p \in Process, NEW S \in SUBSET table.rows, NEW new \in Row, table \in Table,
               HasBindings, new.bound \in Registered, new.bound # None, new.seen = clock,
               \A r \in S : r.name = new.name /\ r.id = new.id, Put(p, S, new),
               UNCHANGED <<backend, spare, registry, pc, read, overlap>>
        PROVE  Solo'
    <2>1. /\ table.rows \in SUBSET Row /\ new.name \in Name
          /\ stored' = [stored EXCEPT ![new.name] = new.bound]
          /\ \A r \in table.rows : r.seen < new.seen
      BY <1>u, UpgradeAssumption DEF Put, Times, Table, Row
    <2>4. /\ table' \in Table /\ table'.rows = (table.rows \ S) \cup {new}
          /\ table'.columns = table.columns /\ table'.unique = table.unique
      BY <1>u DEF Put, Table
    <2>5. table' # None BY <2>4, UpgradeAssumption
    <2>i. ASSUME NEW m, NEW i, \E t \in RowsOf(m, table.rows) : t.id = i
          PROVE  \E t \in RowsOf(m, table'.rows) : t.id = i
      <3>1. PICK t \in RowsOf(m, table.rows) : t.id = i BY <2>i
      <3>2. CASE t \in S
        <4>1. new \in RowsOf(m, table'.rows) /\ new.id = i
          BY <3>1, <3>2, <2>4, <1>u DEF RowsOf
        <4>q. QED BY <4>1
      <3>3. CASE t \notin S
        <4>1. t \in RowsOf(m, table'.rows) BY <3>1, <3>3, <2>4 DEF RowsOf
        <4>q. QED BY <4>1, <3>1
      <3>q. QED BY <3>2, <3>3
    <2>6. Alone' /\ Stages'
      <3>1. /\ UNCHANGED <<pc, read, spare, backend>> /\ MustReplace' = MustReplace
            /\ HasBindings' = HasBindings /\ Missing' = Missing
            /\ table # None /\ table' # None /\ table'.unique = table.unique
        BY <1>u, <2>4, <2>5, UpgradeAssumption DEF MustReplace, HasBindings, Missing, Column
      <3>2. ASSUME NEW q \in Process PROVE Knows(q)'
        <4>1. Knows(q) BY DEF Solo, Stages
        <4>2. pc[q] = "merge" =>
                \A r \in read[q] : \E t \in RowsOf(r.name, table'.rows) : t.id = r.id
          BY <4>1, <2>i DEF Knows
        <4>q. QED BY <3>1, <4>1, <4>2 DEF Knows, Later
      <3>q. QED BY <3>1, <3>2 DEF Solo, Alone, Busy, Stages
    <2>n. /\ Bound(RowsOf(new.name, table'.rows)) # {}
          /\ Newest(Bound(RowsOf(new.name, table'.rows))) = new
      <3> DEFINE T == RowsOf(new.name, (table.rows \ S) \cup {new})
      <3>1. Bound(T) # {} /\ Newest(Bound(T)) = new BY <2>1, <1>u, StoredIsNewest
      <3>q. QED BY <3>1, <2>4
    <2>m. ASSUME NEW m \in Name, m # new.name
          PROVE  RowsOf(m, table'.rows) = RowsOf(m, table.rows)
      BY <2>m, <2>4, <1>u DEF RowsOf
    <2>8. LastBound'
      <3> SUFFICES ASSUME NEW m \in Name, stored'[m] # None
                   PROVE  /\ table' # None /\ HasBindings'
                          /\ stored'[m] \in Registered'
                          /\ RowsOf(m, table'.rows) # {}
                          /\ m \notin undone' =>
                               /\ Bound(RowsOf(m, table'.rows)) # {}
                               /\ Newest(Bound(RowsOf(m, table'.rows))).bound = stored'[m]
        BY DEF LastBound
      <3>1. HasBindings' /\ Registered' = Registered
        BY <1>u, <2>4 DEF HasBindings, Registered
      <3>2. CASE m = new.name
        <4>1. stored'[m] = new.bound BY <3>2, <2>1 DEF TypeOK
        <4>2. RowsOf(m, table'.rows) # {} BY <3>2, <2>n DEF Bound
        <4>q. QED BY <3>1, <3>2, <4>1, <4>2, <2>5, <2>n, <1>u
      <3>3. CASE m # new.name
        <4>1. stored'[m] = stored[m] /\ (m \in undone' <=> m \in undone)
          BY <3>3, <2>1, <1>u DEF TypeOK, Put
        <4>q. QED BY <3>1, <3>3, <4>1, <2>5, <2>m DEF Solo, LastBound
      <3>q. QED BY <3>2, <3>3
    <2>q. QED BY <2>6, <2>8 DEF Solo
  <1>3. ASSUME NEW p \in Process, NEW e \in Credential, Store(p, e) PROVE Solo'
    <2>1. /\ table \in Table /\ table.rows \in SUBSET Row /\ HasBindings /\ aim[p] \in Aim
          /\ e \in Registered /\ e # None /\ clock \in 1..MaxSeen
          /\ UNCHANGED <<backend, spare, registry, pc, read, overlap>> /\ e \in Credential
      <3>1. /\ table # None /\ aim[p] # None /\ clock <= MaxSeen /\ e \in Registered /\ HasBindings
            /\ UNCHANGED <<backend, spare, registry, pc, read, overlap>>
        BY <1>3 DEF Store, files
      <3>2. clock \in 1..MaxSeen BY <3>1, UpgradeAssumption DEF TypeOK
      <3>3. e \in Credential BY <3>1 DEF Registered, TypeOK
      <3>4. table \in Table /\ aim[p] \in Aim BY <3>1 DEF TypeOK
      <3>5. e # None BY <3>3, UpgradeAssumption
      <3>q. QED BY <3>1, <3>2, <3>3, <3>4, <3>5 DEF Table
    <2>2. CASE Put(p, {}, [id |-> clock, name |-> aim[p].name, seen |-> clock, bound |-> e])
      <3>1. [id |-> clock, name |-> aim[p].name, seen |-> clock, bound |-> e] \in Row
        BY <2>1 DEF Row, Aim
      <3>q. QED BY <2>1, <2>2, <3>1, <1>u
    <2>3. ASSUME NEW r \in table.rows, Put(p, {r}, [r EXCEPT !.seen = clock, !.bound = e])
          PROVE  Solo'
      <3> DEFINE new == [r EXCEPT !.seen = clock, !.bound = e]
      <3>1. /\ new \in Row /\ new.name = r.name /\ new.id = r.id /\ new.seen = clock
            /\ new.bound = e
        BY <2>1 DEF Row
      <3>2. {r} \in SUBSET table.rows /\ \A t \in {r} : t.name = new.name /\ t.id = new.id
        BY <3>1
      <3>3. Put(p, {r}, new) BY <2>3
      <3> HIDE DEF new
      <3>q. QED BY <2>1, <3>1, <3>2, <3>3, <1>u
    <2>4. CASE UNCHANGED <<table, clock, stored, undone>>
      BY <2>4, <2>1 DEF Solo, Alone, Busy, Stages, Knows, LastBound, MustReplace, HasBindings,
                        Missing, Column, Registered
    <2>q. QED BY <1>3, <2>2, <2>3, <2>4 DEF Store
  <1>4. ASSUME NEW p \in Process, Open(p) PROVE Solo'
    <2>1. /\ \A q \in Process : ~Busy(q) /\ pc[q] \in {"off", "ready"}
          /\ pc' = [pc EXCEPT ![p] = "ssh"] /\ pc[p] = "off"
          /\ table' = IF table = None THEN Fresh ELSE table
          /\ UNCHANGED <<backend, spare, registry, read, stored, undone>>
      BY <1>4 DEF Open, Go, files, held, TypeOK, Solo, Stages, Knows, Busy
    <2>2. Fresh # None /\ table' # None BY <2>1, FreshIsTable
    <2>3. Alone' BY <2>1 DEF Alone, Busy, Stage, TypeOK
    <2>4. Stages'
      <3>1. CASE table = None
        <4>1. \A q \in Process : pc[q] = "off" BY <3>1, <2>1 DEF Solo, Stages, Knows, Later
        <4>q. QED BY <4>1, <2>1, <2>2 DEF Stages, Knows, Later, TypeOK
      <3>2. CASE table # None
        BY <3>2, <2>1, <2>2
        DEF Stages, Knows, Later, TypeOK, Solo, MustReplace, HasBindings, Missing, Column
      <3>q. QED BY <3>1, <3>2
    <2>5. LastBound'
      BY <2>1, <2>2 DEF Solo, LastBound, HasBindings, Registered
    <2>q. QED BY <2>3, <2>4, <2>5 DEF Solo
  <1>5. ASSUME NEW p \in Process, Leave(p) PROVE Solo'
    BY <1>5 DEF Leave, database, files, history, Solo, Alone, Busy, Stage, Stages, Knows, Later,
                LastBound, MustReplace, HasBindings, Missing, Column, Registered, TypeOK
  <1>6. ASSUME NEW p \in Process, Migrate(p) PROVE Solo'
    BY <1>6, SoloMigrates, StagesMigrate, LastBoundMigrate DEF Solo
  <1>7. CASE UNCHANGED vars
    BY <1>7 DEF vars, database, files, held, history, Solo, Alone, Busy, Stages, Knows,
                LastBound, MustReplace, HasBindings, Missing, Column, Registered
  <1>q. QED BY <1>1, <1>2, <1>f, <1>3, <1>4, <1>5, <1>6, <1>7 DEF Next

\* The clock is past every row that is stored, and every row that is read.
LEMMA TimesNext == ASSUME TypeOK, Times, [Next]_vars PROVE Times'
  <1>1. ASSUME NEW p \in Process, NEW e \in Credential, Store(p, e) PROVE Times'
    <2>1. table \in Table /\ clock \in Nat /\ read' = read
      <3>1. table # None /\ read' = read BY <1>1 DEF Store
      <3>2. clock \in Nat BY UpgradeAssumption DEF TypeOK
      <3>q. QED BY <3>1, <3>2 DEF TypeOK
    <2>2. \A r \in table.rows : r.seen \in Nat BY <2>1 DEF Table, Row
    <2>r. \A q \in Process : \A r \in read[q] : r.seen \in Nat BY DEF TypeOK, Row
    <2>3. ASSUME NEW old, NEW new, new.seen = clock, Put(p, old, new)
          PROVE  Times'
      <3>1. table'.rows = (table.rows \ old) \cup {new} /\ clock' = clock + 1
        BY <2>1, <2>3 DEF Put, Table
      <3>q. QED BY <3>1, <2>1, <2>2, <2>r, <2>3, UpgradeAssumption DEF Times
    <2>4. \A r \in table.rows : [r EXCEPT !.seen = clock, !.bound = e].seen = clock
      BY <2>1 DEF Table, Row
    <2>q. QED BY <1>1, <2>1, <2>3, <2>4 DEF Store, Times
  <1>2. ASSUME NEW p \in Process, Merge(p) PROVE Times'
    <2>1. CASE Fail(p, "merge") BY <2>1 DEF Fail, database, held, Times
    <2>2. CASE ~Fail(p, "merge")
      <3>1. PICK early \in SUBSET Names(read[p]) :
              /\ Names(read[p]) \subseteq early \cup Names(table.rows)
              /\ table' = [table EXCEPT !.rows = Deduplicated(@, read[p], early)]
              /\ read' = [read EXCEPT ![p] = {}] /\ clock' = clock
        BY <1>2, <2>2 DEF Merge
      <3>2. table \in Table /\ table.rows \in SUBSET Row /\ read[p] \in SUBSET Row
        BY <1>2, <2>2 DEF Merge, TypeOK, Table
      <3>3. table'.rows = Deduplicated(table.rows, read[p], early) BY <3>1, <3>2 DEF Table
      <3>4. \A d \in table'.rows : \E r \in table.rows \cup read[p] : d.seen = r.seen
        BY <3>1, <3>2, <3>3, DeduplicatedRows
      <3>5. \A r \in table.rows : r.seen < clock
        BY <3>2, UpgradeAssumption DEF Times
      <3>6. \A q \in Process : read'[q] \subseteq read[q] BY <3>1 DEF TypeOK
      <3>q. QED BY <3>1, <3>4, <3>5, <3>6 DEF Times
    <2>q. QED BY <2>1, <2>2
  <1>3. ASSUME NEW p \in Process, Migrate(p), ~Merge(p) PROVE Times'
    <2>1. clock' = clock /\ (table' = None \/ table'.rows = {} \/ (table # None /\ table'.rows = table.rows))
      <3> USE DEF Fail, database, files
      <3>1. clock' = clock
        BY <1>3
        DEF Migrate, DropCredentials, Check, Archive, Drop, Recreate, Stamp, Alter, Dedupe,
            DropUnique, DropSpare, CreateSpare, Copy, DropBaselines
      <3>2. CASE Drop(p) BY <3>1, <3>2 DEF Drop
      <3>3. CASE Recreate(p) BY <3>1, <3>3, FreshIsTable DEF Recreate
      <3>4. CASE Alter(p)
        <4>1. CASE table' = table BY <3>1, <4>1
        <4>2. ASSUME table # None, NEW C, table' = [table EXCEPT !.columns = C]
              PROVE  table'.rows = table.rows
          BY <4>2 DEF TypeOK, Table
        <4>q. QED BY <3>1, <3>4, <4>1, <4>2 DEF Alter
      <3>5. CASE DropUnique(p)
        <4>1. ASSUME table # None, table' = [table EXCEPT !.unique = FALSE]
              PROVE  table'.rows = table.rows
          BY <4>1 DEF TypeOK, Table
        <4>q. QED BY <3>1, <3>5, <4>1 DEF DropUnique
      <3>6. CASE Copy(p)
        <4>1. ASSUME table # None, table' = [Fresh EXCEPT !.rows = table.rows]
              PROVE  table'.rows = table.rows
          BY <4>1 DEF Fresh
        <4>q. QED BY <3>1, <3>6, <4>1 DEF Copy
      <3>7. \/ table' = table \/ Drop(p) \/ Recreate(p) \/ Alter(p) \/ DropUnique(p) \/ Copy(p)
        BY <1>3 DEF Migrate, DropCredentials, Check, Archive, Stamp, Dedupe, DropSpare, CreateSpare,
                    DropBaselines
      <3>q. QED BY <3>1, <3>2, <3>3, <3>4, <3>5, <3>6, <3>7
    <2>2. CASE Dedupe(p)
      <3>1. CASE Fail(p, "dedupe") BY <3>1, <2>1 DEF Fail, held, Times
      <3>2. CASE ~Fail(p, "dedupe")
        <4>1. \A q \in Process : read'[q] \subseteq read[q] \cup table.rows /\ table # None
          BY <2>2, <3>2 DEF Dedupe, TypeOK
        <4>q. QED BY <4>1, <2>1 DEF Times
      <3>q. QED BY <3>1, <3>2
    <2>3. CASE ~Dedupe(p)
      <3>1. read' = read
        BY <1>3, <2>3
        DEF Migrate, DropCredentials, Check, Archive, Drop, Recreate, Stamp, Alter, DropUnique,
            DropSpare, CreateSpare, Copy, DropBaselines, Fail, held
      <3>q. QED BY <3>1, <2>1 DEF Times
    <2>q. QED BY <2>2, <2>3
  <1>4. ASSUME NEW p \in Process, Open(p) PROVE Times'
    BY <1>4, FreshIsTable DEF Open, held, Times
  <1>5. ASSUME NEW p \in Process, Leave(p) PROVE Times'
    BY <1>5 DEF Leave, database, Times, TypeOK
  <1>6. ASSUME UNCHANGED <<table, clock, read>> PROVE Times' BY <1>6 DEF Times
  <1>7. \/ UNCHANGED <<table, clock, read>>
        \/ \E p \in Process, e \in Credential : Store(p, e)
        \/ \E p \in Process : Migrate(p) \/ Open(p) \/ Leave(p)
    BY DEF Next, Register, LoseState, Find, vars, database, held
  <1>q. QED BY <1>1, <1>2, <1>3, <1>4, <1>5, <1>6, <1>7

LEMMA OverlapStays == ASSUME TypeOK, overlap, [Next]_vars PROVE overlap'
  BY DEF Next, Register, LoseState, Open, Leave, Find, Store, Put, Migrate, DropCredentials, Check, Archive,
         Drop, Recreate, Stamp, Alter, Dedupe, Merge, DropUnique, DropSpare, CreateSpare, Copy,
         DropBaselines, Fail, vars, files, database, history

LEMMA Invariance == Spec => []IInv
  <1>1. IInv /\ [Next]_vars => IInv'
    BY TypeNext, KeptNext, TimesNext, SoloNext, OverlapStays DEF IInv
  <1>q. QED BY InvInit, <1>1, PTL DEF Spec

-----------------------------------------------------------------------------
\* Type correctness, for any number of processes, names, entries and rows.
THEOREM TypeCorrect == Spec => []TypeOK
  <1>1. IInv => TypeOK BY DEF IInv
  <1>q. QED BY <1>1, Invariance, PTL

\* No credential that was ever registered is lost, however many processes upgrade,
\* and are killed, at once.
THEOREM LegacyIsKept == Spec => []LegacyKept
  <1>1. IInv => LegacyKept BY DEF IInv
  <1>q. QED BY <1>1, Invariance, PTL

\* While openings do not overlap none fails, whatever those before it left, and each
\* ends with the schema of today.
THEOREM OpeningsAlwaysSucceed == Spec => []OpeningsSucceed
  <1>1. IInv => OpeningsSucceed BY DEF IInv, Solo, Stages, Knows, Later, OpeningsSucceed
  <1>q. QED BY <1>1, Invariance, PTL

\* While openings do not overlap, none drops a row of what the new schema stored, or
\* unbinds it, but for the names a deduplication had read and another process stored
\* before it wrote.
THEOREM StoredIsKept == Spec => []StoredKept
  <1>1. ASSUME IInv, ~overlap, NEW n \in Name, stored[n] # None
        PROVE  /\ table # None /\ stored[n] \in Registered
               /\ \E r \in RowsOf(n, table.rows) : n \notin undone => r.bound = stored[n]
    <2>1. /\ table # None /\ stored[n] \in Registered
          /\ RowsOf(n, table.rows) # {}
          /\ n \notin undone =>
               /\ Bound(RowsOf(n, table.rows)) # {}
               /\ Newest(Bound(RowsOf(n, table.rows))).bound = stored[n]
      BY <1>1 DEF IInv, Solo, LastBound
    <2>2. Bound(RowsOf(n, table.rows)) \in SUBSET Row
      BY <1>1, <2>1 DEF IInv, TypeOK, Table, Bound, RowsOf
    <2>3. n \notin undone => Newest(Bound(RowsOf(n, table.rows))) \in Bound(RowsOf(n, table.rows))
      BY <2>1, <2>2, NewestIsLast
    <2>q. QED BY <2>1, <2>3 DEF Bound
  <1>2. IInv => StoredKept BY <1>1 DEF StoredKept
  <1>q. QED BY <1>2, Invariance, PTL
=============================================================================
