------------------------- MODULE RemoteToolsProofs -------------------------
(***************************************************************************)
(* Proofs about HostChange and ServiceInstall, the tools that run lists of *)
(* remote commands; first about HostChange, for any numbers of machines    *)
(* and calls: however many migrations run, fail and are cut off, they lose *)
(* nothing.                                                                *)
(*                                                                         *)
(* It is no property of one migration: of two that exchange a service, the *)
(* one may stop what the other has just started.  The argument counts.  A  *)
(* migration that is about to stop its source has added a target before,   *)
(* so that those that are up outnumber those that are about to be stopped. *)
(*                                                                         *)
(* Then what one call that met no other achieves: at each rest of its list *)
(* of commands it knows the machine it is about, up from the command that  *)
(* starts the service on, and the contents on their way to it.             *)
(***************************************************************************)
EXTENDS HostChange, ServiceInstall, SequenceTheorems, FiniteSetTheorems, TLAPS

List(does) == Seq([do : does, on : {"from", "to"}, must : BOOLEAN])

\* The last commands of a migration, from where it runs or starts the target.
Remove1 == <<Try("rm", "from")>>
Remove2 == <<Try("stop", "from"), Try("rm", "from")>>
DockerRun == <<Must("run", "to"), Try("stop", "from"), Try("rm", "from")>>
LxdStart == <<Try("start", "to"), Try("stop", "from"), Try("rm", "from")>>
LxdCopy == <<Must("copy", "to"), Try("start", "to"), Try("stop", "from"), Try("rm", "from")>>

\* A Docker migration before it runs the target.
Load == <<Try("load", "to"), Must("run", "to"), Try("stop", "from"), Try("rm", "from")>>
Put == <<Must("put", "to"), Try("load", "to"), Must("run", "to"), Try("stop", "from"),
         Try("rm", "from")>>
Get == <<Must("get", "from"), Must("put", "to"), Try("load", "to"), Must("run", "to"),
         Try("stop", "from"), Try("rm", "from")>>
Save == <<Must("save", "from"), Must("get", "from"), Must("put", "to"), Try("load", "to"),
          Must("run", "to"), Try("stop", "from"), Try("rm", "from")>>
Commit == <<Try("commit", "from"), Must("save", "from"), Must("get", "from"), Must("put", "to"),
            Try("load", "to"), Must("run", "to"), Try("stop", "from"), Try("rm", "from")>>
Whole == ReadDevice \o DockerMovePlan
Early == {Load, Put, Get, Save, Commit, DockerMovePlan, Whole}
Late == {DockerRun, Remove2, Remove1, LeavePlan}
LxdLists == {LxdMovePlan, LxdCopy, LxdStart, Remove2, Remove1, LeavePlan}

\* The commands of the tools that are no migrations.
ToolDoes(t, kind) ==
  IF kind = "lxd" /\ t # "vm_remove" THEN {"run", "free", "start", "stop", "restart"}
  ELSE IF kind = "docker" /\ t \notin {"update", "vm_control", "vm_remove"}
  THEN {"run", "free", "read", "critical"}
  ELSE Word \ {"save"}

Fits(r) ==
  /\ r.todo # << >>
  /\ r.tool # "move" => r.todo \in List(ToolDoes(r.tool, r.kind))
  /\ r.tool = "move" =>
       \/ r.kind = "docker" /\ r.todo \in Early \cup Late
       \/ r.kind = "lxd" /\ r.todo \in LxdLists

Fitting ==
  \A c \in Active : /\ call[c] \in Running /\ Fits(call[c])
                    /\ call[c].tool \in Removing => call[c].tool \in called

\* The machines where the service is up, and the migrations about to stop one.
Up == {h \in Host : box["docker"][h].up}
Stopping == {c \in Active : call[c].tool = "move" /\ call[c].kind = "docker"
                            /\ call[c].todo = Remove2}

\* The machines where the container is, and the migrations about to delete one.
There == {h \in Host : box["lxd"][h] # Absent}
Deleting == {c \in Active : call[c].tool = "move" /\ call[c].kind = "lxd"
                            /\ call[c].todo \in {LxdStart, Remove2, Remove1}}

Fewer(S, T) == IsFiniteSet(S) /\ IsFiniteSet(T) /\ Cardinality(S) < Cardinality(T)

IInv ==
  /\ TypeOK /\ Fitting
  /\ called = {} => Fewer(Stopping, Up)
  /\ "vm_remove" \notin called => Fewer(Deleting, There)

-----------------------------------------------------------------------------
(* Counting.                                                               *)

LEMMA Still ==
  ASSUME NEW S, NEW T, Fewer(S, T), NEW U \in SUBSET S, NEW V, T \subseteq V, IsFiniteSet(V)
  PROVE  Fewer(U, V)
  <1>1. IsFiniteSet(U) /\ Cardinality(U) <= Cardinality(S) BY FS_Subset DEF Fewer
  <1>2. Cardinality(T) <= Cardinality(V) BY FS_Subset
  <1>3. Cardinality(U) \in Nat /\ Cardinality(S) \in Nat /\ Cardinality(T) \in Nat
        /\ Cardinality(V) \in Nat
    BY <1>1, FS_CardinalityType DEF Fewer
  <1>q. QED BY <1>1, <1>2, <1>3 DEF Fewer

LEMMA OneLess ==
  ASSUME NEW S, NEW T, Fewer(S, T), NEW s \in S, NEW t
  PROVE  Fewer(S \ {s}, T \ {t})
  <1>1. /\ IsFiniteSet(S \ {s}) /\ Cardinality(S \ {s}) = Cardinality(S) - 1
    BY FS_RemoveElement DEF Fewer
  <1>2. /\ IsFiniteSet(T \ {t}) /\ Cardinality(T \ {t}) >= Cardinality(T) - 1
    <2>1. IsFiniteSet(T \ {t})
          /\ Cardinality(T \ {t}) = IF t \in T THEN Cardinality(T) - 1 ELSE Cardinality(T)
      BY FS_RemoveElement DEF Fewer
    <2>2. Cardinality(T) \in Nat BY FS_CardinalityType DEF Fewer
    <2>q. QED BY <2>1, <2>2
  <1>3. Cardinality(S) \in Nat /\ Cardinality(T) \in Nat BY FS_CardinalityType DEF Fewer
  <1>q. QED BY <1>1, <1>2, <1>3, FS_CardinalityType DEF Fewer

LEMMA OneMore ==
  ASSUME NEW S, NEW T, Fewer(S, T), NEW s, NEW t, t \notin T, NEW U \in SUBSET (S \cup {s}),
         NEW V, T \cup {t} \subseteq V, IsFiniteSet(V)
  PROVE  Fewer(U, V)
  <1>1. /\ IsFiniteSet(S \cup {s}) /\ Cardinality(S \cup {s}) <= Cardinality(S) + 1
    <2>1. IsFiniteSet(S \cup {s})
          /\ Cardinality(S \cup {s}) = IF s \in S THEN Cardinality(S) ELSE Cardinality(S) + 1
      BY FS_AddElement DEF Fewer
    <2>2. Cardinality(S) \in Nat BY FS_CardinalityType DEF Fewer
    <2>q. QED BY <2>1, <2>2
  <1>2. /\ IsFiniteSet(T \cup {t}) /\ Cardinality(T \cup {t}) = Cardinality(T) + 1
    BY FS_AddElement DEF Fewer
  <1>3. Cardinality(S) \in Nat /\ Cardinality(T) \in Nat BY FS_CardinalityType DEF Fewer
  <1>4. Fewer(S \cup {s}, T \cup {t}) BY <1>1, <1>2, <1>3, FS_CardinalityType DEF Fewer
  <1>q. QED BY <1>4, Still

-----------------------------------------------------------------------------
(* Lists of commands.                                                      *)

LEMMA ListsGrow ==
  ASSUME NEW S, NEW T, S \subseteq T PROVE List(S) \subseteq List(T)
  <1>1. [do : S, on : {"from", "to"}, must : BOOLEAN]
          \subseteq [do : T, on : {"from", "to"}, must : BOOLEAN] OBVIOUS
  <1>q. QED BY <1>1, SeqMonotonic DEF List

LEMMA ListsMix ==
  ASSUME NEW S, NEW s \in List(S), NEW t \in List(S), t # << >>
  PROVE  s \o t \in List(S) /\ s \o t # << >>
  BY ConcatProperties DEF List

LEMMA ListRest ==
  ASSUME NEW S, NEW s \in List(S), s # << >>
  PROVE  /\ Head(s) \in [do : S, on : {"from", "to"}, must : BOOLEAN]
         /\ Tail(s) \in List(S)
         /\ Len(s) # 1 => Tail(s) # << >>
  <1>1. Head(s) \in [do : S, on : {"from", "to"}, must : BOOLEAN] /\ Tail(s) \in List(S)
        /\ Len(Tail(s)) = Len(s) - 1
    BY HeadTailProperties DEF List
  <1>2. Len(s) # 1 => Len(Tail(s)) # 0
    <2>1. Len(s) \in Nat BY DEF List
    <2>q. QED BY <1>1, <2>1
  <1>q. QED BY <1>1, <1>2, EmptySeq DEF List

LEMMA ListElement ==
  ASSUME NEW S, NEW s \in List(S), NEW i \in 1..Len(s) PROVE s[i].do \in S
  <1>1. s[i] \in [do : S, on : {"from", "to"}, must : BOOLEAN] BY ElementOfSeq DEF List
  <1>q. QED BY <1>1

LEMMA Lists ==
  /\ ReadDevice \in List({"read"}) /\ ReadDevice # << >>
  /\ DeployPlan \in List({"run"}) /\ DeployPlan # << >>
  /\ DeployUnitPlan \in List({"write", "start"}) /\ DeployUnitPlan # << >>
  /\ UpdatePlan \in List({"inspect", "stop", "rm", "run"}) /\ UpdatePlan # << >>
  /\ UpdateUnitPlan \in List({"write", "start"}) /\ UpdateUnitPlan # << >>
  /\ \A f \in BOOLEAN : RetirePlan(f) \in List({"read", "critical"}) /\ RetirePlan(f) # << >>
  /\ ProviderDeployPlan \in List({"free", "run"}) /\ ProviderDeployPlan # << >>
  /\ \A a \in {"start", "stop", "restart"} :
       ControlPlan(a) \in List({"start", "stop", "restart"}) /\ ControlPlan(a) # << >>
  /\ \A f \in BOOLEAN : RemovePlan(f) \in List({"stop", "rm", "rmforce"}) /\ RemovePlan(f) # << >>
  <1>1. ReadDevice \in List({"read"}) /\ ReadDevice # << >>
    BY DEF List, ReadDevice, Must, Try
  <1>2. DeployPlan \in List({"run"}) /\ DeployPlan # << >>
    BY DEF List, DeployPlan, Must, Try
  <1>3. DeployUnitPlan \in List({"write", "start"}) /\ DeployUnitPlan # << >>
    BY DEF List, DeployUnitPlan, Must, Try
  <1>4. UpdatePlan \in List({"inspect", "stop", "rm", "run"}) /\ UpdatePlan # << >>
    BY DEF List, UpdatePlan, Must, Try
  <1>5. UpdateUnitPlan \in List({"write", "start"}) /\ UpdateUnitPlan # << >>
    BY DEF List, UpdateUnitPlan, Must, Try
  <1>6. ASSUME NEW f \in BOOLEAN
        PROVE  RetirePlan(f) \in List({"read", "critical"}) /\ RetirePlan(f) # << >>
    <2>1. CASE f BY <2>1 DEF List, RetirePlan, Must, Try
    <2>2. CASE ~f BY <2>2 DEF List, RetirePlan, Must, Try
    <2>q. QED BY <2>1, <2>2
  <1>7. ProviderDeployPlan \in List({"free", "run"}) /\ ProviderDeployPlan # << >>
    BY DEF List, ProviderDeployPlan, Must, Try
  <1>8. ASSUME NEW a \in {"start", "stop", "restart"}
        PROVE  ControlPlan(a) \in List({"start", "stop", "restart"}) /\ ControlPlan(a) # << >>
    BY DEF List, ControlPlan, Must, Try
  <1>9. ASSUME NEW f \in BOOLEAN
        PROVE  RemovePlan(f) \in List({"stop", "rm", "rmforce"}) /\ RemovePlan(f) # << >>
    <2>1. CASE f BY <2>1 DEF List, RemovePlan, Must, Try
    <2>2. CASE ~f BY <2>2 DEF List, RemovePlan, Must, Try
    <2>q. QED BY <2>1, <2>2
  <1>q. QED BY <1>1, <1>2, <1>3, <1>4, <1>5, <1>6, <1>7, <1>8, <1>9

\* What Head, Tail and Len are of tuples.
LEMMA Tuples ==
  /\ \A a : Head(<<a>>) = a /\ Len(<<a>>) = 1
  /\ \A a, b : Head(<<a, b>>) = a /\ Tail(<<a, b>>) = <<b>> /\ Len(<<a, b>>) = 2
  /\ \A a, b, c : /\ Head(<<a, b, c>>) = a /\ Tail(<<a, b, c>>) = <<b, c>>
                  /\ Len(<<a, b, c>>) = 3
  /\ \A a, b, c, d : /\ Head(<<a, b, c, d>>) = a /\ Tail(<<a, b, c, d>>) = <<b, c, d>>
                     /\ Len(<<a, b, c, d>>) = 4
  /\ \A a, b, c, d, e :
       /\ Head(<<a, b, c, d, e>>) = a /\ Tail(<<a, b, c, d, e>>) = <<b, c, d, e>>
       /\ Len(<<a, b, c, d, e>>) = 5
  /\ \A a, b, c, d, e, f :
       Head(<<a, b, c, d, e, f>>) = a /\ Tail(<<a, b, c, d, e, f>>) = <<b, c, d, e, f>>
  /\ \A a, b, c, d, e, f, g :
       /\ Head(<<a, b, c, d, e, f, g>>) = a
       /\ Tail(<<a, b, c, d, e, f, g>>) = <<b, c, d, e, f, g>>
  /\ \A a, b, c, d, e, f, g, h :
       /\ Head(<<a, b, c, d, e, f, g, h>>) = a
       /\ Tail(<<a, b, c, d, e, f, g, h>>) = <<b, c, d, e, f, g, h>>
  OBVIOUS

LEMMA LongTuples ==
  \A a, b, c, d, e, f, g, h, i :
       /\ Head(<<a, b, c, d, e, f, g, h, i>>) = a
       /\ Tail(<<a, b, c, d, e, f, g, h, i>>) = <<b, c, d, e, f, g, h, i>>
  OBVIOUS

LEMMA Prepended ==
  ASSUME NEW S, NEW a \in S, NEW s \in Seq(S)
  PROVE  Head(<<a>> \o s) = a /\ Tail(<<a>> \o s) = s
  <1>1. Len(<<a>> \o s) = Len(s) + 1 /\ <<a>> \o s \in Seq(S) BY ConcatProperties
  <1>2. \A i \in 1..Len(s) : (<<a>> \o s)[i+1] = s[i] OBVIOUS
  <1>3. Tail(<<a>> \o s) \in Seq(S) /\ Len(Tail(<<a>> \o s)) = Len(s)
    BY <1>1, EmptySeq, HeadTailProperties
  <1>4. \A i \in 1..Len(s) : Tail(<<a>> \o s)[i] = s[i] BY <1>2, <1>1, <1>3
  <1>q. QED BY <1>3, <1>4, SeqEqual

LEMMA MoveLists ==
  /\ Early \cup Late \cup LxdLists \subseteq List(Word)
  /\ \A s \in Early \cup Late \cup LxdLists : s # << >>
  <1> USE DEF List, Word, Must, Try
  <1>1. Load \in List(Word) /\ Put \in List(Word) /\ Load # << >> /\ Put # << >>
    BY DEF Load, Put
  <1>2. Get \in List(Word) /\ Save \in List(Word) /\ Get # << >> /\ Save # << >>
    BY DEF Get, Save
  <1>3. Commit \in List(Word) /\ Commit # << >> BY DEF Commit
  <1>4. DockerMovePlan \in List(Word) /\ DockerMovePlan # << >> BY DEF DockerMovePlan
  <1>5. Whole \in List(Word) /\ Whole # << >>
    <2>1. ReadDevice \in List(Word) BY DEF ReadDevice
    <2>q. QED BY <1>4, <2>1, ListsMix DEF Whole
  <1>6. /\ DockerRun \in List(Word) /\ Remove2 \in List(Word) /\ Remove1 \in List(Word)
        /\ DockerRun # << >> /\ Remove2 # << >> /\ Remove1 # << >>
    BY DEF DockerRun, Remove2, Remove1
  <1>l. LeavePlan \in List(Word) /\ LeavePlan # << >> BY DEF LeavePlan
  <1>7. /\ LxdMovePlan \in List(Word) /\ LxdCopy \in List(Word) /\ LxdStart \in List(Word)
        /\ LxdMovePlan # << >> /\ LxdCopy # << >> /\ LxdStart # << >>
    BY DEF LxdMovePlan, LxdCopy, LxdStart
  <1> HIDE DEF List, Word, Must, Try
  <1>q. QED BY <1>1, <1>2, <1>3, <1>4, <1>5, <1>6, <1>l, <1>7 DEF Early, Late, LxdLists

Gentle == {"read", "inspect", "commit", "save", "get", "put", "load"}

\* A Docker migration, command by command, until it runs the target.
LEMMA Stages ==
  /\ Head(Whole) = Try("read", "from") /\ Tail(Whole) = DockerMovePlan
  /\ Head(DockerMovePlan) = Must("inspect", "from") /\ Tail(DockerMovePlan) = Commit
  /\ Head(Commit) = Try("commit", "from") /\ Tail(Commit) = Save
  /\ Head(Save) = Must("save", "from") /\ Tail(Save) = Get
  /\ Head(Get) = Must("get", "from") /\ Tail(Get) = Put
  /\ Head(Put) = Must("put", "to") /\ Tail(Put) = Load
  /\ Head(Load) = Try("load", "to") /\ Tail(Load) = DockerRun
  <1>1. Head(Load) = Try("load", "to") /\ Tail(Load) = DockerRun
    BY Tuples DEF Load, DockerRun
  <1>2. Head(Put) = Must("put", "to") /\ Tail(Put) = Load BY Tuples DEF Load, Put
  <1>3. Head(Get) = Must("get", "from") /\ Tail(Get) = Put BY Tuples DEF Get, Put
  <1>4. Head(Save) = Must("save", "from") /\ Tail(Save) = Get BY Tuples DEF Get, Save
  <1>5. Head(Commit) = Try("commit", "from") /\ Tail(Commit) = Save BY Tuples DEF Commit, Save
  <1>6. Head(DockerMovePlan) = Must("inspect", "from") /\ Tail(DockerMovePlan) = Commit
    BY LongTuples DEF Commit, DockerMovePlan
  <1>7. Head(Whole) = Try("read", "from") /\ Tail(Whole) = DockerMovePlan
    <2>1. Try("read", "from") \in [do : Word, on : {"from", "to"}, must : BOOLEAN]
      BY DEF Try, Word
    <2>2. DockerMovePlan \in Seq([do : Word, on : {"from", "to"}, must : BOOLEAN])
      BY MoveLists DEF List, Early
    <2>q. QED BY <2>1, <2>2, Prepended DEF Whole, ReadDevice
  <1>q. QED BY <1>1, <1>2, <1>3, <1>4, <1>5, <1>6, <1>7

LEMMA StageWords ==
  /\ Head(Whole).do = "read" /\ Head(DockerMovePlan).do = "inspect"
  /\ Head(Commit).do = "commit" /\ Head(Save).do = "save" /\ Head(Get).do = "get"
  /\ Head(Put).do = "put" /\ Head(Load).do = "load"
  <1>1. /\ Try("read", "from").do = "read" /\ Must("inspect", "from").do = "inspect"
        /\ Try("commit", "from").do = "commit" /\ Must("save", "from").do = "save"
        /\ Must("get", "from").do = "get" /\ Must("put", "to").do = "put"
        /\ Try("load", "to").do = "load"
    BY DEF Try, Must
  <1>q. QED BY <1>1, Stages, Zenon

LEMMA StagePlaces ==
  /\ Head(DockerMovePlan).on = "from" /\ Head(Commit).on = "from" /\ Head(Save).on = "from"
  /\ Head(Get).on = "from" /\ Head(Put).on = "to" /\ Head(Load).on = "to"
  /\ Head(Whole).must = FALSE
  <1>1. /\ Try("read", "from").must = FALSE /\ Must("inspect", "from").on = "from" /\ Try("commit", "from").on = "from"
        /\ Must("save", "from").on = "from" /\ Must("get", "from").on = "from"
        /\ Must("put", "to").on = "to" /\ Try("load", "to").on = "to"
    BY DEF Try, Must
  <1>q. QED BY <1>1, Stages, Zenon

LEMMA EarlyRest ==
  ASSUME NEW s \in Early
  PROVE  Tail(s) \in Early \cup {DockerRun} /\ Head(s).do \in Gentle
  <1>1. Tail(s) \in Early \cup {DockerRun} BY Stages, Zenon DEF Early
  <1>2. Head(s).do \in Gentle BY StageWords, Zenon DEF Early, Gentle
  <1>q. QED BY <1>1, <1>2

LEMMA MoveRest ==
  /\ Tail(DockerRun) = Remove2 /\ Head(DockerRun) = Must("run", "to")
  /\ Tail(Remove2) = Remove1 /\ Head(Remove2) = Try("stop", "from")
  /\ Tail(LxdMovePlan) = LxdCopy /\ Head(LxdMovePlan) = Must("inspect", "from")
  /\ Tail(LxdCopy) = LxdStart /\ Head(LxdCopy) = Must("copy", "to")
  /\ Tail(LxdStart) = Remove2 /\ Head(LxdStart) = Try("start", "to")
  /\ Head(Remove1) = Try("rm", "from") /\ Len(Remove1) = 1
  /\ Head(LeavePlan) = Must("read", "from") /\ Len(LeavePlan) = 1
  <1>1. Tail(DockerRun) = Remove2 /\ Head(DockerRun) = Must("run", "to")
    BY Tuples DEF DockerRun, Remove2
  <1>2. Tail(Remove2) = Remove1 /\ Head(Remove2) = Try("stop", "from")
    BY Tuples DEF Remove1, Remove2
  <1>3. Tail(LxdMovePlan) = LxdCopy /\ Head(LxdMovePlan) = Must("inspect", "from")
    BY Tuples DEF LxdMovePlan, LxdCopy
  <1>4. Tail(LxdCopy) = LxdStart /\ Head(LxdCopy) = Must("copy", "to")
    BY Tuples DEF LxdStart, LxdCopy
  <1>5. Tail(LxdStart) = Remove2 /\ Head(LxdStart) = Try("start", "to")
    BY Tuples DEF LxdStart, Remove2
  <1>6. Head(Remove1) = Try("rm", "from") /\ Len(Remove1) = 1 BY Tuples DEF Remove1
  <1>7. Head(LeavePlan) = Must("read", "from") /\ Len(LeavePlan) = 1 BY Tuples DEF LeavePlan
  <1>q. QED BY <1>1, <1>2, <1>3, <1>4, <1>5, <1>6, <1>7

\* No two of them are taken for each other.
LEMMA MovesDiffer ==
  /\ \A s \in Early \cup {DockerRun} : s \notin {Remove2, Remove1, LxdStart}
  /\ LxdMovePlan \notin {Remove2, Remove1, LxdStart}
  /\ LxdCopy \notin {Remove2, Remove1, LxdStart}
  /\ LxdStart # Remove2 /\ LxdStart # Remove1 /\ Remove1 # Remove2 /\ Remove1 # LxdCopy
  /\ LeavePlan \notin {Remove2, Remove1, LxdStart, DockerRun, LxdCopy}
  <1>0. \A d, o : Must(d, o).do = d /\ Try(d, o).do = d BY DEF Must, Try
  <1>1. Head(Remove1).do = "rm" /\ Head(Remove2).do = "stop" /\ Head(LxdStart).do = "start"
    BY <1>0, MoveRest
  <1>2. Head(DockerRun).do = "run" /\ Head(LxdMovePlan).do = "inspect" /\ Head(LxdCopy).do = "copy"
    BY <1>0, MoveRest
  <1>3. \A s \in Early : Head(s).do \in Gentle BY EarlyRest
  <1>4. Head(LeavePlan).do = "read" BY <1>0, MoveRest
  <1>q. QED BY <1>1, <1>2, <1>3, <1>4 DEF Gentle

LEMMA LastWords ==
  /\ Head(DockerRun).do = "run" /\ Head(Remove2).do = "stop" /\ Head(Remove1).do = "rm"
  /\ Head(DockerRun).on = "to" /\ Head(Remove2).on = "from" /\ Head(Remove1).on = "from"
  /\ Head(LeavePlan).do = "read" /\ Head(LeavePlan).must = TRUE
  <1>1. /\ Must("run", "to").do = "run" /\ Try("stop", "from").do = "stop"
        /\ Try("rm", "from").do = "rm" /\ Must("run", "to").on = "to"
        /\ Try("stop", "from").on = "from" /\ Try("rm", "from").on = "from"
        /\ Must("read", "from").do = "read" /\ Must("read", "from").must = TRUE
    BY DEF Must, Try
  <1>q. QED BY <1>1, MoveRest, Zenon

-----------------------------------------------------------------------------
(* Calls begin.                                                            *)

LEMMA Finite ==
  ASSUME TypeOK
  PROVE  /\ IsFiniteSet(Up) /\ IsFiniteSet(There)
         /\ IsFiniteSet(Stopping) /\ IsFiniteSet(Deleting)
  <1>1. Up \in SUBSET Host /\ There \in SUBSET Host BY DEF Up, There
  <1>2. Stopping \in SUBSET Call /\ Deleting \in SUBSET Call BY DEF Stopping, Deleting, Active
  <1>q. QED BY <1>1, <1>2, FS_Subset, HostAssumption

LEMMA InvInit == Init => IInv
  <1> SUFFICES ASSUME Init PROVE IInv OBVIOUS
  <1>1. PICK d \in Host, x \in Host :
          box = [p \in Platform |-> [h \in Host |->
                  IF (p = "docker" /\ h = d) \/ (p = "lxd" /\ h = x)
                  THEN [up |-> TRUE, data |-> h] ELSE Absent]]
    BY DEF Init
  <1>2. \A h \in Host : [up |-> TRUE, data |-> h] \in Box /\ [up |-> TRUE, data |-> h] # Absent
    BY HostAssumption DEF Box, Data, Absent
  <1>3. TypeOK
    <2>1. box \in [Platform -> [Host -> Box]] BY <1>1, <1>2 DEF Box
    <2>2. /\ image \in [Host -> Data \cup {None}]
          /\ archive \in [Host \cup {Local} -> Data \cup {None}]
      BY DEF Init, Data
    <2>q. QED BY <2>1, <2>2 DEF Init, TypeOK
  <1>4. Active = {} BY DEF Init, Active
  <1>5. /\ "docker" \in Platform /\ "lxd" \in Platform BY DEF Platform
  <1>6. d \in Up /\ x \in There BY <1>1, <1>2, <1>5 DEF Up, There
  <1>7. Stopping = {} /\ Deleting = {} BY <1>4 DEF Stopping, Deleting
  <1>8. \A S, s : IsFiniteSet(S) /\ s \in S => Cardinality({}) < Cardinality(S)
    <2> SUFFICES ASSUME NEW S, NEW s \in S, IsFiniteSet(S) PROVE 0 < Cardinality(S)
      BY FS_EmptySet
    <2>1. Cardinality(S) \in Nat BY FS_CardinalityType
    <2>2. Cardinality(S) # 0 BY FS_EmptySet
    <2>q. QED BY <2>1, <2>2
  <1>9. Fewer(Stopping, Up) /\ Fewer(Deleting, There)
    BY <1>3, <1>6, <1>7, <1>8, Finite DEF Fewer
  <1>q. QED BY <1>3, <1>4, <1>9 DEF IInv, Fitting

LEMMA BeginStep ==
  ASSUME IInv, NEW c \in Call, NEW t \in Tool, NEW p \in Platform, NEW h \in Host, NEW g \in Host,
         NEW list \in List(Word), list # << >>, Begin(c, t, p, h, g, list),
         t # "move" => list \in List(ToolDoes(t, p)),
         t = "move" => p = "docker" /\ list = Whole
  PROVE  IInv'
  <1> USE DEF IInv
  <1> DEFINE new == [tool |-> t, kind |-> p, from |-> h, to |-> g, todo |-> list,
                     failed |-> FALSE, want |-> None, slipped |-> FALSE,
                     shared |-> Active # {}]
  <1>0. /\ c \notin Active
        /\ call' = [d \in Call |->
             IF d = c THEN new ELSE IF d \in Active THEN [call[d] EXCEPT !.shared = TRUE]
             ELSE call[d]]
        /\ called' = called \cup ({t} \cap Removing)
        /\ UNCHANGED <<box, image, archive, report>>
    BY DEF Begin, Active, lab
  <1>n. /\ new \in Running /\ new # None
        /\ new.tool = t /\ new.kind = p /\ new.todo = list
    <2>1. (Active # {}) \in BOOLEAN BY Zenon
    <2>2. list \in Seq(Command) BY DEF List, Command
    <2>3. new \in Running BY <2>1, <2>2, Zenon DEF Running
    <2>q. QED BY <2>3, NoneIsNoCall
  <1> HIDE DEF new
  <1>b. \A d \in Active : LET u == [call[d] EXCEPT !.shared = TRUE] IN
          /\ u \in Running /\ u # None
          /\ u.tool = call[d].tool /\ u.kind = call[d].kind /\ u.todo = call[d].todo
    BY NoneIsNoCall DEF Fitting, Running
  <1>1. Active' = Active \cup {c} BY <1>0, <1>n, <1>b DEF Active
  <1>2. /\ \A d \in Active : /\ call'[d].tool = call[d].tool /\ call'[d].kind = call[d].kind
                             /\ call'[d].todo = call[d].todo /\ call'[d] \in Running
        /\ call'[c] = new
    BY <1>0, <1>b DEF Active
  <1>3. TypeOK'
    <2>1. \A d \in Call : call'[d] \in Running \cup {None}
      BY <1>0, <1>n, <1>b DEF TypeOK
    <2>2. call' \in [Call -> Running \cup {None}] BY <2>1, <1>0
    <2>q. QED BY <2>2, <1>0 DEF TypeOK
  <1>4. Fitting'
    <2>1. Fits(new) BY <1>n DEF Fits, Early
    <2>2. \A d \in Active : Fits(call'[d]) BY <1>2 DEF Fitting, Fits
    <2>3. new.tool \in Removing => new.tool \in called' BY <1>0, <1>n
    <2>4. \A d \in Active : call'[d].tool \in Removing => call'[d].tool \in called'
      <3>1. \A d \in Active : call[d].tool \in Removing => call[d].tool \in called BY DEF Fitting
      <3>2. called \subseteq called' BY <1>0
      <3>3. \A d \in Active : call'[d].tool = call[d].tool BY <1>2
      <3> HIDE DEF IInv
      <3>q. QED BY <3>1, <3>2, <3>3
    <2>5. \A d \in Active \cup {c} :
            /\ call'[d] \in Running /\ Fits(call'[d])
            /\ call'[d].tool \in Removing => call'[d].tool \in called'
      <3> HIDE DEF IInv
      <3>q. QED BY <2>1, <2>2, <2>3, <2>4, <1>2, <1>n
    <2> HIDE DEF IInv
    <2> SUFFICES ASSUME NEW d \in Active'
                 PROVE  /\ call'[d] \in Running /\ Fits(call'[d])
                        /\ call'[d].tool \in Removing => call'[d].tool \in called'
      BY DEF Fitting
    <2>q. QED BY <2>5, <1>1
  <1>5. Stopping' \subseteq Stopping /\ Deleting' \subseteq Deleting
    <2>1. t = "move" => list \notin {Remove2, Remove1, LxdStart} BY MovesDiffer DEF Early
    <2>q. QED BY <2>1, <1>1, <1>2, <1>n DEF Stopping, Deleting
  <1>6. Up' = Up /\ There' = There BY <1>0 DEF Up, There
  <1>7. called' = {} => Fewer(Stopping', Up')
    BY <1>0, <1>5, <1>6, Still, Finite
  <1>8. "vm_remove" \notin called' => Fewer(Deleting', There')
    BY <1>0, <1>5, <1>6, Still, Finite
  <1>q. QED BY <1>3, <1>4, <1>7, <1>8 DEF Fewer

LEMMA Begins ==
  ASSUME IInv, NEW c \in Call,
         \/ Deploy(c) \/ Update(c) \/ UpdateUnitState(c) \/ Backup(c) \/ Decommission(c)
         \/ DeployVM(c) \/ ControlVM(c) \/ RemoveVM(c)
  PROVE  IInv'
  <1> USE Lists
  <1>1. ASSUME NEW t \in Tool \ {"move"}, NEW p \in Platform, NEW h \in Host,
               NEW S, S \subseteq ToolDoes(t, p), NEW list \in List(S), list # << >>,
               Begin(c, t, p, h, h, list)
        PROVE  IInv'
    <2>1. ToolDoes(t, p) \subseteq Word BY DEF ToolDoes, Word
    <2>2. list \in List(ToolDoes(t, p)) /\ list \in List(Word) BY <1>1, <2>1, ListsGrow
    <2>q. QED BY <1>1, <2>2, BeginStep
  <1>2. CASE Deploy(c)
    <2>1. PICK p \in Platform, h \in Host :
            Begin(c, "deploy", p, h, h, IF p = "systemd" THEN DeployUnitPlan ELSE DeployPlan)
      BY <1>2 DEF Deploy
    <2>2. CASE p = "systemd"
      <3>1. {"write", "start"} \subseteq ToolDoes("deploy", p) /\ "deploy" \in Tool \ {"move"}
        BY <2>2 DEF ToolDoes, Word, Tool
      <3>q. QED BY <2>1, <2>2, <3>1, <1>1
    <2>3. CASE p # "systemd"
      <3>1. {"run"} \subseteq ToolDoes("deploy", p) /\ "deploy" \in Tool \ {"move"}
        BY <2>3 DEF ToolDoes, Word, Tool
      <3>q. QED BY <2>1, <2>3, <3>1, <1>1
    <2>q. QED BY <2>2, <2>3
  <1>3. CASE Update(c)
    <2>1. PICK p \in {"docker", "systemd"}, h \in Host, before \in {<< >>, ReadDevice} :
            Begin(c, "update", p, h, h,
                  before \o IF p = "systemd" THEN UpdateUnitPlan ELSE UpdatePlan)
      BY <1>3 DEF Update
    <2> DEFINE list == IF p = "systemd" THEN UpdateUnitPlan ELSE UpdatePlan
    <2> DEFINE S == ToolDoes("update", p)
    <2>2. /\ {"read"} \subseteq S /\ {"write", "start"} \subseteq S
          /\ {"inspect", "stop", "rm", "run"} \subseteq S
      BY DEF ToolDoes, Word
    <2> HIDE DEF S
    <2>3. ReadDevice \in List(S) /\ list \in List(S) /\ list # << >> BY <2>2, ListsGrow
    <2> HIDE DEF list
    <2>4. << >> \in List(S) BY EmptySeq DEF List
    <2>5. before \o list \in List(S) /\ before \o list # << >> BY <2>3, <2>4, ListsMix
    <2>6. "update" \in Tool \ {"move"} /\ p \in Platform BY DEF Tool, Platform
    <2>7. Begin(c, "update", p, h, h, before \o list) BY <2>1 DEF list
    <2>q. QED BY <2>5, <2>6, <2>7, <1>1 DEF S
  <1>4. CASE UpdateUnitState(c)
    <2>1. /\ {"start", "stop", "restart"} \subseteq ToolDoes("unit_state", "systemd")
          /\ "unit_state" \in Tool \ {"move"} /\ "systemd" \in Platform
      BY DEF ToolDoes, Word, Tool, Platform
    <2>q. QED BY <1>4, <2>1, <1>1 DEF UpdateUnitState
  <1>5. CASE Backup(c)
    <2>1. /\ {"read"} \subseteq ToolDoes("backup", "docker")
          /\ "backup" \in Tool \ {"move"} /\ "docker" \in Platform
      BY DEF ToolDoes, Tool, Platform
    <2>q. QED BY <1>5, <2>1, <1>1 DEF Backup
  <1>6. CASE Decommission(c)
    <2>1. /\ {"read", "critical"} \subseteq ToolDoes("retire", "docker")
          /\ "retire" \in Tool \ {"move"} /\ "docker" \in Platform /\ "move" \in Tool
      BY DEF ToolDoes, Tool, Platform
    <2>2. ASSUME NEW h \in Host, NEW t \in Host,
                 Begin(c, "move", "docker", h, t, ReadDevice \o DockerMovePlan)
          PROVE  IInv'
      <3>1. Whole \in List(Word) /\ Whole # << >> BY MoveLists DEF Early
      <3>q. QED BY <2>1, <2>2, <3>1, BeginStep DEF Whole
    <2>q. QED BY <1>6, <2>1, <2>2, <1>1 DEF Decommission
  <1>7. CASE DeployVM(c)
    <2>1. ASSUME NEW p \in {"docker", "lxd"}
          PROVE  /\ {"free", "run"} \subseteq ToolDoes("vm_deploy", p)
                 /\ "vm_deploy" \in Tool \ {"move"} /\ p \in Platform
      BY DEF ToolDoes, Tool, Platform
    <2>q. QED BY <1>7, <2>1, <1>1 DEF DeployVM
  <1>8. CASE ControlVM(c)
    <2>1. ASSUME NEW p \in {"docker", "lxd"}
          PROVE  /\ {"start", "stop", "restart"} \subseteq ToolDoes("vm_control", p)
                 /\ "vm_control" \in Tool \ {"move"} /\ p \in Platform
      BY DEF ToolDoes, Tool, Platform, Word
    <2>q. QED BY <1>8, <2>1, <1>1 DEF ControlVM
  <1>9. CASE RemoveVM(c)
    <2>1. ASSUME NEW p \in {"docker", "lxd"}
          PROVE  /\ {"stop", "rm", "rmforce"} \subseteq ToolDoes("vm_remove", p)
                 /\ "vm_remove" \in Tool \ {"move"} /\ p \in Platform
      BY DEF ToolDoes, Tool, Platform, Word
    <2>q. QED BY <1>9, <2>1, <1>1 DEF RemoveVM
  <1>q. QED BY <1>2, <1>3, <1>4, <1>5, <1>6, <1>7, <1>8, <1>9

-----------------------------------------------------------------------------
(* Calls go on.                                                            *)

\* The call ends, goes on with the rest of its list, takes up the LXD list, or leaves
\* the device that a migration was about.
Goes(c) ==
  /\ call' \in [Call -> Running \cup {None}]
  /\ report' \in [Call -> {"none", "success", "error", "timeout"}]
  /\ \A d \in Call \ {c} : call'[d] = call[d]
  /\ call'[c] # None =>
       /\ call'[c].tool = call[c].tool
       /\ \/ call'[c].kind = call[c].kind /\ call'[c].todo = Tail(call[c].todo)
             /\ Len(call[c].todo) # 1
          \/ call[c].todo = DockerMovePlan /\ call'[c].kind = "lxd" /\ call'[c].todo = LxdMovePlan
          \/ call[c].tool = "move" /\ call'[c].kind = call[c].kind /\ call'[c].todo = LeavePlan

\* What the commands of a call that fits are.
LEMMA HeadFits ==
  ASSUME IInv, NEW c \in Active
  PROVE  /\ c \in Call /\ call[c] \in Running /\ Fits(call[c])
         /\ call[c].todo \in Seq(Command) /\ Head(call[c].todo) \in Command
         /\ Do(c) \in Word /\ At(c) \in Host /\ call[c].kind \in Platform
         /\ Here(c) \in Box
  <1>1. c \in Call /\ call[c] \in Running /\ Fits(call[c]) BY DEF Active, IInv, Fitting
  <1>2. call[c].todo \in Seq(Command) /\ call[c].todo # << >> BY <1>1 DEF Running, Fits
  <1>3. Head(call[c].todo) \in Command BY <1>2, HeadTailProperties
  <1>4. Head(call[c].todo).on \in {"from", "to"} /\ Do(c) \in Word BY <1>3 DEF Command, Do
  <1>5. At(c) \in Host
    <2>1. CASE Head(call[c].todo).on = "from" BY <2>1, <1>1 DEF At, Running
    <2>2. CASE Head(call[c].todo).on = "to" BY <2>2, <1>1 DEF At, Running
    <2>q. QED BY <2>1, <2>2, <1>4
  <1>6. call[c].kind \in Platform BY <1>1 DEF Running
  <1>q. QED BY <1>1, <1>2, <1>3, <1>4, <1>5, <1>6 DEF Here, IInv, TypeOK

LEMMA Ends ==
  ASSUME IInv, NEW c \in Active, NEW how \in {"success", "error", "timeout"}, End(c, how)
  PROVE  Goes(c) /\ call'[c] = None
  BY HeadFits DEF End, Goes, IInv, TypeOK

\* What follows the next command.
LEMMA RestOf ==
  ASSUME NEW r \in Running, r.todo # << >>
  PROVE  /\ Len(r.todo) # 1 => Rest(r) = Tail(r.todo)
         /\ Len(r.todo) = 1 /\ r.tool = "move" /\ r.todo # LeavePlan => Rest(r) = LeavePlan
         /\ Len(r.todo) = 1 /\ ~(r.tool = "move" /\ r.todo # LeavePlan) => Rest(r) = << >>
         /\ Rest(r) \in Seq(Command)
  <1>1. r.todo \in Seq(Command) BY DEF Running
  <1>2. Len(r.todo) \in Nat /\ Len(r.todo) # 0 BY <1>1, EmptySeq
  <1>3. Tail(r.todo) \in Seq(Command) BY <1>1, HeadTailProperties
  <1>4. LeavePlan \in Seq(Command) BY MoveLists DEF List, Command, Late
  <1>5. << >> \in Seq(Command) BY EmptySeq
  <1>6. CASE Len(r.todo) # 1
    <2>1. \A n \in Nat : n # 0 /\ n # 1 => n > 1 OBVIOUS
    <2>2. Len(r.todo) > 1 BY <1>2, <1>6, <2>1, Zenon
    <2>q. QED BY <1>3, <1>6, <2>2 DEF Rest
  <1>7. CASE Len(r.todo) = 1
    <2>1. ~(Len(r.todo) > 1) BY <1>7
    <2>q. QED BY <1>4, <1>5, <1>7, <2>1 DEF Rest
  <1>q. QED BY <1>6, <1>7

LEMMA CallGoesOn ==
  ASSUME IInv, NEW c \in Active, NEW r \in Running, GoOn(c, r),
         r.tool = call[c].tool, r.kind = call[c].kind, r.todo = call[c].todo
  PROVE  Goes(c)
  <1>0. c \in Call BY HeadFits
  <1>1. CASE Rest(r) = << >> \/ report[c] # "none" BY <1>1, Ends DEF GoOn
  <1>2. CASE ~(Rest(r) = << >> \/ report[c] # "none")
    <2> DEFINE u == [r EXCEPT !.todo = Rest(r)]
    <2>1. call' = [call EXCEPT ![c] = u] /\ UNCHANGED report BY <1>2 DEF GoOn
    <2>2. r.todo # << >> BY HeadFits DEF Fits
    <2>3. u \in Running /\ u.tool = r.tool /\ u.kind = r.kind /\ u.todo = Rest(r)
      BY <2>2, RestOf DEF Running
    <2> HIDE DEF u
    <2>4. \/ Len(r.todo) # 1 /\ Rest(r) = Tail(r.todo)
          \/ r.tool = "move" /\ Rest(r) = LeavePlan
      BY <1>2, <2>2, RestOf
    <2>q. QED BY <2>1, <2>3, <2>4, <1>0 DEF Goes, IInv, TypeOK
  <1>q. QED BY <1>1, <1>2

\* A call whose command failed ends, or leaves the device.
LEMMA GivesUp ==
  ASSUME IInv, NEW c \in Active, GiveUp(c)
  PROVE  Goes(c) /\ (call'[c] = None \/ call'[c].todo = LeavePlan)
  <1>0. c \in Call /\ call[c] \in Running BY HeadFits
  <1>1. CASE End(c, "error") BY <1>1, Ends
  <1>2. CASE /\ call[c].tool = "move" /\ UNCHANGED report
             /\ call' = [call EXCEPT ![c].todo = LeavePlan, ![c].failed = TRUE]
    <2> DEFINE u == [call[c] EXCEPT !.todo = LeavePlan, !.failed = TRUE]
    <2>1. call' = [call EXCEPT ![c] = u] BY <1>0, <1>2 DEF IInv, TypeOK
    <2>2. LeavePlan \in Seq(Command) BY MoveLists DEF List, Command, Late
    <2>3. u \in Running /\ u.tool = call[c].tool /\ u.kind = call[c].kind /\ u.todo = LeavePlan
      BY <1>0, <2>2 DEF Running
    <2> HIDE DEF u
    <2>q. QED BY <1>0, <1>2, <2>1, <2>3 DEF Goes, IInv, TypeOK
  <1>q. QED BY <1>1, <1>2 DEF GiveUp

\* Only a migration has the list of one.
LEMMA OnlyMoves ==
  ASSUME NEW t, NEW kind PROVE DockerMovePlan \notin List(ToolDoes(t, kind))
  <1> SUFFICES ASSUME DockerMovePlan \in List(ToolDoes(t, kind)) PROVE FALSE OBVIOUS
  <1>1. \A i \in 1..Len(DockerMovePlan) : DockerMovePlan[i].do \in ToolDoes(t, kind)
    BY ListElement
  <1>2. 3 \in 1..Len(DockerMovePlan) /\ DockerMovePlan[3].do = "save"
    BY DEF DockerMovePlan, Must, Try
  <1>3. "save" \notin ToolDoes(t, kind) BY DEF ToolDoes
  <1>q. QED BY <1>1, <1>2, <1>3

\* The lists still fit, and where they are in a migration.
LEMMA GoesFits ==
  ASSUME IInv, NEW c \in Active, Goes(c), UNCHANGED called
  PROVE  /\ Fitting'
         /\ Active' \subseteq Active
         /\ \A d \in Active' \ {c} : call'[d] = call[d]
         /\ Stopping' \ Stopping \subseteq {c}
         /\ c \in Stopping' => call[c].tool = "move" /\ call[c].kind = "docker"
                               /\ call[c].todo = DockerRun
         /\ Deleting' \ Deleting \subseteq {c}
         /\ c \in Deleting' =>
              /\ call[c].tool = "move" /\ call[c].kind = "lxd"
              /\ call[c].todo = LxdCopy \/ (c \in Deleting /\ call[c].todo # Remove1)
  <1>0. /\ c \in Call /\ call[c] \in Running /\ Fits(call[c]) /\ call[c].todo # << >>
        /\ call[c].tool \in Removing => call[c].tool \in called
    BY HeadFits DEF IInv, Fitting, Fits
  <1>1. Active' \subseteq Active /\ \A d \in Active' \ {c} : call'[d] = call[d]
    BY <1>0 DEF Goes, Active
  <1>2. DockerMovePlan \notin List(ToolDoes(call[c].tool, call[c].kind)) BY OnlyMoves
  <1>3. ASSUME call'[c] # None, call[c].tool = "move", call[c].kind = "docker"
        PROVE  /\ call'[c].kind = "docker" =>
                    /\ call'[c].todo \in Early \cup Late
                    /\ call'[c].todo = Remove2 => call[c].todo = DockerRun
               /\ call'[c].kind # "docker" => call'[c].kind = "lxd" /\ call'[c].todo = LxdMovePlan
    <2>1. call[c].todo \in Early \cup Late BY <1>0, <1>3 DEF Fits
    <2>q. QED BY <1>3, <2>1, EarlyRest, MoveRest, MovesDiffer DEF Goes, Late
  <1>4. ASSUME call'[c] # None, call[c].tool = "move", call[c].kind = "lxd"
        PROVE  /\ call'[c].kind = "lxd"
               /\ call'[c].todo \in LxdLists
               /\ call'[c].todo \in {LxdStart, Remove2, Remove1} =>
                    call[c].todo = LxdCopy \/ call[c].todo \in {LxdStart, Remove2}
    <2>1. call[c].todo \in LxdLists BY <1>0, <1>4 DEF Fits
    <2>q. QED BY <1>4, <2>1, MoveRest, MovesDiffer DEF Goes, LxdLists
  <1>5. ASSUME call'[c] # None, call[c].tool # "move"
        PROVE  /\ call'[c].kind = call[c].kind /\ call'[c].tool # "move"
               /\ call'[c].todo \in List(ToolDoes(call'[c].tool, call'[c].kind))
               /\ call'[c].todo # << >>
    <2>1. call[c].todo \in List(ToolDoes(call[c].tool, call[c].kind)) BY <1>0, <1>5 DEF Fits
    <2>2. call[c].todo # DockerMovePlan BY <2>1, <1>2
    <2>3. /\ call'[c].tool = call[c].tool /\ call'[c].kind = call[c].kind
          /\ call'[c].todo = Tail(call[c].todo) /\ Len(call[c].todo) # 1
      BY <1>5, <2>2 DEF Goes
    <2>q. QED BY <1>0, <1>5, <2>1, <2>3, ListRest
  <1>6. call'[c] # None => /\ Fits(call'[c]) /\ call'[c] \in Running
                           /\ call'[c].tool \in Removing => call'[c].tool \in called
    <2>1. call'[c] # None => call'[c].tool = call[c].tool /\ call'[c] \in Running
      BY <1>0 DEF Goes
    <2>2. ASSUME call'[c] # None, call[c].tool = "move" PROVE Fits(call'[c])
      <3>1. call[c].kind \in {"docker", "lxd"} BY <1>0, <2>2 DEF Fits
      <3>2. CASE call[c].kind = "docker" BY <1>3, <2>1, <2>2, <3>2, MoveLists DEF Fits, LxdLists
      <3>3. CASE call[c].kind = "lxd" BY <1>4, <2>1, <2>2, <3>3, MoveLists DEF Fits
      <3>q. QED BY <3>1, <3>2, <3>3
    <2>3. ASSUME call'[c] # None, call[c].tool # "move" PROVE Fits(call'[c])
      BY <1>5, <2>3 DEF Fits
    <2>q. QED BY <1>0, <2>1, <2>2, <2>3
  <1>7. Fitting' BY <1>1, <1>6 DEF IInv, Fitting, Active
  <1>8. /\ Stopping' \ Stopping \subseteq {c} /\ Deleting' \ Deleting \subseteq {c}
    BY <1>1 DEF Stopping, Deleting
  <1>9. c \in Stopping' => call[c].tool = "move" /\ call[c].kind = "docker"
                           /\ call[c].todo = DockerRun
    <2> SUFFICES ASSUME c \in Stopping'
                 PROVE  call[c].tool = "move" /\ call[c].kind = "docker" /\ call[c].todo = DockerRun
      OBVIOUS
    <2>1. call'[c] # None /\ call'[c].tool = "move" /\ call'[c].kind = "docker"
          /\ call'[c].todo = Remove2
      BY DEF Stopping, Active
    <2>2. call[c].tool = "move" /\ call[c].kind \in {"docker", "lxd"}
      BY <2>1, <1>0 DEF Goes, Fits
    <2>q. QED BY <2>1, <2>2, <1>3, <1>4
  <1>10. c \in Deleting' =>
              /\ call[c].tool = "move" /\ call[c].kind = "lxd"
              /\ call[c].todo = LxdCopy \/ (c \in Deleting /\ call[c].todo # Remove1)
    <2> SUFFICES ASSUME c \in Deleting'
                 PROVE  /\ call[c].tool = "move" /\ call[c].kind = "lxd"
                        /\ call[c].todo = LxdCopy \/ (c \in Deleting /\ call[c].todo # Remove1)
      OBVIOUS
    <2>1. call'[c] # None /\ call'[c].tool = "move" /\ call'[c].kind = "lxd"
          /\ call'[c].todo \in {LxdStart, Remove2, Remove1}
      BY DEF Deleting, Active
    <2>2. call[c].tool = "move" /\ call[c].kind \in {"docker", "lxd"}
      BY <2>1, <1>0 DEF Goes, Fits
    <2>3. call[c].kind = "lxd" BY <2>1, <2>2, <1>3, MovesDiffer
    <2>q. QED BY <2>1, <2>2, <2>3, <1>4, MovesDiffer DEF Deleting
  <1>q. QED BY <1>1, <1>7, <1>8, <1>9, <1>10

-----------------------------------------------------------------------------
(* What the commands do to the machines.                                   *)

Typed ==
  /\ box \in [Platform -> [Host -> Box]]
  /\ image \in [Host -> Data \cup {None}]
  /\ archive \in [Host \cup {Local} -> Data \cup {None}]

LEMMA Boxes ==
  /\ \A b \in Box : b.up \in BOOLEAN /\ (b # Absent => b.data \in Data)
  /\ \A u \in BOOLEAN, d \in Data :
       /\ [up |-> u, data |-> d] \in Box /\ [up |-> u, data |-> d] # Absent
       /\ [up |-> u, data |-> d].up = u
  /\ \A b \in Box, u \in BOOLEAN : b # Absent =>
       /\ [b EXCEPT !.up = u] \in Box /\ [b EXCEPT !.up = u] # Absent
       /\ [b EXCEPT !.up = u].up = u
  /\ \A b \in Box :
       /\ [b EXCEPT !.data = Fresh] \in Box /\ [b EXCEPT !.data = Fresh] # Absent
       /\ [b EXCEPT !.data = Fresh].up = b.up
  /\ ~Absent.up /\ Absent \in Box
  <1>1. None \notin Data /\ Fresh \in Data BY HostAssumption DEF Data
  <1>2. Absent \in Box /\ ~Absent.up /\ Absent.up \in BOOLEAN BY DEF Box, Absent
  <1>3. ASSUME NEW u \in BOOLEAN, NEW d \in Data
        PROVE  /\ [up |-> u, data |-> d] \in Box /\ [up |-> u, data |-> d] # Absent
               /\ [up |-> u, data |-> d].up = u
    BY <1>1 DEF Box, Absent
  <1>4. ASSUME NEW b \in Box, b # Absent PROVE b \in [up : BOOLEAN, data : Data]
    BY <1>4 DEF Box
  <1>5. ASSUME NEW b \in Box PROVE b.up \in BOOLEAN /\ (b # Absent => b.data \in Data)
    BY <1>2, <1>4
  <1>6. ASSUME NEW b \in Box, NEW u \in BOOLEAN, b # Absent
        PROVE  /\ [b EXCEPT !.up = u] \in Box /\ [b EXCEPT !.up = u] # Absent
               /\ [b EXCEPT !.up = u].up = u
    <2>1. [b EXCEPT !.up = u] = [up |-> u, data |-> b.data] /\ b.data \in Data
      BY <1>4, <1>6
    <2>q. QED BY <2>1, <1>3
  <1>7. ASSUME NEW b \in Box
        PROVE  /\ [b EXCEPT !.data = Fresh] \in Box /\ [b EXCEPT !.data = Fresh] # Absent
               /\ [b EXCEPT !.data = Fresh].up = b.up
    <2>1. [b EXCEPT !.data = Fresh] = [up |-> b.up, data |-> Fresh]
      <3>1. CASE b = Absent
        <4>1. b \in [up : BOOLEAN, data : {None}] BY <3>1 DEF Absent
        <4>q. QED BY <4>1
      <3>2. CASE b # Absent BY <3>2, <1>4
      <3>q. QED BY <3>1, <3>2
    <2>2. b.up \in BOOLEAN BY <1>5
    <2>3. /\ [up |-> b.up, data |-> Fresh] \in Box /\ [up |-> b.up, data |-> Fresh] # Absent
          /\ [up |-> b.up, data |-> Fresh].up = b.up
      BY <2>2, <1>1, <1>3
    <2>q. QED BY <2>1, <2>3
  <1>q. QED BY <1>2, <1>3, <1>5, <1>6, <1>7

LEMMA Made ==
  ASSUME NEW u \in BOOLEAN, NEW d \in Data, NEW b, b = [up |-> u, data |-> d]
  PROVE  b \in Box /\ b # Absent /\ b.up = u
  BY HostAssumption DEF Box, Absent, Data

\* A box is changed at one machine.
LEMMA BoxSet ==
  ASSUME Typed, NEW p \in Platform, NEW h \in Host, NEW b \in Box,
         box' = [box EXCEPT ![p][h] = b]
  PROVE  /\ box' \in [Platform -> [Host -> Box]]
         /\ box'[p][h] = b
         /\ \A g \in Host \ {h} : box'[p][g] = box[p][g]
         /\ \A q \in Platform \ {p} : box'[q] = box[q]
  BY DEF Typed

\* What is needed of the change of a box for what is up and what is there.
LEMMA BoxCounts ==
  ASSUME Typed, NEW p \in Platform, NEW h \in Host, NEW b \in Box,
         box' = [box EXCEPT ![p][h] = b]
  PROVE  /\ p # "docker" => Up' = Up
         /\ p = "docker" /\ (box[p][h].up => b.up) => Up \subseteq Up'
         /\ p = "docker" => Up \ {h} \subseteq Up'
         /\ p = "docker" /\ b.up => h \in Up'
         /\ p # "lxd" => There' = There
         /\ p = "lxd" /\ (box[p][h] # Absent => b # Absent) => There \subseteq There'
         /\ p = "lxd" => There \ {h} \subseteq There'
         /\ p = "lxd" /\ b # Absent => h \in There'
  <1>1. "docker" \in Platform /\ "lxd" \in Platform /\ "docker" # "lxd" BY DEF Platform
  <1>2. /\ box'[p][h] = b
        /\ \A g \in Host \ {h} : box'[p][g] = box[p][g]
        /\ \A q \in Platform \ {p} : box'[q] = box[q]
    BY BoxSet
  <1>3. CASE p = "docker"
    <2>1. box'["lxd"] = box["lxd"] BY <1>1, <1>2, <1>3
    <2>q. QED BY <1>2, <1>3, <2>1 DEF Up, There
  <1>4. CASE p = "lxd"
    <2>1. box'["docker"] = box["docker"] BY <1>1, <1>2, <1>4
    <2>q. QED BY <1>2, <1>4, <2>1 DEF Up, There
  <1>5. CASE p \notin {"docker", "lxd"}
    <2>1. box'["docker"] = box["docker"] /\ box'["lxd"] = box["lxd"] BY <1>1, <1>2, <1>5
    <2>q. QED BY <1>5, <2>1 DEF Up, There
  <1>q. QED BY <1>3, <1>4, <1>5

LEMMA ContentsTyped ==
  ASSUME IInv, NEW c \in Active, Contents(c) # None PROVE Contents(c) \in Data
  <1>1. call[c].to \in Host BY HeadFits DEF Running
  <1>q. QED BY <1>1 DEF Contents, IInv, TypeOK, Data

LEMMA AfterTyped ==
  ASSUME IInv, NEW c \in Active, Possible(c)
  PROVE  /\ After(c) \in Box
         /\ Do(c) \notin {"stop", "rm", "rmforce"} => (Here(c).up => After(c).up)
         /\ Do(c) = "rm" => ~Here(c).up
         /\ Do(c) = "run" => ~Here(c).up /\ After(c).up
         /\ Do(c) \notin {"rm", "rmforce"} => (Here(c) # Absent => After(c) # Absent)
         /\ Do(c) = "copy" => Here(c) = Absent /\ After(c) # Absent
  <1>0. Here(c) \in Box /\ Do(c) \in Word /\ call[c] \in Running /\ ~Absent.up /\ Absent \in Box
    BY HeadFits, Boxes
  <1>1. CASE Do(c) \in {"stop", "start", "restart"}
    <2>1. Here(c) # Absent BY <1>1 DEF Possible
    <2>2. After(c) = [Here(c) EXCEPT !.up = Do(c) # "stop"]
      <3>1. CASE Do(c) = "stop" BY <3>1 DEF After
      <3>2. CASE Do(c) \in {"start", "restart"} BY <3>2 DEF After
      <3>q. QED BY <1>1, <3>1, <3>2
    <2>3. (Do(c) # "stop") \in BOOLEAN BY Zenon
    <2>4. After(c) \in Box /\ After(c) # Absent /\ (After(c).up <=> Do(c) # "stop")
      <3> DEFINE u == Do(c) # "stop"
      <3>1. u \in BOOLEAN /\ Here(c) \in Box BY <2>3, HeadFits
      <3>2. After(c) = [Here(c) EXCEPT !.up = u] BY <2>2
      <3> HIDE DEF u
      <3>3. After(c) \in Box /\ After(c) # Absent /\ After(c).up = u
        BY <2>1, <3>1, <3>2, Boxes
      <3>q. QED BY <3>3 DEF u
    <2>q. QED BY <1>1, <2>4
  <1>2. CASE Do(c) \in {"rm", "rmforce"}
    <2>1. After(c) = Absent BY <1>2 DEF After
    <2>2. Do(c) = "rm" => ~Here(c).up BY DEF Possible
    <2>q. QED BY <1>0, <1>2, <2>1, <2>2
  <1>3. CASE Do(c) = "run"
    <2>1. Here(c) = Absent /\ Contents(c) \in Data BY <1>3, ContentsTyped DEF Possible
    <2>2. After(c) = [up |-> TRUE, data |-> Contents(c)] BY <1>3 DEF After
    <2>3. After(c) \in Box /\ After(c).up = TRUE /\ After(c) # Absent BY <2>1, <2>2, Made
    <2>q. QED BY <1>0, <1>3, <2>1, <2>3
  <1>4. CASE Do(c) = "copy"
    <2>1. Here(c) = Absent /\ box[call[c].kind][call[c].from] # Absent BY <1>4 DEF Possible
    <2>2. box[call[c].kind][call[c].from] \in Box
      <3>1. call[c].from \in Host /\ call[c].kind \in Platform BY <1>0 DEF Running
      <3>q. QED BY <3>1 DEF IInv, TypeOK
    <2>3. After(c) = [up |-> FALSE, data |-> box[call[c].kind][call[c].from].data]
      BY <1>4 DEF After
    <2>4. box[call[c].kind][call[c].from].data \in Data BY <2>1, <2>2, Boxes
    <2>5. After(c) \in Box /\ After(c) # Absent BY <2>3, <2>4, Made
    <2>q. QED BY <1>0, <1>4, <2>1, <2>5
  <1>5. CASE Do(c) = "write"
    <2>1. After(c) = [Here(c) EXCEPT !.data = Fresh] BY <1>5 DEF After
    <2>2. After(c) \in Box /\ After(c) # Absent /\ After(c).up = Here(c).up
      BY <1>0, <2>1, Boxes
    <2>q. QED BY <1>5, <2>2
  <1>6. CASE Do(c) \in {"read", "critical", "free", "inspect", "commit", "save", "get", "put",
                        "load"}
    <2>1. After(c) = Here(c) BY <1>6 DEF After
    <2>q. QED BY <1>0, <1>6, <2>1
  <1>q. QED BY <1>0, <1>1, <1>2, <1>3, <1>4, <1>5, <1>6 DEF Word

LEMMA Performs ==
  ASSUME IInv, NEW c \in Active, Possible(c), Perform(c)
  PROVE  /\ Typed' /\ box' = [box EXCEPT ![call[c].kind][At(c)] = After(c)]
  <1> USE HeadFits DEF IInv, TypeOK
  <1>1. box' = [box EXCEPT ![call[c].kind][At(c)] = After(c)] BY DEF Perform
  <1>2. box' \in [Platform -> [Host -> Box]] BY <1>1, AfterTyped, BoxSet DEF Typed
  <1>3. image' \in [Host -> Data \cup {None}]
    <2>1. CASE Do(c) = "commit"
      <3>1. Here(c) # Absent BY <2>1 DEF Possible
      <3>2. Here(c).data \in Data BY <3>1, Boxes
      <3>3. image' = [image EXCEPT ![At(c)] = Here(c).data] BY <2>1 DEF Perform
      <3>q. QED BY <3>2, <3>3
    <2>2. CASE Do(c) = "load"
      <3>1. image' = [image EXCEPT ![At(c)] = archive[At(c)]] BY <2>2 DEF Perform
      <3>q. QED BY <3>1
    <2>3. CASE Do(c) \notin {"commit", "load"} BY <2>3 DEF Perform
    <2>q. QED BY <2>1, <2>2, <2>3
  <1>4. archive' \in [Host \cup {Local} -> Data \cup {None}]
    <2>1. CASE Do(c) = "save"
      <3>1. archive' = [archive EXCEPT ![At(c)] = image[At(c)]] BY <2>1 DEF Perform
      <3>q. QED BY <3>1
    <2>2. CASE Do(c) = "get"
      <3>1. archive' = [archive EXCEPT ![Local] = archive[At(c)]] BY <2>2 DEF Perform
      <3>q. QED BY <3>1
    <2>3. CASE Do(c) = "put"
      <3>1. archive' = [archive EXCEPT ![At(c)] = archive[Local]] BY <2>3 DEF Perform
      <3>q. QED BY <3>1
    <2>4. CASE Do(c) \notin {"save", "get", "put"} BY <2>4 DEF Perform
    <2>q. QED BY <2>1, <2>2, <2>3, <2>4
  <1>q. QED BY <1>1, <1>2, <1>3, <1>4 DEF Typed

\* A command that fails takes nothing away.
LEMMA RemainsCounts ==
  ASSUME IInv, NEW c \in Active, Remains(c)
  PROVE  Typed' /\ Up \subseteq Up' /\ There \subseteq There'
  <1> USE HeadFits DEF IInv
  <1>0. Typed BY DEF TypeOK, Typed
  <1>1. CASE UNCHANGED lab
    <2>1. UNCHANGED <<box, image, archive>> BY <1>1 DEF lab
    <2>q. QED BY <2>1, <1>0 DEF Typed, Up, There
  <1>2. CASE /\ Do(c) = "run" /\ Possible(c)
             /\ box' = [box EXCEPT ![call[c].kind][At(c)] = [up |-> FALSE, data |-> Contents(c)]]
             /\ UNCHANGED <<image, archive>>
    <2>1. Contents(c) \in Data /\ Here(c) = Absent BY <1>2, ContentsTyped DEF Possible
    <2>2. [up |-> FALSE, data |-> Contents(c)] \in Box
          /\ [up |-> FALSE, data |-> Contents(c)] # Absent
      BY <2>1, Boxes
    <2> DEFINE b == [up |-> FALSE, data |-> Contents(c)]
    <2>3. b \in Box /\ b # Absent /\ box' = [box EXCEPT ![call[c].kind][At(c)] = b]
          /\ ~box[call[c].kind][At(c)].up
      BY <1>2, <2>1, <2>2, Boxes DEF Here
    <2> HIDE DEF b
    <2>4. Typed' BY <1>0, <1>2, <2>3, BoxSet DEF Typed
    <2>5. Up \subseteq Up' /\ There \subseteq There' BY <1>0, <2>3, BoxCounts
    <2>q. QED BY <2>4, <2>5
  <1>3. CASE /\ Do(c) = "save"
             /\ archive' = [archive EXCEPT ![At(c)] = None]
             /\ UNCHANGED <<box, image>>
    BY <1>0, <1>3 DEF Typed, Up, There
  <1>q. QED BY <1>1, <1>2, <1>3 DEF Remains


-----------------------------------------------------------------------------
(* Steps keep the count.                                                   *)

\* What a step has to show of the machines where the service is up, and of those
\* where the container is, for the count to be kept.
KeepsUp(c) ==
  called = {} =>
    \/ Up \subseteq Up'
    \/ c \in Stopping /\ Up \ {At(c)} \subseteq Up'
KeepsThere(c) ==
  "vm_remove" \notin called =>
    \/ There \subseteq There'
    \/ c \in Deleting /\ c \notin Deleting' /\ There \ {At(c)} \subseteq There'

\* What one that has come close to the removal has to show besides.
Adds(c) ==
  /\ c \in Stopping' => Up \cup {At(c)} \subseteq Up' /\ At(c) \notin Up
  /\ c \in Deleting' \ Deleting => There \cup {At(c)} \subseteq There' /\ At(c) \notin There


LEMMA Counted ==
  ASSUME IInv, NEW c \in Active, Goes(c), UNCHANGED called, Typed',
         KeepsUp(c), KeepsThere(c), Adds(c)
  PROVE  IInv'
  <1>1. TypeOK' BY DEF IInv, TypeOK, Goes, Typed
  <1>2. /\ Fitting' /\ Active' \subseteq Active
        /\ Stopping' \ Stopping \subseteq {c}
        /\ c \in Stopping' => call[c].todo = DockerRun
        /\ Deleting' \ Deleting \subseteq {c}
    BY GoesFits
  <1>3. /\ IsFiniteSet(Up') /\ IsFiniteSet(There')
    <2>1. Up' \subseteq Host /\ There' \subseteq Host BY DEF Up, There
    <2>q. QED BY <2>1, FS_Subset, HostAssumption
  <1>4. ASSUME called = {} PROVE Fewer(Stopping', Up')
    <2>0. Fewer(Stopping, Up) BY <1>4 DEF IInv
    <2>1. CASE c \in Stopping'
      <3>1. Up \cup {At(c)} \subseteq Up' /\ At(c) \notin Up BY <2>1 DEF Adds
      <3>2. Stopping' \subseteq Stopping \cup {c} BY <1>2
      <3>q. QED BY <2>0, <3>1, <3>2, <1>3, OneMore
    <2>2. CASE c \notin Stopping'
      <3>1. Stopping' \subseteq Stopping \ {c} BY <2>2, <1>2
      <3>2. CASE Up \subseteq Up' BY <2>0, <3>1, <3>2, <1>3, Still
      <3>3. CASE c \in Stopping /\ Up \ {At(c)} \subseteq Up'
        <4> DEFINE h == At(c)
        <4>1. c \in Stopping /\ Up \ {h} \subseteq Up' BY <3>3
        <4>2. Stopping' \in SUBSET (Stopping \ {c}) BY <3>1
        <4>3. Fewer(Stopping \ {c}, Up \ {h}) BY <2>0, <4>1, OneLess
        <4> HIDE DEF h
        <4>q. QED BY <4>1, <4>2, <4>3, <1>3, Still
      <3>q. QED BY <3>2, <3>3, <1>4 DEF KeepsUp
    <2>q. QED BY <2>1, <2>2
  <1>5. ASSUME "vm_remove" \notin called PROVE Fewer(Deleting', There')
    <2>0. Fewer(Deleting, There) BY <1>5 DEF IInv
    <2>1. CASE c \in Deleting' \ Deleting
      <3>1. There \cup {At(c)} \subseteq There' /\ At(c) \notin There BY <2>1 DEF Adds
      <3>2. Deleting' \subseteq Deleting \cup {c} BY <1>2
      <3>q. QED BY <2>0, <3>1, <3>2, <1>3, OneMore
    <2>2. CASE c \notin Deleting' \ Deleting
      <3>1. Deleting' \subseteq Deleting BY <2>2, <1>2
      <3>2. CASE There \subseteq There' BY <2>0, <3>1, <3>2, <1>3, Still
      <3>3. CASE c \in Deleting /\ c \notin Deleting' /\ There \ {At(c)} \subseteq There'
        <4>2. Deleting' \in SUBSET (Deleting \ {c}) BY <3>1, <3>3
        <4> DEFINE h == At(c)
        <4>3. c \in Deleting /\ There \ {h} \subseteq There' BY <3>3
        <4>4. Fewer(Deleting \ {c}, There \ {h}) BY <2>0, <4>3, OneLess
        <4> HIDE DEF h
        <4>q. QED BY <4>2, <4>3, <4>4, <1>3, Still
      <3>q. QED BY <3>2, <3>3, <1>5 DEF KeepsThere
    <2>q. QED BY <2>1, <2>2
  <1>q. QED BY <1>1, <1>2, <1>4, <1>5 DEF IInv

LEMMA Heads ==
  ASSUME IInv, NEW c \in Active
  PROVE  /\ call[c].tool \in Removing => call[c].tool \in called
         /\ call[c].tool \notin {"move", "update", "vm_control", "vm_remove"}
              /\ call[c].kind = "docker" => Do(c) \in {"run", "free", "read", "critical"}
         /\ call[c].tool \notin {"move", "vm_remove"} /\ call[c].kind = "lxd" =>
              Do(c) \in {"run", "free", "start", "stop", "restart"}
         /\ call[c].tool = "move" /\ call[c].kind = "docker" =>
              Do(c) \in Gentle \cup {"run", "rm"} \/ c \in Stopping
         /\ call[c].tool = "move" /\ call[c].kind = "lxd" =>
              \/ Do(c) \in {"inspect", "copy", "start", "stop", "read"}
              \/ c \in Deleting /\ call[c].todo = Remove1
         /\ call[c].todo = DockerRun => Do(c) = "run" /\ Head(call[c].todo).must
         /\ call[c].todo = LxdCopy => Do(c) = "copy" /\ Head(call[c].todo).must
  <1>0. /\ call[c] \in Running /\ Fits(call[c]) /\ call[c].todo # << >>
        /\ call[c].tool \in Removing => call[c].tool \in called
    BY HeadFits DEF IInv, Fitting, Fits
  <1>c. \A d, o : /\ Must(d, o).do = d /\ Try(d, o).do = d /\ Must(d, o).must = TRUE
    BY DEF Must, Try
  <1>1. ASSUME call[c].tool # "move" PROVE Do(c) \in ToolDoes(call[c].tool, call[c].kind)
    <2>1. call[c].todo \in List(ToolDoes(call[c].tool, call[c].kind)) BY <1>0, <1>1 DEF Fits
    <2>2. Head(call[c].todo) \in [do : ToolDoes(call[c].tool, call[c].kind), on : {"from", "to"},
                                  must : BOOLEAN]
      BY <2>1, <1>0, ListRest
    <2>q. QED BY <2>2 DEF Do
  <1>2. call[c].todo = DockerRun => Do(c) = "run" /\ Head(call[c].todo).must
    BY <1>c, MoveRest DEF Do
  <1>3. call[c].todo = LxdCopy => Do(c) = "copy" /\ Head(call[c].todo).must
    BY <1>c, MoveRest DEF Do
  <1>4. ASSUME call[c].tool = "move", call[c].kind = "docker"
        PROVE  Do(c) \in Gentle \cup {"run", "rm"} \/ c \in Stopping
    <2>1. call[c].todo \in Early \cup Late BY <1>0, <1>4 DEF Fits
    <2>2. CASE call[c].todo \in Early BY <2>2, EarlyRest DEF Do
    <2>3. CASE call[c].todo = DockerRun BY <2>3, <1>2
    <2>4. CASE call[c].todo = Remove2 BY <2>4, <1>4 DEF Stopping
    <2>5. CASE call[c].todo = Remove1
      <3>1. Do(c) = "rm" BY <2>5, <1>c, MoveRest DEF Do
      <3>q. QED BY <3>1
    <2>6. CASE call[c].todo = LeavePlan BY <2>6, LastWords DEF Do, Gentle
    <2>q. QED BY <2>1, <2>2, <2>3, <2>4, <2>5, <2>6 DEF Late
  <1>5. ASSUME call[c].tool = "move", call[c].kind = "lxd"
        PROVE  \/ Do(c) \in {"inspect", "copy", "start", "stop", "read"}
               \/ c \in Deleting /\ call[c].todo = Remove1
    <2>1. call[c].todo \in LxdLists BY <1>0, <1>5 DEF Fits
    <2>2. CASE call[c].todo = LxdMovePlan
      <3>1. Do(c) = "inspect" BY <2>2, <1>c, MoveRest DEF Do
      <3>q. QED BY <3>1
    <2>3. CASE call[c].todo = LxdCopy BY <2>3, <1>3
    <2>4. CASE call[c].todo = LxdStart
      <3>1. Do(c) = "start" BY <2>4, <1>c, MoveRest DEF Do
      <3>q. QED BY <3>1
    <2>5. CASE call[c].todo = Remove2
      <3>1. Do(c) = "stop" BY <2>5, <1>c, MoveRest DEF Do
      <3>q. QED BY <3>1
    <2>6. CASE call[c].todo = Remove1 BY <2>6, <1>5 DEF Deleting
    <2>7. CASE call[c].todo = LeavePlan BY <2>7, LastWords DEF Do
    <2>q. QED BY <2>1, <2>2, <2>3, <2>4, <2>5, <2>6, <2>7 DEF LxdLists
  <1>q. QED BY <1>0, <1>1, <1>2, <1>3, <1>4, <1>5 DEF ToolDoes

\* What a call knows once its next command worked.
LEMMA Learns ==
  ASSUME IInv, NEW c \in Active, Possible(c), NEW r,
         r = IF Do(c) = "inspect" THEN [call[c] EXCEPT !.want = Here(c).data] ELSE call[c]
  PROVE  r \in Running /\ r.tool = call[c].tool /\ r.kind = call[c].kind /\ r.todo = call[c].todo
  <1>1. Here(c) \in Box /\ call[c] \in Running BY HeadFits
  <1>2. CASE Do(c) = "inspect"
    <2>1. Here(c) # Absent BY <1>2 DEF Possible
    <2>2. Here(c).data \in Data BY <1>1, <2>1, Boxes
    <2>q. QED BY <1>1, <1>2, <2>2 DEF Running
  <1>3. CASE Do(c) # "inspect" BY <1>1, <1>3
  <1>q. QED BY <1>2, <1>3

LEMMA Works ==
  ASSUME IInv, NEW c \in Active, CommandWorks(c), UNCHANGED called PROVE IInv'
  <1>0. c \in Call /\ call[c] \in Running /\ call[c].kind \in Platform /\ At(c) \in Host
        /\ Here(c) \in Box
    BY HeadFits
  <1> DEFINE r == IF Do(c) = "inspect" THEN [call[c] EXCEPT !.want = Here(c).data] ELSE call[c]
  <1>1. Possible(c) /\ Perform(c) /\ GoOn(c, r) BY DEF CommandWorks
  <1>2. r \in Running /\ r.tool = call[c].tool /\ r.kind = call[c].kind /\ r.todo = call[c].todo
    BY <1>1, Learns
  <1> HIDE DEF r
  <1>3. Goes(c) BY <1>1, <1>2, CallGoesOn
  <1>4. Typed' /\ box' = [box EXCEPT ![call[c].kind][At(c)] = After(c)] BY <1>1, Performs
  <1>5. Typed BY DEF IInv, TypeOK, Typed
  <1>a. After(c) \in Box BY <1>1, AfterTyped
  <1>6. KeepsUp(c)
    <2> SUFFICES ASSUME called = {}
                 PROVE  Up \subseteq Up' \/ (c \in Stopping /\ Up \ {At(c)} \subseteq Up')
      BY DEF KeepsUp
    <2>1. CASE call[c].kind # "docker" BY <2>1, <1>0, <1>a, <1>4, <1>5, BoxCounts
    <2>2. CASE call[c].kind = "docker" /\ c \in Stopping
      BY <2>2, <1>0, <1>a, <1>4, <1>5, BoxCounts
    <2>3. CASE call[c].kind = "docker" /\ c \notin Stopping
      <3>1. call[c].tool \notin {"update", "vm_control", "vm_remove"} BY Heads DEF Removing
      <3>2. Do(c) \in Gentle \cup {"run", "rm", "free", "read", "critical"}
        BY <2>3, <3>1, Heads
      <3>3. Here(c).up => After(c).up
        BY <3>2, <1>1, AfterTyped DEF Gentle
      <3>q. QED BY <2>3, <3>3, <1>0, <1>a, <1>4, <1>5, BoxCounts DEF Here
    <2>q. QED BY <2>1, <2>2, <2>3
  <1>7. KeepsThere(c)
    <2> SUFFICES ASSUME "vm_remove" \notin called
                 PROVE  \/ There \subseteq There'
                        \/ c \in Deleting /\ c \notin Deleting' /\ There \ {At(c)} \subseteq There'
      BY DEF KeepsThere
    <2>1. CASE call[c].kind # "lxd" BY <2>1, <1>0, <1>a, <1>4, <1>5, BoxCounts
    <2>2. CASE call[c].kind = "lxd" /\ c \in Deleting /\ call[c].todo = Remove1
      <3>2. c \notin Deleting' BY <2>2, <1>3, GoesFits, MovesDiffer
      <3>q. QED BY <2>2, <3>2, <1>0, <1>a, <1>4, <1>5, BoxCounts
    <2>3. CASE call[c].kind = "lxd" /\ ~(c \in Deleting /\ call[c].todo = Remove1)
      <3>1. Do(c) \notin {"rm", "rmforce"} BY <2>3, Heads DEF Removing
      <3>2. Here(c) # Absent => After(c) # Absent BY <3>1, <1>1, AfterTyped
      <3>q. QED BY <2>3, <3>2, <1>0, <1>a, <1>4, <1>5, BoxCounts DEF Here
    <2>q. QED BY <2>1, <2>2, <2>3
  <1>8. Adds(c)
    <2>1. ASSUME c \in Stopping' PROVE Up \cup {At(c)} \subseteq Up' /\ At(c) \notin Up
      <3>1. call[c].kind = "docker" /\ call[c].todo = DockerRun BY <2>1, <1>3, GoesFits
      <3>2. Do(c) = "run" BY <3>1, Heads
      <3>3. ~Here(c).up /\ After(c).up BY <3>2, <1>1, AfterTyped
      <3>4. Up \subseteq Up' /\ At(c) \in Up'
        BY <3>1, <3>3, <1>0, <1>a, <1>4, <1>5, BoxCounts
      <3>q. QED BY <3>1, <3>3, <3>4 DEF Up, Here
    <2>2. ASSUME c \in Deleting' \ Deleting
          PROVE  There \cup {At(c)} \subseteq There' /\ At(c) \notin There
      <3>1. call[c].kind = "lxd" /\ call[c].todo = LxdCopy BY <2>2, <1>3, GoesFits
      <3>2. Do(c) = "copy" BY <3>1, Heads
      <3>3. Here(c) = Absent /\ After(c) # Absent BY <3>2, <1>1, AfterTyped
      <3>4. There \subseteq There' /\ At(c) \in There'
        BY <3>1, <3>3, <1>0, <1>a, <1>4, <1>5, BoxCounts
      <3>q. QED BY <3>1, <3>3, <3>4 DEF There, Here
    <2>q. QED BY <2>1, <2>2 DEF Adds
  <1>q. QED BY <1>3, <1>4, <1>6, <1>7, <1>8, Counted

\* A call that ends, or leaves the device, and takes nothing away, keeps the count.
LEMMA Stops ==
  ASSUME IInv, NEW c \in Active, Goes(c), call'[c] = None \/ call'[c].todo = LeavePlan,
         UNCHANGED called, Typed', Up \subseteq Up', There \subseteq There'
  PROVE  IInv'
  <1>1. c \notin Stopping' /\ c \notin Deleting' BY MovesDiffer DEF Stopping, Deleting, Active
  <1>q. QED BY <1>1, Counted DEF KeepsUp, KeepsThere, Adds

LEMMA Fails ==
  ASSUME IInv, NEW c \in Active, CommandFails(c), UNCHANGED called PROVE IInv'
  <1>1. Typed' /\ Up \subseteq Up' /\ There \subseteq There'
    BY RemainsCounts DEF CommandFails
  <1>2. CASE Head(call[c].todo).must /\ Do(c) # "save"
    <2>1. GiveUp(c) BY <1>2 DEF CommandFails
    <2>q. QED BY <1>1, <2>1, GivesUp, Stops
  <1>3. CASE ~(Head(call[c].todo).must /\ Do(c) # "save")
    <2> DEFINE r == [call[c] EXCEPT !.slipped = TRUE]
    <2>1. GoOn(c, r) BY <1>3 DEF CommandFails
    <2>2. r \in Running /\ r.tool = call[c].tool /\ r.kind = call[c].kind /\ r.todo = call[c].todo
      BY HeadFits DEF Running
    <2> HIDE DEF r
    <2>3. Goes(c) BY <2>1, <2>2, CallGoesOn
    <2>4. call[c].todo # DockerRun /\ call[c].todo # LxdCopy BY <1>3, Heads
    <2>5. c \notin Stopping' /\ (c \in Deleting' => c \in Deleting) BY <2>3, <2>4, GoesFits
    <2>q. QED BY <1>1, <2>3, <2>5, Counted DEF KeepsUp, KeepsThere, Adds
  <1>q. QED BY <1>2, <1>3

LEMMA Others ==
  ASSUME IInv, NEW c \in Active, Refuse(c) \/ FallBack(c) \/ LoseConnection(c) \/ CutOff(c),
         UNCHANGED called
  PROVE  IInv'
  <1>1. UNCHANGED <<box, image, archive>> BY DEF Refuse, FallBack, LoseConnection, CutOff, lab
  <1>2. Typed' /\ Up \subseteq Up' /\ There \subseteq There'
    BY <1>1 DEF IInv, TypeOK, Typed, Up, There
  <1>e. ASSUME NEW how \in {"error", "timeout"}, End(c, how) PROVE IInv'
    BY <1>2, <1>e, Ends, Stops
  <1>3. CASE Refuse(c) BY <1>3, <1>e DEF Refuse
  <1>6. CASE LoseConnection(c) BY <1>2, <1>6, GivesUp, Stops DEF LoseConnection
  <1>4. CASE CutOff(c)
    <2>1. CASE End(c, "timeout") BY <2>1, <1>e
    <2>2. CASE report' = [report EXCEPT ![c] = "timeout"] /\ UNCHANGED call
      <3>1. Active' = Active BY <2>2 DEF Active
      <3>2. report' \in [Call -> {"none", "success", "error", "timeout"}]
        BY <2>2 DEF IInv, TypeOK
      <3>3. TypeOK' /\ Fitting'
        BY <1>1, <2>2, <3>1, <3>2 DEF IInv, TypeOK, Fitting
      <3>4. Up' = Up /\ There' = There /\ Stopping' = Stopping /\ Deleting' = Deleting
        BY <1>1, <2>2, <3>1 DEF Up, There, Stopping, Deleting
      <3>q. QED BY <3>3, <3>4 DEF IInv, Fewer
    <2>q. QED BY <1>4, <2>1, <2>2 DEF CutOff
  <1>5. CASE FallBack(c)
    <2> DEFINE r == [call[c] EXCEPT !.kind = "lxd", !.todo = LxdMovePlan]
    <2>0. c \in Call /\ call[c] \in Running BY HeadFits
    <2>1. call[c].todo = DockerMovePlan /\ call' = [call EXCEPT ![c] = r] /\ UNCHANGED report
      BY <1>5, <2>0 DEF FallBack, IInv, TypeOK
    <2>2. LxdMovePlan \in Seq(Command) BY MoveLists DEF List, Command, LxdLists
    <2>3. /\ r \in Running /\ r.tool = call[c].tool /\ r.kind = "lxd" /\ r.todo = LxdMovePlan
      BY <2>0, <2>2 DEF Running, Platform
    <2> HIDE DEF r
    <2>4. Goes(c) BY <2>0, <2>1, <2>3 DEF Goes, IInv, TypeOK
    <2>5. call'[c] = r BY <2>0, <2>1 DEF IInv, TypeOK
    <2>6. c \notin Stopping' /\ c \notin Deleting'
      BY <2>3, <2>5, MovesDiffer DEF Stopping, Deleting
    <2>q. QED BY <1>2, <2>4, <2>6, Counted DEF KeepsUp, KeepsThere, Adds
  <1>q. QED BY <1>3, <1>4, <1>5, <1>6

LEMMA Invariance == IInv /\ [Next]_vars => IInv'
  <1> SUFFICES ASSUME IInv, [Next]_vars PROVE IInv' OBVIOUS
  <1>1. CASE UNCHANGED vars
    <2>1. UNCHANGED <<box, image, archive, call, report, called>> BY <1>1 DEF vars, lab
    <2>2. Active' = Active BY <2>1 DEF Active
    <2>3. TypeOK' /\ Fitting' BY <2>1, <2>2 DEF IInv, TypeOK, Fitting
    <2>4. Up' = Up /\ There' = There /\ Stopping' = Stopping /\ Deleting' = Deleting
      BY <2>1, <2>2 DEF Up, There, Stopping, Deleting
    <2>q. QED BY <2>1, <2>3, <2>4 DEF IInv, Fewer
  <1>2. ASSUME NEW c \in Call, Step(c) PROVE IInv'
    <2>1. c \in Active /\ UNCHANGED called BY <1>2 DEF Step, Active
    <2>2. CASE CommandWorks(c) BY <2>1, <2>2, Works
    <2>3. CASE CommandFails(c) BY <2>1, <2>3, Fails
    <2>4. CASE Refuse(c) \/ FallBack(c) \/ LoseConnection(c) \/ CutOff(c)
      BY <2>1, <2>4, Others
    <2>q. QED BY <1>2, <2>2, <2>3, <2>4 DEF Step
  <1>q. QED BY <1>1, <1>2, Begins DEF Next

\* A set that outnumbers another is not empty.
LEMMA SomeLeft ==
  ASSUME NEW S, NEW T, Fewer(S, T) PROVE T # {}
  <1>1. Cardinality(S) \in Nat /\ Cardinality({}) = 0 BY FS_CardinalityType, FS_EmptySet DEF Fewer
  <1>q. QED BY <1>1 DEF Fewer

\* The machines, images, archives and calls are what they are declared to be.
THEOREM TypeCorrect == Spec => []TypeOK
  <1>1. IInv => TypeOK BY DEF IInv
  <1>q. QED BY <1>1, InvInit, Invariance, PTL DEF Spec

\* However many migrations run, fail and are cut off, in whatever order, a Docker
\* service is up somewhere and an LXD container is somewhere, unless a tool was
\* called whose purpose is to stop, replace or remove it.
THEOREM MigrationsLoseNothing == Spec => []MigrationLosesNothing
  <1>1. IInv => MigrationLosesNothing BY SomeLeft DEF IInv, MigrationLosesNothing, Up, There
  <1>q. QED BY <1>1, InvInit, Invariance, PTL DEF Spec

-----------------------------------------------------------------------------
(* What a call that was alone knows.                                       *)

\* A call that runs has not reported, but for one that was cut off and left a command
\* behind; and one that met no other is alone.
Reports == \A c \in Active : report[c] \in {"none", "timeout"}
Alone == \A c \in Active : call[c].shared \/ Active = {c}

\* The tools whose last command starts the service, and what it is.
Starting == {"deploy", "update", "vm_deploy"}
Final(s) == s[Len(s)]
StartsLast(r) ==
  r.tool \in Starting =>
    /\ r.from = r.to
    /\ Final(r.todo) \in {Must("run", "from"), Must("start", "from")}

\* Where the contents that a migration found have arrived.
Brought(r) ==
  /\ r.todo = Commit => box["docker"][r.from].data = r.want
  /\ r.todo = Save => image[r.from] = r.want
  /\ r.todo = Get => archive[r.from] = r.want
  /\ r.todo = Put => archive[Local] = r.want
  /\ r.todo = Load => archive[r.to] = r.want
  /\ r.todo = DockerRun => image[r.to] = r.want

\* What a migration of a Docker container that met no other call can rely on: the
\* container it found is there until it has run another, which is elsewhere.
Moved(r) ==
  r.tool = "move" /\ r.kind = "docker" /\ ~r.shared =>
    /\ r.todo \in {Commit, Save, Get, Put, Load, DockerRun} => box["docker"][r.from] # Absent
    /\ r.todo \in {Remove2, Remove1} \/ (r.todo = LeavePlan /\ ~r.failed)
         => box["docker"][r.to].up /\ r.from # r.to
    /\ r.slipped \/ Brought(r)

Known == \A c \in Active : StartsLast(call[c]) /\ Moved(call[c])

RInv == IInv /\ Reports /\ Alone /\ Known

LEMMA FinalRest ==
  ASSUME NEW S, NEW s \in Seq(S), s # << >>
  PROVE  /\ Len(s) = 1 => Final(s) = Head(s)
         /\ Len(s) # 1 => Final(Tail(s)) = Final(s)
  <1>1. Len(s) \in Nat \ {0} BY EmptySeq
  <1>2. Tail(s) \in Seq(S) /\ Len(Tail(s)) = Len(s) - 1 BY HeadTailProperties
  <1>3. CASE Len(s) = 1 BY <1>3 DEF Final
  <1>4. CASE Len(s) # 1
    <2>1. Len(s) - 1 \in 1..Len(Tail(s)) BY <1>1, <1>2, <1>4
    <2>2. Tail(s)[Len(s) - 1] = s[Len(s)] BY <2>1, <1>1, <1>2
    <2>q. QED BY <2>2, <1>2, <1>4 DEF Final
  <1>q. QED BY <1>3, <1>4

LEMMA FinalMixed ==
  ASSUME NEW S, NEW s \in Seq(S), NEW t \in Seq(S), t # << >>
  PROVE  Final(s \o t) = Final(t)
  <1>1. Len(t) \in Nat \ {0} /\ Len(s) \in Nat BY EmptySeq
  <1>2. Len(s \o t) = Len(s) + Len(t) BY ConcatProperties
  <1>3. (s \o t)[Len(s) + Len(t)] = t[Len(t)] BY <1>1, <1>2
  <1>q. QED BY <1>2, <1>3 DEF Final

\* What follows is known when its command is: a call goes on, as r, or ends.
LEMMA FollowsOn ==
  ASSUME IInv, NEW c \in Active, NEW r \in Running, GoOn(c, r), r.tool = call[c].tool,
         r.todo = call[c].todo
  PROVE  /\ \A d \in Call \ {c} : call'[d] = call[d] /\ report'[d] = report[d]
         /\ \/ /\ call'[c] = None
               /\ report'[c] = "success" /\ report[c] = "none" => Rest(call[c]) = << >>
            \/ /\ Rest(call[c]) # << >> /\ report'[c] = report[c] /\ call'[c] # None
               /\ call'[c] = [r EXCEPT !.todo = Rest(call[c])]
  <1>0. c \in Call BY HeadFits
  <1>1. Rest(r) = Rest(call[c]) BY DEF Rest
  <1>2. CASE Rest(r) = << >> \/ report[c] # "none"
    BY <1>0, <1>1, <1>2 DEF GoOn, End, IInv, TypeOK
  <1>3. CASE ~(Rest(r) = << >> \/ report[c] # "none")
    <2>1. call' = [call EXCEPT ![c] = [r EXCEPT !.todo = Rest(r)]] /\ UNCHANGED report
      BY <1>3 DEF GoOn
    <2>2. call'[c] = [r EXCEPT !.todo = Rest(call[c])]
          /\ \A d \in Call \ {c} : call'[d] = call[d]
      BY <2>1, <1>0, <1>1 DEF IInv, TypeOK
    <2>3. r.todo # << >> BY HeadFits DEF Fits
    <2>4. [r EXCEPT !.todo = Rest(call[c])] \in Running BY <2>3, <1>1, RestOf DEF Running
    <2>5. call'[c] # None BY <2>2, <2>4, NoneIsNoCall
    <2>q. QED BY <2>1, <2>2, <2>5, <1>1, <1>3
  <1>q. QED BY <1>2, <1>3

\* A command that works: the call ends, or goes on with what follows.
LEMMA WorksOn ==
  ASSUME IInv, NEW c \in Active, CommandWorks(c)
  PROVE  /\ \A d \in Call \ {c} : call'[d] = call[d] /\ report'[d] = report[d]
         /\ \/ /\ call'[c] = None
               /\ report'[c] = "success" /\ report[c] = "none" => Rest(call[c]) = << >>
            \/ /\ Rest(call[c]) # << >> /\ report'[c] = report[c] /\ call'[c] # None
               /\ call'[c] = [call[c] EXCEPT
                    !.todo = Rest(call[c]),
                    !.want = IF Do(c) = "inspect" THEN Here(c).data ELSE @]
  <1>0. c \in Call /\ call[c] \in Running BY HeadFits
  <1> DEFINE r == IF Do(c) = "inspect" THEN [call[c] EXCEPT !.want = Here(c).data] ELSE call[c]
  <1>1. GoOn(c, r) BY DEF CommandWorks
  <1>2. r \in Running /\ r.tool = call[c].tool /\ r.todo = call[c].todo
    BY Learns DEF CommandWorks
  <1>3. [r EXCEPT !.todo = Rest(call[c])]
          = [call[c] EXCEPT !.todo = Rest(call[c]),
                            !.want = IF Do(c) = "inspect" THEN Here(c).data ELSE @]
    <2>1. CASE Do(c) = "inspect" BY <2>1, <1>0 DEF Running
    <2>2. CASE Do(c) # "inspect" BY <2>2, <1>0 DEF Running
    <2>q. QED BY <2>1, <2>2
  <1> HIDE DEF r
  <1>q. QED BY <1>1, <1>2, <1>3, FollowsOn

\* A command that fails: the call ends, leaves the device and says so, or goes on and
\* remembers it.
LEMMA FailsOn ==
  ASSUME IInv, NEW c \in Active, CommandFails(c)
  PROVE  /\ \A d \in Call \ {c} : call'[d] = call[d] /\ report'[d] = report[d]
         /\ \/ /\ call'[c] = None
               /\ report'[c] = "success" /\ report[c] = "none" =>
                    Rest(call[c]) = << >> /\ ~(Head(call[c].todo).must /\ Do(c) # "save")
            \/ /\ call[c].tool = "move" /\ report'[c] = report[c]
               /\ call'[c] = [call[c] EXCEPT !.todo = LeavePlan, !.failed = TRUE]
            \/ /\ Rest(call[c]) # << >> /\ report'[c] = report[c] /\ call'[c] # None
               /\ call'[c] = [call[c] EXCEPT !.todo = Rest(call[c]), !.slipped = TRUE]
               /\ ~(Head(call[c].todo).must /\ Do(c) # "save")
  <1>0. c \in Call /\ call[c] \in Running BY HeadFits
  <1>1. CASE Head(call[c].todo).must /\ Do(c) # "save"
    <2>1. GiveUp(c) BY <1>1 DEF CommandFails
    <2>q. QED BY <1>0, <2>1 DEF GiveUp, End, IInv, TypeOK
  <1>2. CASE ~(Head(call[c].todo).must /\ Do(c) # "save")
    <2> DEFINE r == [call[c] EXCEPT !.slipped = TRUE]
    <2>1. GoOn(c, r) BY <1>2 DEF CommandFails
    <2>2. r.todo = call[c].todo /\ r.tool = call[c].tool /\ r \in Running
      BY <1>0 DEF Running
    <2>3. [r EXCEPT !.todo = Rest(call[c])]
            = [call[c] EXCEPT !.todo = Rest(call[c]), !.slipped = TRUE]
      BY <1>0 DEF Running
    <2> HIDE DEF r
    <2>q. QED BY <1>2, <2>1, <2>2, <2>3, FollowsOn
  <1>q. QED BY <1>1, <1>2

-----------------------------------------------------------------------------
(* What it knows, it keeps.                                                *)

\* A step of one call: the others keep what they know, for they have met it.
LEMMA Settles ==
  ASSUME RInv, NEW c \in Active,
         \A d \in Call \ {c} : call'[d] = call[d] /\ report'[d] = report[d],
         \/ call'[c] = None
         \/ /\ report'[c] \in {"none", "timeout"} /\ call'[c].shared = call[c].shared
            /\ StartsLast(call'[c]) /\ Moved(call[c])'
  PROVE  (Reports /\ Alone /\ Known)'
  <1>1. c \in Call /\ Active \subseteq Call /\ Active' \subseteq Call BY DEF Active
  <1>2. Active' \subseteq Active BY <1>1 DEF Active
  <1>3. Reports' BY <1>1, <1>2 DEF RInv, Reports, Active
  <1>4. ASSUME NEW d \in Active' PROVE call'[d].shared \/ Active' = {d}
    <2>1. call'[d].shared = call[d].shared BY <1>1, <1>4 DEF Active
    <2>2. call[d].shared \/ Active = {d} BY <1>2, <1>4 DEF RInv, Alone
    <2>q. QED BY <1>2, <1>4, <2>1, <2>2
  <1>5. ASSUME NEW d \in Active' PROVE StartsLast(call'[d]) /\ Moved(call[d])'
    <2>1. CASE d = c BY <1>5, <2>1 DEF Active
    <2>2. CASE d # c
      <3>1. call'[d] = call[d] /\ d \in Active BY <1>1, <1>2, <1>5, <2>2
      <3>2. call[d].shared BY <2>2, <3>1 DEF RInv, Alone
      <3>3. StartsLast(call[d]) BY <3>1 DEF RInv, Known
      <3>q. QED BY <3>1, <3>2, <3>3 DEF Moved
    <2>q. QED BY <2>1, <2>2
  <1>q. QED BY <1>3, <1>4, <1>5 DEF Alone, Known

\* A command that only looks, or handles images and archives, changes no box.
LEMMA GentleStep ==
  ASSUME IInv, NEW c \in Active, Possible(c), Perform(c), Do(c) \in Gentle
  PROVE  box' = box
  <1>1. After(c) = Here(c) BY DEF After, Gentle
  <1>2. box' = [box EXCEPT ![call[c].kind][At(c)] = box[call[c].kind][At(c)]]
    BY <1>1 DEF Perform, Here
  <1>3. At(c) \in Host /\ call[c].kind \in Platform BY HeadFits
  <1>q. QED BY <1>2, <1>3 DEF IInv, TypeOK

\* The lists of a migration with one command.
LEMMA LastOne ==
  ASSUME NEW s \in Early \cup Late, Len(s) = 1
  PROVE  s \in {Remove1, LeavePlan}
  <1> SUFFICES ASSUME s \notin {Remove1, LeavePlan} PROVE FALSE OBVIOUS
  <1>1. Tail(s) \in Early \cup Late BY EarlyRest, MoveRest DEF Late
  <1>2. s \in List(Word) /\ s # << >> /\ Tail(s) # << >> BY <1>1, MoveLists
  <1>3. Tail(s) \in List(Word) /\ Len(Tail(s)) = Len(s) - 1 BY <1>2, HeadTailProperties DEF List
  <1>4. Len(Tail(s)) = 0 BY <1>3
  <1>5. Tail(s) = << >> BY <1>3, <1>4, EmptySeq DEF List
  <1>q. QED BY <1>2, <1>5

\* What a migration of a Docker container has done, command by command.
LEMMA MovesOn ==
  ASSUME RInv, NEW c \in Active, CommandWorks(c), call'[c] # None,
         call[c].tool = "move", call[c].kind = "docker", ~call[c].shared
  PROVE  Moved(call[c])'
  <1> USE DEF RInv
  <1> DEFINE r == call[c]
             u == call'[c]
  <1>1. Possible(c) /\ Perform(c) BY DEF CommandWorks
  <1>2. r \in Running /\ c \in Call /\ Fits(r) /\ Here(c) \in Box BY HeadFits
  <1>3. u = [r EXCEPT !.todo = Rest(r),
                      !.want = IF Do(c) = "inspect" THEN Here(c).data ELSE @]
        /\ Rest(r) # << >>
    BY WorksOn
  <1>4. /\ u.tool = "move" /\ u.kind = "docker" /\ u.shared = r.shared /\ u.slipped = r.slipped
        /\ u.from = r.from /\ u.to = r.to /\ u.todo = Rest(r) /\ u.failed = r.failed
        /\ u.want = IF Do(c) = "inspect" THEN Here(c).data ELSE r.want
    BY <1>2, <1>3 DEF Running
  <1>5. r.todo \in Early \cup Late /\ r.todo # LeavePlan
    <2>1. r.todo \in Early \cup Late BY <1>2 DEF Fits
    <2>2. r.todo = LeavePlan => Rest(r) = << >> BY <1>2, MoveRest, RestOf DEF Fits
    <2>q. QED BY <1>3, <2>1, <2>2
  <1>6. Moved(r) BY DEF Known
  <1>t. r.todo \in {Whole, DockerMovePlan, Commit, Save, Get, Put, Load, DockerRun, Remove2}
          => u.todo = Tail(r.todo)
    <2>1. r.todo # Remove1 => Len(r.todo) # 1 BY <1>5, LastOne
    <2>2. r.todo # << >> BY <1>2 DEF Fits
    <2>3. r.todo # Remove1 => u.todo = Tail(r.todo) BY <1>2, <1>4, <2>1, <2>2, RestOf
    <2>q. QED BY <2>3, MovesDiffer DEF Early
  <1>7. /\ box \in [Platform -> [Host -> Box]] /\ image \in [Host -> Data \cup {None}]
        /\ archive \in [Host \cup {Local} -> Data \cup {None}]
        /\ r.from \in Host /\ r.to \in Host /\ "docker" \in Platform
    BY <1>2 DEF IInv, TypeOK, Running, Platform
  <1>8. ASSUME u.todo \in {Commit, Save, Get, Put, Load, DockerRun}
                 => box'["docker"][r.from] # Absent,
               u.todo \in {Remove2, Remove1, LeavePlan}
                 => box'["docker"][r.to].up /\ r.from # r.to,
               \/ r.slipped
               \/ /\ u.todo = Commit => box'["docker"][r.from].data = u.want
                  /\ u.todo = Save => image'[r.from] = u.want
                  /\ u.todo = Get => archive'[r.from] = u.want
                  /\ u.todo = Put => archive'[Local] = u.want
                  /\ u.todo = Load => archive'[r.to] = u.want
                  /\ u.todo = DockerRun => image'[r.to] = u.want
        PROVE  Moved(call[c])'
    BY <1>4, <1>8 DEF Moved, Brought
  <1>k. /\ r.tool = "move" /\ r.kind = "docker" /\ ~r.shared /\ call[c].kind = "docker"
        /\ call'[c] # None
    OBVIOUS
  <1> HIDE DEF r, u
  <1>h. /\ At(c) = r[Head(r.todo).on] /\ Do(c) = Head(r.todo).do
        /\ Here(c) = box["docker"][At(c)]
    BY DEF At, Do, Here, r
  <1>9. CASE r.todo = Whole
    <2>1. u.todo = DockerMovePlan BY <1>t, <1>9, Stages
    <2>q. QED BY <2>1, <1>8, StageWords, LastWords
  <1>10. CASE r.todo = DockerMovePlan
    <2>1. u.todo = Commit /\ Do(c) = "inspect" /\ At(c) = r.from
      BY <1>t, <1>10, <1>h, Stages, StageWords, StagePlaces
    <2>2. Here(c) # Absent BY <2>1, <1>1 DEF Possible
    <2>3. box' = box BY <2>1, <1>1, GentleStep DEF Gentle
    <2>q. QED BY <2>1, <2>2, <2>3, <1>4, <1>h, <1>8, StageWords, LastWords
  <1>11. CASE r.todo = Commit
    <2>1. u.todo = Save /\ Do(c) = "commit" /\ At(c) = r.from
      BY <1>t, <1>11, <1>h, Stages, StageWords, StagePlaces
    <2>2. box' = box BY <2>1, <1>1, GentleStep DEF Gentle
    <2>3. image' = [image EXCEPT ![r.from] = Here(c).data] BY <2>1, <1>1 DEF Perform
    <2>4. image'[r.from] = box["docker"][r.from].data BY <2>1, <2>3, <1>7, <1>h
    <2>5. box["docker"][r.from] # Absent /\ (r.slipped \/ box["docker"][r.from].data = r.want)
      BY <1>6, <1>11, <1>k DEF Moved, Brought
    <2>q. QED BY <2>1, <2>2, <2>4, <2>5, <1>4, <1>8, StageWords, LastWords
  <1>12. CASE r.todo = Save
    <2>1. u.todo = Get /\ Do(c) = "save" /\ At(c) = r.from
      BY <1>t, <1>12, <1>h, Stages, StageWords, StagePlaces
    <2>2. box' = box BY <2>1, <1>1, GentleStep DEF Gentle
    <2>3. archive' = [archive EXCEPT ![r.from] = image[r.from]] BY <2>1, <1>1 DEF Perform
    <2>4. archive'[r.from] = image[r.from] BY <2>3, <1>7
    <2>5. box["docker"][r.from] # Absent /\ (r.slipped \/ image[r.from] = r.want)
      BY <1>6, <1>12, <1>k DEF Moved, Brought
    <2>q. QED BY <2>1, <2>2, <2>4, <2>5, <1>4, <1>8, StageWords, LastWords
  <1>13. CASE r.todo = Get
    <2>1. u.todo = Put /\ Do(c) = "get" /\ At(c) = r.from
      BY <1>t, <1>13, <1>h, Stages, StageWords, StagePlaces
    <2>2. box' = box BY <2>1, <1>1, GentleStep DEF Gentle
    <2>3. archive' = [archive EXCEPT ![Local] = archive[r.from]] BY <2>1, <1>1 DEF Perform
    <2>4. archive'[Local] = archive[r.from] BY <2>3, <1>7
    <2>5. box["docker"][r.from] # Absent /\ (r.slipped \/ archive[r.from] = r.want)
      BY <1>6, <1>13, <1>k DEF Moved, Brought
    <2>q. QED BY <2>1, <2>2, <2>4, <2>5, <1>4, <1>8, StageWords, LastWords
  <1>14. CASE r.todo = Put
    <2>1. u.todo = Load /\ Do(c) = "put" /\ At(c) = r.to
      BY <1>t, <1>14, <1>h, Stages, StageWords, StagePlaces
    <2>2. box' = box BY <2>1, <1>1, GentleStep DEF Gentle
    <2>3. archive' = [archive EXCEPT ![r.to] = archive[Local]] BY <2>1, <1>1 DEF Perform
    <2>4. archive'[r.to] = archive[Local] BY <2>3, <1>7
    <2>5. box["docker"][r.from] # Absent /\ (r.slipped \/ archive[Local] = r.want)
      BY <1>6, <1>14, <1>k DEF Moved, Brought
    <2>q. QED BY <2>1, <2>2, <2>4, <2>5, <1>4, <1>8, StageWords, LastWords
  <1>15. CASE r.todo = Load
    <2>1. u.todo = DockerRun /\ Do(c) = "load" /\ At(c) = r.to
      BY <1>t, <1>15, <1>h, Stages, StageWords, StagePlaces
    <2>2. box' = box BY <2>1, <1>1, GentleStep DEF Gentle
    <2>3. image' = [image EXCEPT ![r.to] = archive[r.to]] BY <2>1, <1>1 DEF Perform
    <2>4. image'[r.to] = archive[r.to] BY <2>3, <1>7
    <2>5. box["docker"][r.from] # Absent /\ (r.slipped \/ archive[r.to] = r.want)
      BY <1>6, <1>15, <1>k DEF Moved, Brought
    <2>q. QED BY <2>1, <2>2, <2>4, <2>5, <1>4, <1>8, StageWords, LastWords
  <1>16. box' = [box EXCEPT !["docker"][At(c)] = After(c)] /\ After(c) \in Box /\ Typed
    BY <1>1, <1>k, Performs, AfterTyped DEF IInv, TypeOK, Typed
  <1>17. CASE r.todo = DockerRun
    <2>1. u.todo = Remove2 /\ Do(c) = "run" /\ At(c) = r.to
      BY <1>t, <1>17, <1>h, MoveRest, LastWords
    <2>2. Here(c) = Absent BY <2>1, <1>1 DEF Possible
    <2>3. After(c).up BY <2>1, <1>1, AfterTyped
    <2>4. box["docker"][r.from] # Absent BY <1>6, <1>17, <1>k DEF Moved
    <2>5. box'["docker"][r.to].up BY <2>1, <2>3, <1>7, <1>16, BoxSet
    <2>6. r.from # r.to BY <2>1, <2>2, <2>4, <1>h
    <2>q. QED BY <2>1, <2>5, <2>6, <1>8, StageWords, LastWords
  <1>18. CASE r.todo = Remove2
    <2>1. u.todo = Remove1 /\ At(c) = r.from BY <1>t, <1>18, <1>h, MoveRest, LastWords
    <2>2. box["docker"][r.to].up /\ r.from # r.to BY <1>6, <1>18, <1>k DEF Moved
    <2>3. box'["docker"][r.to] = box["docker"][r.to] BY <2>1, <2>2, <1>7, <1>16, BoxSet
    <2>q. QED BY <2>1, <2>2, <2>3, <1>8, StageWords, LastWords
  <1>19. CASE r.todo = Remove1
    <2>1. At(c) = r.from BY <1>19, <1>h, LastWords
    <2>2. u.todo = LeavePlan BY <1>2, <1>4, <1>5, <1>19, <1>k, RestOf, MoveRest DEF Fits
    <2>3. box["docker"][r.to].up /\ r.from # r.to BY <1>6, <1>19, <1>k DEF Moved
    <2>4. box'["docker"][r.to] = box["docker"][r.to] BY <2>1, <2>3, <1>7, <1>16, BoxSet
    <2>q. QED BY <2>2, <2>3, <2>4, <1>8, StageWords, LastWords
  <1>q. QED BY <1>5, <1>9, <1>10, <1>11, <1>12, <1>13, <1>14, <1>15, <1>17, <1>18, <1>19
           DEF Early, Late

\* A migration goes on after a command that failed: the machines are what they were.
LEMMA MovesPast ==
  ASSUME RInv, NEW c \in Active, CommandFails(c),
         call'[c] = [call[c] EXCEPT !.todo = Rest(call[c]), !.slipped = TRUE],
         ~(Head(call[c].todo).must /\ Do(c) # "save"),
         call[c].tool = "move", call[c].kind = "docker", ~call[c].shared
  PROVE  Moved(call[c])'
  <1> USE DEF RInv
  <1> DEFINE r == call[c]
  <1>1. r \in Running /\ c \in Call /\ Fits(r) /\ r.todo # << >> BY HeadFits DEF Fits
  <1>3. /\ call'[c].slipped /\ call'[c].from = r.from /\ call'[c].to = r.to
        /\ call'[c].todo = Rest(r)
    BY <1>1 DEF Running
  <1>4. r.todo \in Early \cup Late BY <1>1 DEF Fits
  <1>5. r.todo # DockerMovePlan /\ Remains(c) BY DEF CommandFails
  <1>6. r.todo # DockerRun /\ r.todo # LeavePlan
    <2>1. r.todo # DockerRun BY Heads
    <2>2. r.todo = LeavePlan => Head(r.todo).must /\ Do(c) = "read" BY LastWords DEF Do
    <2>q. QED BY <2>1, <2>2
  <1>7. Do(c) # "run" BY <1>4, <1>6, StageWords, LastWords DEF Do, Early, Late
  <1>8. box' = box BY <1>5, <1>7 DEF Remains, lab
  <1>9. Moved(r) BY DEF Known
  <1>t. /\ r.todo # Remove1 => Rest(r) = Tail(r.todo)
        /\ r.todo = Remove1 => Rest(r) = LeavePlan
    <2>1. r.todo # Remove1 => Len(r.todo) # 1 BY <1>4, <1>6, LastOne
    <2>2. r.todo = Remove1 => Len(r.todo) = 1 BY MoveRest
    <2> HIDE DEF r
    <2>3. r.tool = "move" BY DEF r
    <2>q. QED BY <1>1, <1>6, <2>1, <2>2, <2>3, RestOf
  <1>11. \/ Rest(r) = DockerMovePlan
         \/ /\ Rest(r) \in {Save, Get, Put, Load, DockerRun}
            /\ box["docker"][r.from] # Absent
         \/ /\ Rest(r) \in {Remove1, LeavePlan}
            /\ box["docker"][r.to].up /\ r.from # r.to
    BY <1>4, <1>5, <1>6, <1>9, <1>t, Stages, MoveRest DEF Moved, Early, Late
  <1>12. PICK t : t = Rest(r) OBVIOUS
  <1>13. t \in {Commit, Save, Get, Put, Load, DockerRun} => box["docker"][r.from] # Absent
    BY <1>11, <1>12, StageWords, LastWords
  <1>14. t \in {Remove2, Remove1, LeavePlan} => box["docker"][r.to].up /\ r.from # r.to
    BY <1>11, <1>12, StageWords, LastWords
  <1>q. QED BY <1>3, <1>8, <1>12, <1>13, <1>14 DEF Moved

\* The last command stays the last one.
LEMMA StartsRest ==
  ASSUME IInv, NEW c \in Active, StartsLast(call[c]), Rest(call[c]) # << >>,
         NEW u, u.tool = call[c].tool, u.from = call[c].from, u.to = call[c].to,
         u.todo = Rest(call[c])
  PROVE  StartsLast(u)
  <1> SUFFICES ASSUME u.tool \in Starting PROVE StartsLast(u) BY DEF StartsLast
  <1>1. /\ call[c].todo \in Seq(Command) /\ call[c].todo # << >> /\ call[c] \in Running
    BY HeadFits DEF Fits
  <1>2. call[c].tool # "move" BY DEF Starting
  <1>3. Len(call[c].todo) # 1 /\ u.todo = Tail(call[c].todo) BY <1>1, <1>2, RestOf
  <1>4. Final(u.todo) = Final(call[c].todo) BY <1>1, <1>3, FinalRest
  <1>q. QED BY <1>4 DEF StartsLast

LEMMA StepKnows ==
  ASSUME RInv, NEW c \in Call, Step(c)
  PROVE  (Reports /\ Alone /\ Known)'
  <1> USE DEF RInv
  <1>1. c \in Active BY DEF Step, Active
  <1>2. /\ call[c] \in Running /\ call \in [Call -> Running \cup {None}]
        /\ report \in [Call -> {"none", "success", "error", "timeout"}]
        /\ StartsLast(call[c]) /\ Moved(call[c]) /\ report[c] \in {"none", "timeout"}
    BY <1>1, HeadFits DEF IInv, TypeOK, Known, Reports
  <1>3. ASSUME NEW how, End(c, how) PROVE (Reports /\ Alone /\ Known)'
    BY <1>1, <1>2, <1>3, Settles DEF End
  <1>4. CASE CommandWorks(c)
    <2>1. CASE call'[c] = None BY <1>1, <1>4, <2>1, WorksOn, Settles
    <2>2. CASE call'[c] # None
      <3>1. /\ call'[c] = [call[c] EXCEPT
                  !.todo = Rest(call[c]),
                  !.want = IF Do(c) = "inspect" THEN Here(c).data ELSE @]
            /\ report'[c] = report[c] /\ Rest(call[c]) # << >>
            /\ \A d \in Call \ {c} : call'[d] = call[d] /\ report'[d] = report[d]
        BY <1>1, <1>4, <2>2, WorksOn
      <3>2. /\ call'[c].tool = call[c].tool /\ call'[c].from = call[c].from
            /\ call'[c].to = call[c].to /\ call'[c].todo = Rest(call[c])
            /\ call'[c].kind = call[c].kind /\ call'[c].shared = call[c].shared
        BY <1>2, <3>1 DEF Running
      <3>3. StartsLast(call'[c]) BY <1>1, <1>2, <3>1, <3>2, StartsRest
      <3>4. Moved(call[c])'
        <4>1. CASE call[c].tool = "move" /\ call[c].kind = "docker" /\ ~call[c].shared
          BY <1>1, <1>4, <2>2, <4>1, MovesOn
        <4>2. CASE ~(call[c].tool = "move" /\ call[c].kind = "docker" /\ ~call[c].shared)
          BY <3>2, <4>2 DEF Moved
        <4>q. QED BY <4>1, <4>2
      <3>q. QED BY <1>1, <1>2, <3>1, <3>2, <3>3, <3>4, Settles
    <2>q. QED BY <2>1, <2>2
  <1>g. ASSUME call[c].tool = "move", report'[c] = report[c],
               call'[c] = [call[c] EXCEPT !.todo = LeavePlan, !.failed = TRUE],
               \A d \in Call \ {c} : call'[d] = call[d] /\ report'[d] = report[d]
        PROVE  (Reports /\ Alone /\ Known)'
    <2>1. /\ call'[c].tool = "move" /\ call'[c].shared = call[c].shared
          /\ call'[c].todo = LeavePlan /\ call'[c].failed
      BY <1>2, <1>g DEF Running
    <2>2. StartsLast(call'[c]) BY <2>1 DEF StartsLast, Starting
    <2>3. PICK u : u = call'[c] OBVIOUS
    <2>4. u.todo \notin {Commit, Save, Get, Put, Load, DockerRun, Remove2, Remove1}
      BY <2>1, <2>3, StageWords, LastWords
    <2>5. Moved(call[c])' BY <2>1, <2>3, <2>4 DEF Moved, Brought
    <2>q. QED BY <1>1, <1>2, <1>g, <2>1, <2>2, <2>5, Settles
  <1>5. CASE CommandFails(c)
    <2>0. \A d \in Call \ {c} : call'[d] = call[d] /\ report'[d] = report[d]
      BY <1>1, <1>5, FailsOn
    <2>1. CASE call'[c] = None BY <1>1, <2>0, <2>1, Settles
    <2>2. CASE /\ call[c].tool = "move" /\ report'[c] = report[c]
               /\ call'[c] = [call[c] EXCEPT !.todo = LeavePlan, !.failed = TRUE]
      BY <1>g, <2>0, <2>2
    <2>3. CASE /\ Rest(call[c]) # << >> /\ report'[c] = report[c] /\ call'[c] # None
               /\ call'[c] = [call[c] EXCEPT !.todo = Rest(call[c]), !.slipped = TRUE]
               /\ ~(Head(call[c].todo).must /\ Do(c) # "save")
      <3>2. /\ call'[c].tool = call[c].tool /\ call'[c].from = call[c].from
            /\ call'[c].to = call[c].to /\ call'[c].todo = Rest(call[c])
            /\ call'[c].kind = call[c].kind /\ call'[c].shared = call[c].shared
        BY <1>2, <2>3 DEF Running
      <3>3. StartsLast(call'[c]) BY <1>1, <1>2, <2>3, <3>2, StartsRest
      <3>4. Moved(call[c])'
        <4>1. CASE call[c].tool = "move" /\ call[c].kind = "docker" /\ ~call[c].shared
          BY <1>1, <1>5, <2>3, <4>1, MovesPast
        <4>2. CASE ~(call[c].tool = "move" /\ call[c].kind = "docker" /\ ~call[c].shared)
          BY <3>2, <4>2 DEF Moved
        <4>q. QED BY <4>1, <4>2
      <3>q. QED BY <1>1, <1>2, <2>0, <2>3, <3>2, <3>3, <3>4, Settles
    <2>q. QED BY <1>1, <1>5, <2>1, <2>2, <2>3, FailsOn
  <1>6. CASE Refuse(c) BY <1>3, <1>6 DEF Refuse
  <1>7. CASE CutOff(c)
    <2>1. CASE End(c, "timeout") BY <1>3, <2>1
    <2>2. CASE report' = [report EXCEPT ![c] = "timeout"] /\ UNCHANGED call
      <3>1. /\ report'[c] = "timeout" /\ call' = call /\ UNCHANGED <<box, image, archive>>
            /\ \A d \in Call \ {c} : report'[d] = report[d]
        BY <1>1, <1>2, <1>7, <2>2 DEF CutOff, lab
      <3>2. Moved(call[c])' BY <1>2, <3>1 DEF Moved, Brought
      <3>q. QED BY <1>1, <1>2, <3>1, <3>2, Settles
    <2>q. QED BY <1>7, <2>1, <2>2 DEF CutOff
  <1>9. CASE LoseConnection(c)
    <2>1. CASE End(c, "error") BY <1>3, <2>1
    <2>2. CASE /\ call[c].tool = "move" /\ UNCHANGED report
               /\ call' = [call EXCEPT ![c].todo = LeavePlan, ![c].failed = TRUE]
      <3>1. /\ call'[c] = [call[c] EXCEPT !.todo = LeavePlan, !.failed = TRUE]
            /\ \A d \in Call \ {c} : call'[d] = call[d]
        BY <1>2, <2>2
      <3>q. QED BY <1>g, <2>2, <3>1
    <2>q. QED BY <1>9, <2>1, <2>2 DEF LoseConnection, GiveUp
  <1>8. CASE FallBack(c)
    <2>1. /\ call[c].todo = DockerMovePlan /\ UNCHANGED report
          /\ call' = [call EXCEPT ![c] = [call[c] EXCEPT !.kind = "lxd", !.todo = LxdMovePlan]]
      BY <1>2, <1>8 DEF FallBack
    <2>2. /\ call'[c].tool = call[c].tool /\ call'[c].kind = "lxd"
          /\ call'[c].shared = call[c].shared
          /\ \A d \in Call \ {c} : call'[d] = call[d]
      BY <1>2, <2>1 DEF Running
    <2>3. call[c].tool = "move" BY <1>1, <2>1, HeadFits, OnlyMoves DEF Fits
    <2>4. StartsLast(call'[c]) BY <2>2, <2>3 DEF StartsLast, Starting
    <2>5. Moved(call[c])' BY <2>2 DEF Moved
    <2>q. QED BY <1>1, <1>2, <2>1, <2>2, <2>4, <2>5, Settles
  <1>q. QED BY <1>4, <1>5, <1>6, <1>7, <1>8, <1>9 DEF Step

LEMMA BeginKnows ==
  ASSUME RInv, NEW c \in Call, NEW t \in Tool, NEW p \in Platform, NEW h \in Host, NEW g \in Host,
         NEW list, Begin(c, t, p, h, g, list),
         t \in Starting => h = g /\ Final(list) \in {Must("run", "from"), Must("start", "from")},
         t = "move" => list = Whole
  PROVE  (Reports /\ Alone /\ Known)'
  <1> USE DEF RInv
  <1> DEFINE new == [tool |-> t, kind |-> p, from |-> h, to |-> g, todo |-> list,
                     failed |-> FALSE, want |-> None, slipped |-> FALSE,
                     shared |-> Active # {}]
  <1>0. /\ c \notin Active /\ report[c] = "none" /\ UNCHANGED report
        /\ call' = [d \in Call |->
             IF d = c THEN new ELSE IF d \in Active THEN [call[d] EXCEPT !.shared = TRUE]
             ELSE call[d]]
    BY DEF Begin, Active
  <1>1. /\ new.tool = t /\ new.from = h /\ new.to = g /\ new.todo = list
        /\ new.shared = (Active # {})
    OBVIOUS
  <1> HIDE DEF new
  <1>2. Active' \subseteq Active \cup {c} BY <1>0 DEF Active
  <1>3. /\ call'[c] = new
        /\ \A d \in Active : call'[d] = [call[d] EXCEPT !.shared = TRUE]
    BY <1>0 DEF Active
  <1>4. \A d \in Active : /\ call'[d].shared /\ call'[d].tool = call[d].tool
                          /\ call'[d].from = call[d].from /\ call'[d].to = call[d].to
                          /\ call'[d].todo = call[d].todo
    BY <1>3 DEF IInv, Fitting, Running
  <1>5. Reports' BY <1>0, <1>2 DEF Reports
  <1>6. Alone'
    <2>1. ASSUME NEW d \in Active' PROVE call'[d].shared \/ Active' = {d}
      <3>1. CASE d \in Active BY <3>1, <1>4
      <3>2. CASE d = c /\ Active # {} BY <3>2, <1>1, <1>3
      <3>3. CASE d = c /\ Active = {} BY <2>1, <3>3, <1>2
      <3>q. QED BY <2>1, <1>2, <3>1, <3>2, <3>3
    <2>q. QED BY <2>1 DEF Alone
  <1>7. Known'
    <2>1. ASSUME NEW d \in Active PROVE StartsLast(call'[d]) /\ Moved(call[d])'
      <3>1. StartsLast(call[d]) BY DEF Known
      <3>q. QED BY <3>1, <1>4 DEF StartsLast, Moved
    <2>2. StartsLast(call'[c]) BY <1>1, <1>3 DEF StartsLast
    <2>3. Moved(call[c])'
      <3>1. CASE t # "move" BY <3>1, <1>1, <1>3 DEF Moved
      <3>2. CASE t = "move"
        <4>1. call'[c].todo = Whole BY <3>2, <1>1, <1>3
        <4>q. QED BY <4>1, StageWords, StagePlaces, LastWords DEF Moved, Brought
      <3>q. QED BY <3>1, <3>2
    <2>q. QED BY <1>2, <2>1, <2>2, <2>3 DEF Known
  <1>q. QED BY <1>5, <1>6, <1>7

\* What the lists of the tools that start a service end with.
LEMMA FinalPlans ==
  /\ Final(DeployPlan) = Must("run", "from")
  /\ Final(DeployUnitPlan) = Must("start", "from")
  /\ Final(UpdatePlan) = Must("run", "from")
  /\ Final(UpdateUnitPlan) = Must("start", "from")
  /\ Final(ProviderDeployPlan) = Must("run", "from")
  <1>1. Final(DeployPlan) = Must("run", "from") BY DEF Final, DeployPlan
  <1>2. Final(DeployUnitPlan) = Must("start", "from") BY DEF Final, DeployUnitPlan
  <1>3. Final(UpdatePlan) = Must("run", "from") BY DEF Final, UpdatePlan
  <1>4. Final(UpdateUnitPlan) = Must("start", "from") BY DEF Final, UpdateUnitPlan
  <1>5. Final(ProviderDeployPlan) = Must("run", "from") BY DEF Final, ProviderDeployPlan
  <1>q. QED BY <1>1, <1>2, <1>3, <1>4, <1>5

LEMMA BeginsKnow ==
  ASSUME RInv, NEW c \in Call,
         \/ Deploy(c) \/ Update(c) \/ UpdateUnitState(c) \/ Backup(c) \/ Decommission(c)
         \/ DeployVM(c) \/ ControlVM(c) \/ RemoveVM(c)
  PROVE  (Reports /\ Alone /\ Known)'
  <1>0. Starting = {"deploy", "update", "vm_deploy"} /\ "move" \notin Starting
        /\ Starting \subseteq Tool
    BY DEF Starting, Tool
  <1>1. CASE Deploy(c)
    <2>1. PICK p \in Platform, h \in Host :
            Begin(c, "deploy", p, h, h, IF p = "systemd" THEN DeployUnitPlan ELSE DeployPlan)
      BY <1>1 DEF Deploy
    <2>2. CASE p = "systemd" BY <2>1, <2>2, <1>0, FinalPlans, BeginKnows
    <2>3. CASE p # "systemd" BY <2>1, <2>3, <1>0, FinalPlans, BeginKnows
    <2>q. QED BY <2>2, <2>3
  <1>2. CASE Update(c)
    <2>1. PICK p \in {"docker", "systemd"}, h \in Host, before \in {<< >>, ReadDevice} :
            Begin(c, "update", p, h, h,
                  before \o IF p = "systemd" THEN UpdateUnitPlan ELSE UpdatePlan)
      BY <1>2 DEF Update
    <2> DEFINE list == IF p = "systemd" THEN UpdateUnitPlan ELSE UpdatePlan
    <2>2. /\ list \in List(Word) /\ list # << >> /\ before \in List(Word)
      <3>1. /\ {"read"} \subseteq Word /\ {"write", "start"} \subseteq Word
            /\ {"inspect", "stop", "rm", "run"} \subseteq Word
        BY DEF Word
      <3>2. << >> \in List(Word) BY EmptySeq DEF List
      <3>q. QED BY <3>1, <3>2, Lists, ListsGrow
    <2>3. Final(list) \in {Must("run", "from"), Must("start", "from")} BY FinalPlans
    <2>4. Begin(c, "update", p, h, h, before \o list) BY <2>1
    <2> HIDE DEF list
    <2>5. Final(before \o list) = Final(list) BY <2>2, FinalMixed DEF List
    <2>6. p \in Platform BY DEF Platform
    <2>q. QED BY <2>3, <2>4, <2>5, <2>6, <1>0, BeginKnows
  <1>3. CASE UpdateUnitState(c)
    <2>1. "unit_state" \in Tool \ Starting /\ "systemd" \in Platform
      BY DEF Tool, Starting, Platform
    <2>q. QED BY <1>3, <2>1, BeginKnows DEF UpdateUnitState
  <1>4. CASE Backup(c)
    <2>1. "backup" \in Tool \ Starting /\ "docker" \in Platform
      BY DEF Tool, Starting, Platform
    <2>q. QED BY <1>4, <2>1, BeginKnows DEF Backup
  <1>5. CASE Decommission(c)
    <2>1. "retire" \in Tool \ Starting /\ "move" \in Tool \ Starting /\ "docker" \in Platform
      BY DEF Tool, Starting, Platform
    <2>q. QED BY <1>5, <2>1, BeginKnows DEF Decommission, Whole
  <1>6. CASE DeployVM(c)
    <2>1. \A p \in {"docker", "lxd"} : p \in Platform BY DEF Platform
    <2>q. QED BY <1>6, <2>1, <1>0, FinalPlans, BeginKnows DEF DeployVM
  <1>7. CASE ControlVM(c)
    <2>1. "vm_control" \in Tool \ Starting /\ \A p \in {"docker", "lxd"} : p \in Platform
      BY DEF Tool, Starting, Platform
    <2>q. QED BY <1>7, <2>1, BeginKnows DEF ControlVM
  <1>8. CASE RemoveVM(c)
    <2>1. "vm_remove" \in Tool \ Starting /\ \A p \in {"docker", "lxd"} : p \in Platform
      BY DEF Tool, Starting, Platform
    <2>q. QED BY <1>8, <2>1, BeginKnows DEF RemoveVM
  <1>q. QED BY <1>1, <1>2, <1>3, <1>4, <1>5, <1>6, <1>7, <1>8

LEMMA KnowsInit == Init => RInv
  <1> SUFFICES ASSUME Init PROVE RInv OBVIOUS
  <1>1. Active = {} BY DEF Init, Active
  <1>q. QED BY <1>1, InvInit DEF RInv, Reports, Alone, Known

LEMMA Knows == RInv /\ [Next]_vars => RInv'
  <1> SUFFICES ASSUME RInv, [Next]_vars PROVE RInv' OBVIOUS
  <1>1. IInv' BY Invariance DEF RInv
  <1>2. CASE UNCHANGED vars
    <2>1. UNCHANGED <<box, image, archive, call, report, called>> BY <1>2 DEF vars, lab
    <2>2. Active' = Active BY <2>1 DEF Active
    <2>3. Reports' /\ Alone' BY <2>1, <2>2 DEF RInv, Reports, Alone
    <2>4. Known' BY <2>1, <2>2 DEF RInv, Known, Moved, Brought
    <2>q. QED BY <1>1, <2>3, <2>4 DEF RInv
  <1>q. QED BY <1>1, <1>2, StepKnows, BeginsKnow DEF Next, RInv

-----------------------------------------------------------------------------
(* What is reported, and what a migration brings.                          *)

\* A call that ends with success by its own step leaves the service up.
LEMMA SuccessStep ==
  ASSUME RInv, NEW c \in Active, Step(c), report'[c] = "success", report[c] = "none",
         ~call[c].shared,
         \/ call[c].tool \in Starting
         \/ call[c].tool = "move" /\ call[c].kind = "docker" /\ ~call[c].failed
  PROVE  box'[call[c].kind][call[c].to].up
  <1> USE DEF RInv
  <1> DEFINE r == call[c]
  <1>1. /\ c \in Call /\ r \in Running /\ Fits(r) /\ r.todo \in Seq(Command) /\ At(c) \in Host
        /\ r.kind \in Platform
    BY HeadFits
  <1>2. StartsLast(r) /\ Moved(r) BY DEF Known
  <1>3. /\ box \in [Platform -> [Host -> Box]] /\ Typed /\ r.to \in Host /\ r.from \in Host
        /\ report \in [Call -> {"none", "success", "error", "timeout"}]
    BY <1>1 DEF IInv, TypeOK, Typed, Running
  <1>4. CommandWorks(c) \/ CommandFails(c)
    <2>1. CASE Refuse(c) BY <2>1, <1>1, <1>3 DEF Refuse, End
    <2>2. CASE FallBack(c) BY <2>2 DEF FallBack
    <2>3. CASE CutOff(c) BY <2>3, <1>1, <1>3 DEF CutOff, End
    <2>4. CASE LoseConnection(c) BY <2>4, <1>1, <1>3 DEF LoseConnection, GiveUp, End
    <2>q. QED BY <2>1, <2>2, <2>3, <2>4 DEF Step
  <1>5. Rest(r) = << >> /\ (CommandFails(c) => ~(Head(r.todo).must /\ Do(c) # "save"))
    BY <1>4, WorksOn, FailsOn
  <1>l. Len(r.todo) = 1 /\ (r.tool = "move" => r.todo = LeavePlan)
    <2>1. r.todo # << >> BY <1>1 DEF Fits
    <2>2. Len(r.todo) # 1 => Tail(r.todo) # << >>
      <3>1. r.todo \in List(Word) BY <1>1 DEF List, Command
      <3>q. QED BY <2>1, <3>1, ListRest
    <2>3. LeavePlan # << >> BY MoveLists DEF Late
    <2>q. QED BY <1>1, <1>5, <2>1, <2>2, <2>3, RestOf
  <1>6. CASE r.tool \in Starting
    <2>1. r.from = r.to /\ Head(r.todo) \in {Must("run", "from"), Must("start", "from")}
      BY <1>1, <1>2, <1>l, <1>6, FinalRest DEF StartsLast, Fits
    <2>2. /\ Head(r.todo).must /\ Do(c) \in {"run", "start"} /\ Head(r.todo).on = "from"
      BY <2>1 DEF Must, Do
    <2>3. At(c) = r.to BY <2>1, <2>2 DEF At
    <2>4. CommandWorks(c) BY <1>4, <1>5, <2>2
    <2>5. /\ Possible(c) /\ box' = [box EXCEPT ![r.kind][r.to] = After(c)] /\ After(c) \in Box
      BY <2>3, <2>4, Performs, AfterTyped DEF CommandWorks
    <2>6. After(c).up
      <3>1. CASE Do(c) = "run" BY <3>1, <2>5, AfterTyped
      <3>2. CASE Do(c) = "start"
        <4>1. Here(c) # Absent /\ Here(c) \in Box BY <3>2, <2>5, HeadFits DEF Possible
        <4>2. After(c) = [Here(c) EXCEPT !.up = TRUE] BY <3>2 DEF After
        <4>q. QED BY <4>1, <4>2, Boxes
      <3>q. QED BY <2>2, <3>1, <3>2
    <2>q. QED BY <2>5, <2>6, <1>1, <1>3, BoxSet
  <1>7. CASE r.tool = "move" /\ r.kind = "docker" /\ ~r.failed
    <2>1. Do(c) = "read" /\ Head(r.todo).must BY <1>l, <1>7, LastWords DEF Do
    <2>2. box["docker"][r.to].up BY <1>2, <1>l, <1>7 DEF Moved
    <2>3. CommandWorks(c) BY <1>4, <1>5, <2>1
    <2>4. box' = box BY <2>1, <2>3, GentleStep DEF CommandWorks, Gentle
    <2>q. QED BY <1>7, <2>2, <2>4
  <1>q. QED BY <1>6, <1>7

\* A step is one of a call, and no other call's record or report changes by it.
LEMMA WhoseStep ==
  ASSUME RInv, [Next]_vars, NEW c \in Active
  PROVE  \/ Step(c)
         \/ report'[c] = report[c] /\ (call'[c] = call[c] \/ box' = box)
  <1> USE DEF RInv
  <1>1. c \in Call BY DEF Active
  <1>2. CASE UNCHANGED vars BY <1>2 DEF vars
  <1>3. ASSUME NEW d \in Call, Step(d), d # c PROVE call'[c] = call[c] /\ report'[c] = report[c]
    <2>1. d \in Active BY <1>3 DEF Step, Active
    <2>2. CASE CommandWorks(d) BY <1>1, <1>3, <2>1, <2>2, WorksOn
    <2>3. CASE CommandFails(d) BY <1>1, <1>3, <2>1, <2>3, FailsOn
    <2>4. CASE Refuse(d) \/ LoseConnection(d) \/ CutOff(d)
      BY <1>1, <1>3, <2>4 DEF Refuse, LoseConnection, GiveUp, CutOff, End, IInv, TypeOK
    <2>5. CASE FallBack(d) BY <1>1, <1>3, <2>5 DEF FallBack, IInv, TypeOK
    <2>q. QED BY <1>3, <2>2, <2>3, <2>4, <2>5 DEF Step
  <1>4. ASSUME NEW d \in Call,
               \/ Deploy(d) \/ Update(d) \/ UpdateUnitState(d) \/ Backup(d) \/ Decommission(d)
               \/ DeployVM(d) \/ ControlVM(d) \/ RemoveVM(d)
        PROVE  report' = report /\ box' = box
    <2>1. ASSUME NEW t, NEW p, NEW h, NEW g, NEW list, Begin(d, t, p, h, g, list)
          PROVE  report' = report /\ box' = box
      BY <2>1 DEF Begin, lab
    <2>q. QED BY <1>4, <2>1 DEF Deploy, Update, UpdateUnitState, Backup, Decommission, DeployVM,
                                ControlVM, RemoveVM
  <1>q. QED BY <1>2, <1>3, <1>4 DEF Next

\* What the step that runs the target of a migration puts there.
LEMMA BringStep ==
  ASSUME RInv, NEW c \in Active, Step(c), call[c].tool = "move", Do(c) = "run",
         box'["docker"][call[c].to] # box["docker"][call[c].to]
  PROVE  \/ box'["docker"][call[c].to].data = call[c].want
         \/ call[c].slipped \/ call[c].shared
  <1> USE DEF RInv
  <1> DEFINE r == call[c]
  <1>1. /\ c \in Call /\ r \in Running /\ Fits(r) /\ r.kind \in Platform BY HeadFits
  <1>2. Moved(r) BY DEF Known
  <1>3. r.kind = "docker"
    <2>1. CASE r.kind = "lxd"
      <3>1. r.todo = Remove1 BY <2>1, Heads
      <3>q. QED BY <3>1, LastWords DEF Do
    <2>q. QED BY <1>1, <2>1 DEF Fits
  <1>4. r.todo = DockerRun
    <2>1. r.todo \in Early \cup Late BY <1>1, <1>3 DEF Fits
    <2>q. QED BY <2>1, StageWords, LastWords DEF Early, Late, Do
  <1>5. At(c) = r.to /\ Contents(c) = image[r.to] BY <1>4, LastWords DEF At, Contents
  <1>6. /\ box \in [Platform -> [Host -> Box]] /\ r.to \in Host /\ "docker" \in Platform
    BY <1>1 DEF IInv, TypeOK, Running, Platform
  <1>7. box'["docker"][r.to].data = image[r.to]
    <2>1. CASE CommandWorks(c)
      <3>1. box' = [box EXCEPT !["docker"][r.to] = [up |-> TRUE, data |-> image[r.to]]]
        BY <2>1, <1>3, <1>5 DEF CommandWorks, Perform, After
      <3>q. QED BY <3>1, <1>6
    <2>2. CASE CommandFails(c)
      <3>1. box' # box BY <1>6
      <3>2. box' = [box EXCEPT !["docker"][r.to] = [up |-> FALSE, data |-> image[r.to]]]
        BY <2>2, <3>1, <1>3, <1>5 DEF CommandFails, Remains, lab
      <3>q. QED BY <3>2, <1>6
    <2>3. CASE Refuse(c) \/ FallBack(c) \/ LoseConnection(c) \/ CutOff(c)
      BY <2>3 DEF Refuse, FallBack, LoseConnection, CutOff, lab
    <2>q. QED BY <2>1, <2>2, <2>3 DEF Step
  <1>q. QED BY <1>2, <1>3, <1>4, <1>7 DEF Moved, Brought

\* A deployment or an update that reports success, or a Docker migration that its
\* decommissioning reports as done, leaves the service up if it met no other call,
\* however many commands it tried in vain: the one that starts it is required, and what
\* follows it happens elsewhere.
THEOREM SuccessMeansUp == Spec => SuccessIsReal
  <1> DEFINE Body == \A c \in Active :
       /\ report'[c] = "success" /\ report[c] = "none" /\ ~call[c].shared
       /\ \/ call[c].tool \in {"deploy", "update", "vm_deploy"}
          \/ call[c].tool = "move" /\ call[c].kind = "docker" /\ ~call[c].failed
       => box'[call[c].kind][call[c].to].up
  <1>1. RInv /\ [Next]_vars => [Body]_vars
    <2> SUFFICES ASSUME RInv, [Next]_vars, NEW c \in Active,
                        report'[c] = "success", report[c] = "none", ~call[c].shared,
                        \/ call[c].tool \in {"deploy", "update", "vm_deploy"}
                        \/ call[c].tool = "move" /\ call[c].kind = "docker" /\ ~call[c].failed
                 PROVE  box'[call[c].kind][call[c].to].up
      OBVIOUS
    <2>1. report'[c] # report[c] OBVIOUS
    <2>2. Step(c) BY <2>1, WhoseStep
    <2>q. QED BY <2>2, SuccessStep DEF Starting
  <1>q. QED BY <1>1, KnowsInit, Knows, PTL DEF Spec, SuccessIsReal

\* A Docker migration that met no other call and whose commands all worked brings the
\* contents it found: commit, save, get, put and load hand them on, and what earlier
\* migrations left in the same images and archives is overwritten on the way.
THEOREM MigrationsBringContents == Spec => MigrationBringsContents
  <1> DEFINE Body == \A c \in Active :
       /\ call[c].tool = "move" /\ Do(c) = "run" /\ call'[c] # call[c]
       /\ box'["docker"][call[c].to] # box["docker"][call[c].to]
       => \/ box'["docker"][call[c].to].data = call[c].want
          \/ call[c].slipped \/ call[c].shared
  <1>1. RInv /\ [Next]_vars => [Body]_vars
    <2> SUFFICES ASSUME RInv, [Next]_vars, NEW c \in Active,
                        call[c].tool = "move", Do(c) = "run", call'[c] # call[c],
                        box'["docker"][call[c].to] # box["docker"][call[c].to]
                 PROVE  \/ box'["docker"][call[c].to].data = call[c].want
                        \/ call[c].slipped \/ call[c].shared
      OBVIOUS
    <2>1. Step(c) BY WhoseStep
    <2>q. QED BY <2>1, BringStep
  <1>q. QED BY <1>1, KnowsInit, Knows, PTL DEF Spec, MigrationBringsContents

-----------------------------------------------------------------------------
(***************************************************************************)
(* ServiceInstall, for any number of calls and of processes they leave     *)
(* behind: what was destroyed stays gone.  It rests on the lock of         *)
(* Terraform's state, which the code leaves to Terraform: while destroy    *)
(* runs no apply does, whoever abandoned it; and on what the lists of      *)
(* commands hold: only an install applies a plan, and a destroy removes    *)
(* the directory after it has destroyed.                                   *)
(*                                                                         *)
(* Then that an undisturbed install which reports success has its own      *)
(* service running: what each rest of its list knows of the files it has   *)
(* written and the processes it has started.                               *)
(***************************************************************************)

\* The commands of lists by Terraform, of lists by other methods, and of lists
\* that install nothing.
TerraformDoes == {"require", "look", "tool", "mkdir", "main", "vars", "init", "plan",
                  "apply", "dir", "destroy", "rm", "preview", "refresh"}
OthersDo == {"require", "look", "tool", "mkdir", "main", "vars", "dir", "up", "play", "script"}
InspectsDo == (TerraformDoes \cup OthersDo) \ {"apply"}

StepList(does) == Seq([do : does, must : BOOLEAN])

DestroyLeft == {Destroy, <<Needs("destroy"), Tries("rm")>>, <<Tries("rm")>>}

ServiceFits(t) ==
  /\ t.todo # << >>
  /\ t.by = "terraform" => t.todo \in StepList(TerraformDoes)
  /\ t.by # "terraform" => t.todo \in StepList(OthersDo)
  /\ t.kind # "install" => t.todo \in StepList(InspectsDo)
  /\ t.kind = "destroy" => t.by = "terraform" /\ t.todo \in DestroyLeft

LEMMA StepListsMix ==
  ASSUME NEW S, NEW s \in StepList(S), NEW t \in StepList(S), t # << >>
  PROVE  s \o t \in StepList(S) /\ s \o t # << >>
  BY ConcatProperties DEF StepList

LEMMA StepListsGrow ==
  ASSUME NEW S, NEW T, S \subseteq T PROVE StepList(S) \subseteq StepList(T)
  <1>1. [do : S, must : BOOLEAN] \subseteq [do : T, must : BOOLEAN] OBVIOUS
  <1>q. QED BY <1>1, SeqMonotonic DEF StepList

LEMMA TerraformLists ==
  /\ Requirements \in StepList(TerraformDoes) /\ Terraform \in StepList(TerraformDoes)
  /\ Destroy \in StepList(TerraformDoes) /\ Preview \in StepList(TerraformDoes)
  /\ Refresh \in StepList(TerraformDoes)
  /\ Terraform # << >> /\ Destroy # << >> /\ Preview # << >> /\ Refresh # << >>
  BY DEF StepList, TerraformDoes, Requirements, Terraform, Destroy, Preview, Refresh, Needs, Tries

LEMMA OtherLists ==
  /\ Requirements \in StepList(OthersDo) /\ Compose \in StepList(OthersDo)
  /\ Script \in StepList(OthersDo) /\ Ansible \in StepList(OthersDo)
  /\ Status \in StepList(OthersDo) /\ \A b \in BOOLEAN : Playbook(b) \in StepList(OthersDo)
  /\ Compose # << >> /\ Script # << >> /\ Ansible # << >> /\ Status # << >>
  /\ \A b \in BOOLEAN : Playbook(b) # << >>
  BY DEF StepList, OthersDo, Requirements, Compose, Script, Ansible, Status, Playbook, Needs, Tries

LEMMA InspectLists ==
  /\ Destroy \in StepList(InspectsDo) /\ Preview \in StepList(InspectsDo)
  /\ Refresh \in StepList(InspectsDo) /\ Status \in StepList(InspectsDo)
  /\ \A b \in BOOLEAN : Playbook(b) \in StepList(InspectsDo)
  BY DEF StepList, TerraformDoes, OthersDo, InspectsDo, Destroy, Preview, Refresh, Status, Playbook,
         Needs, Tries

\* What is left of a list that fits, fits.
LEMMA RestFits ==
  ASSUME NEW t, ServiceFits(t), NEW u, u.by = t.by, u.kind = t.kind, u.todo = Tail(t.todo),
         Len(t.todo) # 1
  PROVE  ServiceFits(u)
  <1>1. ASSUME NEW S, t.todo \in StepList(S)
        PROVE  Tail(t.todo) \in StepList(S) /\ Tail(t.todo) # << >>
    <2>1. t.todo # << >> BY DEF ServiceFits
    <2>2. /\ Tail(t.todo) \in StepList(S) /\ Len(Tail(t.todo)) = Len(t.todo) - 1
      BY <1>1, <2>1, HeadTailProperties DEF StepList
    <2>3. Len(t.todo) \in Nat /\ Len(t.todo) # 1 BY <1>1 DEF StepList
    <2>4. Len(Tail(t.todo)) # 0 BY <2>2, <2>3
    <2>5. Tail(t.todo) # << >> BY <2>2, <2>4, EmptySeq DEF StepList
    <2>q. QED BY <2>2, <2>5
  <1>2. t.kind = "destroy" => Tail(t.todo) \in DestroyLeft
    <2>1. \A a, b, c : Tail(<<a, b, c>>) = <<b, c>> /\ Tail(<<b, c>>) = <<c>> /\ Len(<<c>>) = 1
      OBVIOUS
    <2>2. Tail(Destroy) = <<Needs("destroy"), Tries("rm")>> BY <2>1 DEF Destroy
    <2>3. Tail(<<Needs("destroy"), Tries("rm")>>) = <<Tries("rm")>> BY <2>1
    <2>4. Len(<<Tries("rm")>>) = 1 BY <2>1
    <2>q. QED BY <2>2, <2>3, <2>4 DEF ServiceFits, DestroyLeft
  <1>3. t.todo \in StepList(TerraformDoes) \/ t.todo \in StepList(OthersDo) BY DEF ServiceFits
  <1>q. QED BY <1>1, <1>2, <1>3 DEF ServiceFits

-----------------------------------------------------------------------------
ServicesFit == \A c \in Busy : tool[c] \in Underway /\ ServiceFits(tool[c])

\* Terraform's lock, and which method a process works for.
Locked ==
  \A p \in proc :
    /\ p.do \in Locking => lock = p
    /\ p.by = "terraform" => p.do \in TerraformDoes
    /\ p.by # "terraform" => p.do \in OthersDo

\* A call that met no other is alone.
Apart == \A c \in Busy : ~tool[c].shared => Busy = {c}

\* Nothing runs and nobody is about to apply a plan.
Over == live["terraform"] = Nothing /\ \A p \in proc : p.do # "apply"

\* After a destroy that met no other call, and before it has removed the directory.
Destroyed ==
  \A c \in Busy :
    tool[c].kind = "destroy" /\ ~tool[c].shared /\ tool[c].todo = <<Tries("rm")>> => Over

ServiceFinal == gone => Over /\ \A c \in Busy : tool[c].kind # "install"

ServiceInv ==
  /\ ServiceTypeOK /\ ServicesFit /\ Locked /\ Apart /\ Destroyed /\ ServiceFinal

LEMMA ServiceInvInit == ServiceInit => ServiceInv
  <1> SUFFICES ASSUME ServiceInit PROVE ServiceInv OBVIOUS
  <1>1. Busy = {} BY DEF ServiceInit, Busy
  <1>2. ServiceTypeOK
    <2>1. Blank \in Conf /\ [main |-> Earlier, vars |-> Earlier] \in Conf
      BY DEF Blank, Conf, Author
    <2>2. \A c \in Conf : [whole |-> TRUE, of |-> c] \in Live BY DEF Live
    <2>3. Nothing \in Live BY <2>1, <2>2 DEF Nothing
    <2>4. plan \in [of : Conf, current : BOOLEAN] BY <2>1 DEF ServiceInit
    <2>5. dir \subseteq Method /\ conf \in [Method -> Conf] /\ live \in [Method -> Live]
      BY <2>1, <2>2, <2>3 DEF ServiceInit
    <2>q. QED BY <2>4, <2>5 DEF ServiceInit, ServiceTypeOK
  <1>q. QED
    BY <1>1, <1>2
    DEF ServiceInv, ServicesFit, Locked, Apart, Destroyed, ServiceFinal, ServiceInit

\* A call begins.
LEMMA CalledStep ==
  ASSUME ServiceInv, NEW c \in Caller, NEW kind \in {"install", "destroy", "other"},
         NEW m \in Method, NEW todo \in Seq([do : Work, must : BOOLEAN]),
         Called(c, kind, m, todo),
         \A t : t.kind = kind /\ t.by = m /\ t.todo = todo => ServiceFits(t),
         kind = "destroy" => todo = Destroy
  PROVE  ServiceInv'
  <1> USE DEF ServiceInv
  <1> DEFINE new == [kind |-> kind, by |-> m, todo |-> todo, waits |-> FALSE,
                     slipped |-> FALSE, shared |-> Busy # {}, heir |-> proc # {}]
  <1>0. /\ tool[c] = NoOne /\ c \notin Busy /\ tool' = [d \in Caller |->
             IF d = c THEN new ELSE IF d \in Busy THEN [tool[d] EXCEPT !.shared = TRUE]
             ELSE tool[d]]
        /\ gone' = (gone /\ kind # "install")
        /\ UNCHANGED <<dir, conf, live, plan, lock, proc, answer>>
    BY DEF Called, machine, Busy
  <1>n. new \in Underway /\ new # NoOne /\ new.todo = todo /\ new.kind = kind /\ new.by = m
        /\ new.shared = (Busy # {})
    <2>1. (Busy # {}) \in BOOLEAN /\ (proc # {}) \in BOOLEAN BY Zenon
    <2>2. new \in Underway BY <2>1, Zenon DEF Underway
    <2>q. QED BY NobodyApart, <2>2
  <1> HIDE DEF new
  <1>b. \A d \in Busy : LET u == [tool[d] EXCEPT !.shared = TRUE] IN
          /\ u \in Underway /\ u # NoOne /\ u.shared
          /\ u.kind = tool[d].kind /\ u.by = tool[d].by /\ u.todo = tool[d].todo
    BY NobodyApart DEF ServicesFit, Underway
  <1>2. Busy' = Busy \cup {c} BY <1>0, <1>n, <1>b DEF Busy
  <1>3. /\ \A d \in Busy : /\ tool'[d].kind = tool[d].kind /\ tool'[d].by = tool[d].by
                           /\ tool'[d].todo = tool[d].todo /\ tool'[d].shared
                           /\ tool'[d] \in Underway
        /\ tool'[c] = new
    BY <1>0, <1>b DEF Busy
  <1>1. ServiceTypeOK'
    <2>1. \A d \in Caller : tool'[d] \in Underway \cup {NoOne}
      BY <1>0, <1>n, <1>b DEF ServiceTypeOK
    <2>2. tool' \in [Caller -> Underway \cup {NoOne}] BY <2>1, <1>0
    <2>q. QED BY <2>2, <1>0 DEF ServiceTypeOK
  <1>4. ServicesFit' BY <1>2, <1>3, <1>n DEF ServicesFit, ServiceFits
  <1>5. Locked' BY <1>0 DEF Locked
  <1>6. Apart' BY <1>2, <1>3, <1>n DEF Apart
  <1>7. Destroyed'
    <2>1. Destroy # <<Tries("rm")>> BY DEF Destroy
    <2>q. QED BY <1>0, <1>2, <1>3, <1>n, <2>1 DEF Destroyed
  <1>8. ServiceFinal' BY <1>0, <1>2, <1>3, <1>n DEF ServiceFinal, Over
  <1>q. QED BY <1>1, <1>4, <1>5, <1>6, <1>7, <1>8

LEMMA Calls ==
  ASSUME ServiceInv, NEW c \in Caller,
         InstallService(c) \/ DestroyService(c) \/ InspectService(c) \/ RunPlaybook(c)
  PROVE  ServiceInv'
  <1> USE TerraformLists, OtherLists, InspectLists
  <1>s. /\ StepList(TerraformDoes) \subseteq StepList(Work)
        /\ StepList(OthersDo) \subseteq StepList(Work)
        /\ StepList(Work) = Seq([do : Work, must : BOOLEAN])
    <2>1. TerraformDoes \subseteq Work /\ OthersDo \subseteq Work
      BY DEF TerraformDoes, OthersDo, Work
    <2>2. StepList(TerraformDoes) \subseteq StepList(Work) BY <2>1, StepListsGrow
    <2>3. StepList(OthersDo) \subseteq StepList(Work) BY <2>1, StepListsGrow
    <2>q. QED BY <2>2, <2>3 DEF StepList
  <1>t. Requirements \o Terraform \in StepList(TerraformDoes) /\ Requirements \o Terraform # << >>
    BY StepListsMix
  <1>o. /\ Requirements \o Compose \in StepList(OthersDo) /\ Requirements \o Compose # << >>
        /\ Requirements \o Script \in StepList(OthersDo) /\ Requirements \o Script # << >>
        /\ Requirements \o Ansible \in StepList(OthersDo) /\ Requirements \o Ansible # << >>
    BY StepListsMix
  <1>1. CASE Called(c, "install", "terraform", Requirements \o Terraform)
    BY <1>1, <1>s, <1>t, CalledStep DEF ServiceFits, Method
  <1>2. ASSUME NEW m \in {"compose", "script", "ansible"}, NEW todo \in StepList(OthersDo),
               todo # << >>, Called(c, "install", m, todo)
        PROVE  ServiceInv'
    BY <1>2, <1>s, CalledStep DEF ServiceFits, Method
  <1>3. CASE InstallService(c) BY <1>1, <1>2, <1>3, <1>o DEF InstallService
  <1>4. CASE DestroyService(c)
    BY <1>4, <1>s, CalledStep DEF DestroyService, ServiceFits, Method, DestroyLeft
  <1>5. ASSUME NEW todo \in StepList(TerraformDoes) \cap StepList(InspectsDo), todo # << >>,
               Called(c, "other", "terraform", todo)
        PROVE  ServiceInv'
    BY <1>5, <1>s, CalledStep DEF ServiceFits, Method
  <1>6. ASSUME NEW m \in {"compose", "ansible"},
               NEW todo \in StepList(OthersDo) \cap StepList(InspectsDo),
               todo # << >>, Called(c, "other", m, todo)
        PROVE  ServiceInv'
    BY <1>6, <1>s, CalledStep DEF ServiceFits, Method
  <1>7. CASE InspectService(c) BY <1>5, <1>6, <1>7 DEF InspectService
  <1>8. CASE RunPlaybook(c) BY <1>6, <1>8 DEF RunPlaybook
  <1>q. QED BY <1>3, <1>4, <1>7, <1>8

-----------------------------------------------------------------------------
\* What a call becomes when its command is over: it ends, or is at the rest of its
\* list.  Only a destroy at the end of its list makes anything gone.
Moves(c) ==
  /\ tool' \in [Caller -> Underway \cup {NoOne}]
  /\ answer' \in [Caller -> {"none", "success", "error"}]
  /\ gone' \in BOOLEAN
  /\ \A d \in Caller \ {c} : tool'[d] = tool[d]
  /\ tool'[c] # NoOne =>
       /\ tool'[c].kind = tool[c].kind /\ tool'[c].by = tool[c].by
       /\ tool'[c].shared = tool[c].shared
       /\ tool'[c].todo = Tail(tool[c].todo) /\ Len(tool[c].todo) # 1
  /\ gone' => \/ gone
              \/ /\ tool[c].kind = "destroy" /\ ~tool[c].shared
                 /\ tool[c].todo = <<Tries("rm")>>

LEMMA RestEnds ==
  ASSUME NEW todo \in DestroyLeft
  PROVE  /\ Len(todo) = 1 => todo = <<Tries("rm")>>
         /\ Tail(todo) = <<Tries("rm")>> => todo = <<Needs("destroy"), Tries("rm")>>
         /\ Head(todo) = Needs("destroy") => todo = <<Needs("destroy"), Tries("rm")>>
  <1>0. \A a, b, c : /\ Len(<<a, b, c>>) = 3 /\ Len(<<b, c>>) = 2 /\ Len(<<c>>) = 1
                     /\ Tail(<<a, b, c>>) = <<b, c>> /\ Tail(<<c>>) = << >>
                     /\ Head(<<a, b, c>>) = a /\ Head(<<c>>) = c
                     /\ <<b, c>> # <<c>> /\ << >> # <<c>>
    OBVIOUS
  <1>1. Len(todo) = 1 => todo = <<Tries("rm")>> BY <1>0 DEF DestroyLeft, Destroy
  <1>2. Tail(todo) = <<Tries("rm")>> => todo = <<Needs("destroy"), Tries("rm")>>
    <2>1. Tail(Destroy) = <<Needs("destroy"), Tries("rm")>> BY <1>0 DEF Destroy
    <2>2. <<Needs("destroy"), Tries("rm")>> # <<Tries("rm")>> BY <1>0
    <2>3. Tail(<<Tries("rm")>>) = << >> /\ << >> # <<Tries("rm")>> BY <1>0
    <2>q. QED BY <2>1, <2>2, <2>3 DEF DestroyLeft
  <1>3. Needs("dir") # Needs("destroy") /\ Tries("rm") # Needs("destroy") BY DEF Needs, Tries
  <1>4. Head(todo) = Needs("destroy") => todo = <<Needs("destroy"), Tries("rm")>>
    BY <1>0, <1>3 DEF DestroyLeft, Destroy
  <1>q. QED BY <1>1, <1>2, <1>4

LEMMA StopMoves ==
  ASSUME ServiceInv, NEW c \in Busy, NEW how \in {"success", "error"}, Stop(c, how),
         how = "success" => Len(tool[c].todo) = 1
  PROVE  Moves(c)
  <1>1. tool[c].kind = "destroy" /\ how = "success" => tool[c].todo = <<Tries("rm")>>
    BY RestEnds DEF ServiceInv, ServicesFit, ServiceFits
  <1>2. c \in Caller BY DEF Busy
  <1>3. tool' = [tool EXCEPT ![c] = NoOne] /\ answer' = [answer EXCEPT ![c] = how]
    BY DEF Stop
  <1>4. tool' \in [Caller -> Underway \cup {NoOne}] /\ tool'[c] = NoOne
    BY <1>2, <1>3 DEF ServiceInv, ServiceTypeOK
  <1>5. answer' \in [Caller -> {"none", "success", "error"}]
    BY <1>2, <1>3 DEF ServiceInv, ServiceTypeOK
  <1>6. gone' \in BOOLEAN BY Zenon DEF Stop
  <1>7. gone' => gone \/ (tool[c].kind = "destroy" /\ ~tool[c].shared /\ how = "success")
    BY Zenon DEF Stop
  <1>8. \A d \in Caller \ {c} : tool'[d] = tool[d] BY <1>3 DEF ServiceInv, ServiceTypeOK
  <1>q. QED BY <1>1, <1>4, <1>5, <1>6, <1>7, <1>8 DEF Moves

LEMMA GoesOnMoves ==
  ASSUME ServiceInv, NEW c \in Busy, NEW worked \in BOOLEAN, GoesOn(c, worked)
  PROVE  /\ Moves(c)
         /\ tool'[c] # NoOne => worked \/ ~Next1(c).must
  <1>0. c \in Caller /\ tool[c] \in Underway /\ ServiceFits(tool[c])
    BY DEF Busy, ServiceInv, ServicesFit
  <1>1. ASSUME ~worked /\ Next1(c).must PROVE Moves(c) /\ tool'[c] = NoOne
    <2>1. Stop(c, "error") BY <1>1 DEF GoesOn
    <2>2. tool'[c] = NoOne BY <2>1, <1>0 DEF Stop, ServiceInv, ServiceTypeOK
    <2>q. QED BY <2>1, <2>2, StopMoves
  <1>2. ASSUME worked \/ ~Next1(c).must, Len(tool[c].todo) = 1
        PROVE  Moves(c)
    <2>1. Stop(c, "success") BY <1>2 DEF GoesOn
    <2>q. QED BY <2>1, <1>2, StopMoves
  <1>3. ASSUME worked \/ ~Next1(c).must, Len(tool[c].todo) # 1 PROVE Moves(c)
    <2> DEFINE slip == tool[c].slipped \/ (~worked /\ Next1(c).do \notin Harmless)
    <2>1. /\ tool' = [tool EXCEPT ![c].todo = Tail(@), ![c].waits = FALSE,
                                  ![c].slipped = @ \/ (~worked /\ Next1(c).do \notin Harmless)]
          /\ UNCHANGED <<answer, gone>>
      BY <1>3 DEF GoesOn
    <2>2. Tail(tool[c].todo) \in Seq([do : Work, must : BOOLEAN])
      BY <1>0, HeadTailProperties DEF Underway, ServiceFits
    <2>s. slip \in BOOLEAN BY Zenon
    <2>4. tool'[c] = [tool[c] EXCEPT !.todo = Tail(@), !.waits = FALSE, !.slipped = slip]
      BY <2>1, <1>0 DEF ServiceInv, ServiceTypeOK, Underway
    <2> HIDE DEF slip
    <2>5. tool'[c] \in Underway BY <2>2, <2>s, <2>4, <1>0 DEF Underway
    <2>6. \A d \in Caller \ {c} : tool'[d] = tool[d] BY <2>1, <1>0 DEF ServiceInv, ServiceTypeOK
    <2>7. tool' \in [Caller -> Underway \cup {NoOne}]
      BY <2>1, <2>5, <2>6, <1>0 DEF ServiceInv, ServiceTypeOK
    <2>8. /\ tool'[c].kind = tool[c].kind /\ tool'[c].by = tool[c].by
          /\ tool'[c].shared = tool[c].shared /\ tool'[c].todo = Tail(tool[c].todo)
      BY <2>4, <1>0 DEF Underway
    <2>q. QED BY <2>1, <2>6, <2>7, <2>8, <1>3 DEF Moves, ServiceInv, ServiceTypeOK
  <1>q. QED BY <1>1, <1>2, <1>3

LEMMA MovesInv ==
  ASSUME ServiceInv, NEW c \in Busy, Moves(c), Locked',
         dir' \subseteq Method, conf' \in [Method -> Conf], live' \in [Method -> Live],
         plan' \in [of : Conf, current : BOOLEAN],
         proc' \subseteq [by : Method, do : Work, of : Caller], lock' \in proc' \cup {NoOne},
         Over => Over',
         (tool'[c] # NoOne /\ tool[c].kind = "destroy"
           /\ tool[c].todo = <<Needs("destroy"), Tries("rm")>>) => Over'
  PROVE  ServiceInv'
  <1>0. c \in Caller /\ tool[c] \in Underway /\ ServiceFits(tool[c])
    BY DEF Busy, ServiceInv, ServicesFit
  <1>1. ServiceTypeOK' BY DEF ServiceTypeOK, Moves
  <1>2. /\ Busy' \subseteq Busy
        /\ \A d \in Busy' \ {c} : d \in Busy /\ tool'[d] = tool[d]
        /\ \A d \in Busy' : /\ tool'[d].kind = tool[d].kind /\ tool'[d].shared = tool[d].shared
                            /\ tool'[d] \in Underway
    BY <1>0 DEF Busy, Moves
  <1>3. ServicesFit'
    <2>1. tool'[c] # NoOne => ServiceFits(tool'[c]) BY <1>0, RestFits DEF Moves
    <2>q. QED BY <2>1, <1>2 DEF ServicesFit, ServiceInv, Busy
  <1>4. Apart' BY <1>2 DEF ServiceInv, Apart
  <1>5. Destroyed'
    <2> SUFFICES ASSUME NEW d \in Busy', tool'[d].kind = "destroy", ~tool'[d].shared,
                        tool'[d].todo = <<Tries("rm")>>
                 PROVE  Over'
      BY DEF Destroyed
    <2>1. CASE d # c BY <2>1, <1>2 DEF ServiceInv, Destroyed
    <2>2. CASE d = c
      <3>1. /\ tool[c].kind = "destroy" /\ tool[c].todo \in DestroyLeft
            /\ Tail(tool[c].todo) = <<Tries("rm")>>
            /\ tool'[c] # NoOne
        BY <2>2, <1>0, <1>2 DEF ServiceFits, Moves, Busy
      <3>q. QED BY <3>1, RestEnds
    <2>q. QED BY <2>1, <2>2
  <1>6. ServiceFinal'
    <2>1. CASE gone BY <2>1, <1>2 DEF ServiceInv, ServiceFinal
    <2>2. CASE /\ tool[c].kind = "destroy" /\ ~tool[c].shared
               /\ tool[c].todo = <<Tries("rm")>>
      <3>1. Over BY <2>2 DEF ServiceInv, Destroyed
      <3>2. Busy = {c} BY <2>2 DEF ServiceInv, Apart
      <3>q. QED BY <3>1, <3>2, <2>2, <1>2 DEF ServiceFinal
    <2>q. QED BY <2>1, <2>2 DEF ServiceFinal, Moves
  <1>q. QED BY <1>1, <1>3, <1>4, <1>5, <1>6 DEF ServiceInv

-----------------------------------------------------------------------------
\* The call moves, and nothing on the machine does.
LEMMA MovesAlone ==
  ASSUME ServiceInv, NEW c \in Busy, Moves(c), UNCHANGED <<machine, proc>>,
         tool'[c] = NoOne \/ ~Next1(c).must \/ Next1(c).do # "destroy"
  PROVE  ServiceInv'
  <1>1. UNCHANGED <<dir, conf, live, plan, lock, proc>> BY DEF machine
  <1>2. Locked' BY <1>1 DEF ServiceInv, Locked
  <1>3. Over => Over' BY <1>1 DEF Over
  <1>4. ~(tool'[c] # NoOne /\ tool[c].kind = "destroy"
          /\ tool[c].todo = <<Needs("destroy"), Tries("rm")>>)
    <2>1. \A a, b : Head(<<a, b>>) = a OBVIOUS
    <2>2. Needs("destroy").must /\ Needs("destroy").do = "destroy" BY DEF Needs
    <2>q. QED BY <2>1, <2>2 DEF Next1
  <1>5. /\ dir' \subseteq Method /\ conf' \in [Method -> Conf] /\ live' \in [Method -> Live]
        /\ plan' \in [of : Conf, current : BOOLEAN]
        /\ proc' \subseteq [by : Method, do : Work, of : Caller] /\ lock' \in proc' \cup {NoOne}
    BY <1>1 DEF ServiceInv, ServiceTypeOK
  <1>q. QED BY <1>2, <1>3, <1>4, <1>5, MovesInv

\* The commands of a call that fits.
LEMMA ServiceHeadFits ==
  ASSUME ServiceInv, NEW c \in Busy
  PROVE  /\ c \in Caller /\ tool[c] \in Underway /\ Next1(c) \in [do : Work, must : BOOLEAN]
         /\ tool[c].by = "terraform" => Next1(c).do \in TerraformDoes
         /\ tool[c].by # "terraform" => Next1(c).do \in OthersDo
         /\ tool[c].kind # "install" => Next1(c).do # "apply"
         /\ tool[c].kind = "destroy" /\ tool[c].todo = <<Tries("rm")>> => Next1(c).do # "apply"
         /\ Process(c) \in [by : Method, do : Work, of : Caller]
         /\ Process(c).do = Next1(c).do /\ Process(c).by = tool[c].by /\ Process(c).of = c
  <1>0. c \in Caller /\ tool[c] \in Underway /\ ServiceFits(tool[c])
    BY DEF Busy, ServiceInv, ServicesFit
  <1>1. ASSUME NEW S, tool[c].todo \in StepList(S) PROVE Next1(c) \in [do : S, must : BOOLEAN]
    BY <1>0, <1>1, HeadTailProperties DEF ServiceFits, StepList, Next1
  <1>2. Next1(c) \in [do : Work, must : BOOLEAN]
    <2>1. tool[c].todo \in StepList(Work) BY <1>0 DEF Underway, StepList
    <2>q. QED BY <2>1, <1>1
  <1>3. tool[c].by = "terraform" => Next1(c).do \in TerraformDoes BY <1>0, <1>1 DEF ServiceFits
  <1>4. tool[c].by # "terraform" => Next1(c).do \in OthersDo BY <1>0, <1>1 DEF ServiceFits
  <1>5. tool[c].kind # "install" => Next1(c).do # "apply"
    <2>1. tool[c].kind # "install" => Next1(c).do \in InspectsDo BY <1>0, <1>1 DEF ServiceFits
    <2>q. QED BY <2>1 DEF InspectsDo
  <1>6. Process(c) \in [by : Method, do : Work, of : Caller] BY <1>0, <1>2 DEF Process, Underway
  <1>q. QED BY <1>0, <1>2, <1>3, <1>4, <1>5, <1>6 DEF Process

\* A command starts.
LEMMA Starts ==
  ASSUME ServiceInv, NEW c \in Busy, Start(c) PROVE ServiceInv'
  <1> USE DEF ServiceInv
  <1>0. c \in Caller /\ tool[c] \in Underway /\ tool[c] # NoOne BY ServiceHeadFits DEF Busy
  <1>1. CASE Next1(c).do \in Locking /\ lock # NoOne
    <2>1. GoesOn(c, FALSE) /\ UNCHANGED <<machine, proc>> BY <1>1 DEF Start, machine
    <2>2. Moves(c) /\ (tool'[c] # NoOne => ~Next1(c).must) BY <2>1, GoesOnMoves
    <2>q. QED BY <2>1, <2>2, MovesAlone
  <1>2. CASE ~(Next1(c).do \in Locking /\ lock # NoOne)
    <2> DEFINE P == Process(c)
    <2>0. /\ proc' = proc \cup {P}
          /\ lock' = IF Next1(c).do \in Locking THEN P ELSE lock
          /\ tool' = [tool EXCEPT ![c].waits = TRUE]
          /\ UNCHANGED <<answer, gone, dir, conf, live, plan>>
      BY <1>2 DEF Start
    <2>p. /\ P \in [by : Method, do : Work, of : Caller]
          /\ P.do = Next1(c).do /\ P.by = tool[c].by
      BY ServiceHeadFits
    <2> HIDE DEF P
    <2>1. /\ tool'[c] \in Underway /\ tool'[c].kind = tool[c].kind /\ tool'[c].by = tool[c].by
          /\ tool'[c].todo = tool[c].todo /\ tool'[c].shared = tool[c].shared
      BY <2>0, <1>0 DEF ServiceTypeOK, Underway
    <2>2. \A d \in Caller \ {c} : tool'[d] = tool[d] BY <2>0 DEF ServiceTypeOK
    <2>3. Busy' = Busy BY NobodyApart, <2>1, <2>2, <1>0 DEF Busy
    <2>4. ServiceTypeOK'
      <3>1. tool' \in [Caller -> Underway \cup {NoOne}] BY <2>0, <2>1, <2>2 DEF ServiceTypeOK
      <3>2. proc' \subseteq [by : Method, do : Work, of : Caller] /\ lock' \in proc' \cup {NoOne}
        BY <2>0, <2>p DEF ServiceTypeOK
      <3>q. QED BY <3>1, <3>2, <2>0 DEF ServiceTypeOK
    <2>5. ServicesFit' BY <2>1, <2>2, <2>3 DEF ServicesFit, ServiceFits, Busy
    <2>6. Locked'
      <3> SUFFICES ASSUME NEW p \in proc'
                   PROVE  /\ p.do \in Locking => lock' = p
                          /\ p.by = "terraform" => p.do \in TerraformDoes
                          /\ p.by # "terraform" => p.do \in OthersDo
        BY DEF Locked
      <3>1. CASE p = P BY <3>1, <2>0, <2>p, ServiceHeadFits
      <3>2. CASE p \in proc
        <4>1. p # NoOne BY NobodyApart, <3>2 DEF ServiceTypeOK
        <4>q. QED BY <3>2, <4>1, <2>0, <1>2 DEF Locked
      <3>q. QED BY <3>1, <3>2, <2>0
    <2>7. Apart' BY <2>1, <2>2, <2>3 DEF Apart, Busy
    <2>8. Over /\ tool[c].kind # "install" => Over'
      BY <2>0, <2>p, ServiceHeadFits DEF Over
    <2>9. Destroyed'
      <3> SUFFICES ASSUME NEW d \in Busy, tool[d].kind = "destroy", ~tool[d].shared,
                          tool[d].todo = <<Tries("rm")>>
                   PROVE  Over'
        BY <2>1, <2>2, <2>3 DEF Destroyed, Busy
      <3>1. Over /\ d = c BY DEF Destroyed, Apart
      <3>q. QED BY <3>1, <2>8
    <2>10. ServiceFinal' BY <2>0, <2>1, <2>2, <2>3, <2>8 DEF ServiceFinal, Busy
    <2>q. QED BY <2>4, <2>5, <2>6, <2>7, <2>9, <2>10
  <1>q. QED BY <1>1, <1>2

LEMMA ToolSteps ==
  ASSUME ServiceInv, NEW c \in Caller, ToolStep(c) PROVE ServiceInv'
  <1>0. c \in Busy BY DEF ToolStep, Busy
  <1>1. CASE Ask(c)
    <2>1. PICK worked \in BOOLEAN : GoesOn(c, worked) BY <1>1 DEF Ask
    <2>2. Moves(c) BY <2>1, <1>0, GoesOnMoves
    <2>3. Next1(c).do # "destroy" /\ UNCHANGED <<machine, proc>> BY <1>1 DEF Ask, Harmless
    <2>q. QED BY <2>2, <2>3, <1>0, MovesAlone
  <1>2. CASE Start(c) BY <1>0, <1>2, Starts
  <1>3. CASE StopsWaiting(c)
    <2>1. GoesOn(c, FALSE) /\ UNCHANGED <<machine, proc>> BY <1>3 DEF StopsWaiting
    <2>2. Moves(c) /\ (tool'[c] # NoOne => ~Next1(c).must) BY <2>1, <1>0, GoesOnMoves
    <2>q. QED BY <2>1, <2>2, <1>0, MovesAlone
  <1>4. CASE NotMet(c) \/ Dismiss(c)
    <2>1. Stop(c, "error") /\ UNCHANGED <<machine, proc>> BY <1>4 DEF NotMet, Dismiss
    <2>2. Moves(c) BY <2>1, <1>0, StopMoves
    <2>3. tool'[c] = NoOne BY <2>1, <1>0 DEF Stop, ServiceInv, ServiceTypeOK
    <2>q. QED BY <2>1, <2>2, <2>3, <1>0, MovesAlone
  <1>q. QED BY <1>1, <1>2, <1>3, <1>4 DEF ToolStep

-----------------------------------------------------------------------------
(* A process ends.                                                         *)

LEMMA MakesConf ==
  ASSUME ServiceInv, NEW p \in proc, Changes(p) PROVE Makes(p) \in Conf
  <1>1. p \in [by : Method, do : Work, of : Caller] BY DEF ServiceInv, ServiceTypeOK
  <1>2. /\ plan.of \in Conf /\ conf[p.by] \in Conf /\ Blank \in Conf
        /\ [main |-> p.of, vars |-> p.of] \in Conf
    BY <1>1 DEF ServiceInv, ServiceTypeOK, Blank, Conf, Author
  <1>q. QED BY <1>2 DEF Changes, Makes

\* The service may be turned by what p makes; else it stays as it is.
LEMMA WorldTyped ==
  ASSUME ServiceInv, NEW p \in proc, NEW worked \in BOOLEAN, worked => CanFinish(p),
         IF worked THEN Does(p) ELSE LeavesHalf(p)
  PROVE  /\ dir' \subseteq Method /\ conf' \in [Method -> Conf] /\ live' \in [Method -> Live]
         /\ plan' \in [of : Conf, current : BOOLEAN]
         /\ \/ live' = live
            \/ Changes(p) /\ \E whole \in BOOLEAN : Turn(p, whole)
  <1> USE DEF ServiceInv, ServiceTypeOK
  <1>0. p \in [by : Method, do : Work, of : Caller] OBVIOUS
  <1>1. ASSUME NEW whole \in BOOLEAN, Turn(p, whole), Changes(p)
        PROVE  /\ dir' \subseteq Method /\ conf' \in [Method -> Conf] /\ live' \in [Method -> Live]
               /\ plan' \in [of : Conf, current : BOOLEAN]
    <2>1. [whole |-> whole, of |-> Makes(p)] \in Live BY <1>1, MakesConf DEF Live
    <2>2. live' \in [Method -> Live] BY <1>0, <1>1, <2>1 DEF Turn
    <2>3. plan' \in [of : Conf, current : BOOLEAN] BY <1>1 DEF Turn
    <2>q. QED BY <1>1, <2>2, <2>3 DEF Turn
  <1>2. ASSUME Writes(p)
        PROVE  /\ dir' \subseteq Method /\ conf' \in [Method -> Conf] /\ live' = live
               /\ plan' \in [of : Conf, current : BOOLEAN]
    <2>1. dir' \subseteq Method BY <1>0, <1>2 DEF Writes
    <2>2. conf' \in [Method -> Conf]
      <3>1. Blank \in Conf BY DEF Blank, Conf, Author
      <3>2. CASE p.do \in {"main", "vars"}
        <4>1. conf' = [conf EXCEPT ![p.by][p.do] = p.of] BY <3>2, <1>2 DEF Writes
        <4>2. [conf[p.by] EXCEPT ![p.do] = p.of] \in Conf
          <5>1. conf[p.by] \in Conf BY <1>0
          <5>2. CASE p.do = "main" BY <5>1, <5>2, <1>0 DEF Conf, Author
          <5>3. CASE p.do = "vars" BY <5>1, <5>3, <1>0 DEF Conf, Author
          <5>q. QED BY <5>2, <5>3, <3>2
        <4>q. QED BY <4>1, <4>2, <1>0
      <3>3. CASE p.do = "rm"
        <4>1. conf' = [conf EXCEPT ![p.by] = Blank] BY <3>3, <1>2 DEF Writes
        <4>q. QED BY <3>1, <4>1, <1>0
      <3>4. CASE p.do \notin {"main", "vars", "rm"} BY <3>4, <1>2 DEF Writes
      <3>q. QED BY <3>2, <3>3, <3>4
    <2>3. plan' \in [of : Conf, current : BOOLEAN]
      <3>1. Blank \in Conf BY DEF Blank, Conf, Author
      <3>2. conf[p.by] \in Conf BY <1>0
      <3>q. QED BY <1>2, <3>1, <3>2 DEF Writes
    <2>q. QED BY <1>2, <2>1, <2>2, <2>3 DEF Writes
  <1>3. CASE worked BY <1>1, <1>2, <1>3 DEF Does
  <1>4. CASE ~worked BY <1>1, <1>4 DEF LeavesHalf
  <1>q. QED BY <1>3, <1>4

\* While a destroy runs, no apply does; and what is gone is not brought back.
LEMMA WorldGone ==
  ASSUME ServiceInv, NEW p \in proc, NEW worked \in BOOLEAN, worked => CanFinish(p),
         IF worked THEN Does(p) ELSE LeavesHalf(p), proc' = proc \ {p}
  PROVE  /\ Over => Over'
         /\ worked /\ p.do = "destroy" /\ p.by = "terraform" => Over'
  <1>0. p \in [by : Method, do : Work, of : Caller] BY DEF ServiceInv, ServiceTypeOK
  <1>l. live \in [Method -> Live] /\ "terraform" \in Method BY DEF ServiceInv, ServiceTypeOK, Method
  <1>n. Nothing = [whole |-> TRUE, of |-> Blank] BY DEF Nothing
  <1>1. ASSUME Over PROVE Over'
    <2>1. p.do # "apply" /\ \A q \in proc' : q.do # "apply" BY <1>1 DEF Over
    <2>2. CASE live' = live BY <2>1, <2>2, <1>1 DEF Over
    <2>3. CASE Changes(p) /\ live' # live
      <3>1. PICK whole \in BOOLEAN : Turn(p, whole) BY <2>3, WorldTyped
      <3>2. CASE p.by # "terraform" BY <3>1, <3>2, <2>1, <1>0, <1>1, <1>l DEF Turn, Over
      <3>3. CASE p.by = "terraform"
        <4>1. p.do = "destroy"
          BY <3>3, <2>1, <2>3 DEF ServiceInv, Locked, TerraformDoes, Changes
        <4>2. ~Runs("terraform") BY <1>1 DEF Over, Runs
        <4>3. worked BY <3>3, <4>1, <4>2, <2>3 DEF LeavesHalf
        <4>4. Turn(p, TRUE) /\ Makes(p) = Blank BY <4>1, <4>3, <2>3 DEF Does, Makes
        <4>5. live'["terraform"] = Nothing BY <4>4, <3>3, <1>l, <1>n DEF Turn
        <4>q. QED BY <4>5, <2>1 DEF Over
      <3>q. QED BY <3>2, <3>3
    <2>q. QED BY <2>2, <2>3, WorldTyped
  <1>2. ASSUME worked, p.do = "destroy", p.by = "terraform" PROVE Over'
    <2>1. Turn(p, TRUE) /\ Makes(p) = Blank BY <1>2 DEF Does, Changes, Makes
    <2>2. live'["terraform"] = Nothing BY <2>1, <1>2, <1>l, <1>n DEF Turn
    <2>3. \A q \in proc' : q.do # "apply" BY <1>2 DEF ServiceInv, Locked, Locking
    <2>q. QED BY <2>2, <2>3 DEF Over
  <1>q. QED BY <1>1, <1>2

LEMMA Finishes ==
  ASSUME ServiceInv, NEW p \in proc, Finish(p) PROVE ServiceInv'
  <1>1. PICK worked \in BOOLEAN :
          /\ worked => CanFinish(p)
          /\ IF worked THEN Does(p) ELSE LeavesHalf(p)
          /\ IF Awaited(p) THEN GoesOn(p.of, worked) ELSE UNCHANGED <<tool, answer, gone>>
    BY Zenon DEF Finish
  <1>2. proc' = proc \ {p} /\ lock' = IF lock = p THEN NoOne ELSE lock BY DEF Finish
  <1>3. p \in [by : Method, do : Work, of : Caller] BY DEF ServiceInv, ServiceTypeOK
  <1>4. /\ dir' \subseteq Method /\ conf' \in [Method -> Conf] /\ live' \in [Method -> Live]
        /\ plan' \in [of : Conf, current : BOOLEAN]
    BY <1>1, WorldTyped
  <1>5. /\ proc' \subseteq [by : Method, do : Work, of : Caller] /\ lock' \in proc' \cup {NoOne}
    BY <1>2 DEF ServiceInv, ServiceTypeOK
  <1>6. Locked' BY <1>2 DEF ServiceInv, Locked
  <1>7. Over => Over' BY <1>1, <1>2, WorldGone
  <1>8. worked /\ p.do = "destroy" /\ p.by = "terraform" => Over' BY <1>1, <1>2, WorldGone
  <1>9. CASE Awaited(p)
    <2> DEFINE c == p.of
    <2>1. c \in Busy /\ Process(c) = p /\ GoesOn(c, worked) BY <1>1, <1>3, <1>9 DEF Awaited, Busy
    <2>2. Moves(c) /\ (tool'[c] # NoOne => worked \/ ~Next1(c).must) BY <2>1, GoesOnMoves
    <2>3. (tool'[c] # NoOne /\ tool[c].kind = "destroy"
            /\ tool[c].todo = <<Needs("destroy"), Tries("rm")>>) => Over'
      <3> SUFFICES ASSUME tool'[c] # NoOne, tool[c].kind = "destroy",
                          tool[c].todo = <<Needs("destroy"), Tries("rm")>>
                   PROVE  Over'
        OBVIOUS
      <3>1. \A a, b : Head(<<a, b>>) = a OBVIOUS
      <3>2. Next1(c) = Needs("destroy") BY <3>1 DEF Next1
      <3>3. Next1(c).must /\ Next1(c).do = "destroy" BY <3>2 DEF Needs
      <3>4. worked BY <3>3, <2>2
      <3>5. tool[c].by = "terraform" BY <2>1 DEF ServiceInv, ServicesFit, ServiceFits
      <3>6. p.do = "destroy" /\ p.by = "terraform" BY <2>1, <3>3, <3>5, ServiceHeadFits
      <3>q. QED BY <3>4, <3>6, <1>8
    <2> HIDE DEF c
    <2>q. QED BY <2>1, <2>2, <2>3, <1>4, <1>5, <1>6, <1>7, MovesInv
  <1>10. CASE ~Awaited(p)
    <2>1. UNCHANGED <<tool, answer, gone>> BY <1>1, <1>10
    <2>2. ServiceTypeOK' BY <2>1, <1>4, <1>5 DEF ServiceInv, ServiceTypeOK
    <2>3. ServicesFit' /\ Apart' BY <2>1 DEF ServiceInv, ServicesFit, Apart, Busy
    <2>4. Destroyed' BY <2>1, <1>7 DEF ServiceInv, Destroyed, Busy
    <2>5. ServiceFinal' BY <2>1, <1>7 DEF ServiceInv, ServiceFinal, Busy
    <2>q. QED BY <2>2, <2>3, <2>4, <2>5, <1>6 DEF ServiceInv
  <1>q. QED BY <1>9, <1>10

-----------------------------------------------------------------------------
LEMMA ServiceInvariance ==
  ASSUME ServiceInv, [ServiceNext]_svars PROVE ServiceInv'
  <1>1. CASE ServiceNext
    <2>1. ASSUME NEW c \in Caller,
                 \/ InstallService(c) \/ DestroyService(c) \/ InspectService(c) \/ RunPlaybook(c)
                 \/ ToolStep(c)
          PROVE  ServiceInv'
      BY <2>1, Calls, ToolSteps
    <2>2. ASSUME NEW p \in proc, Finish(p) PROVE ServiceInv' BY <2>2, Finishes
    <2>q. QED BY <1>1, <2>1, <2>2 DEF ServiceNext
  <1>2. CASE UNCHANGED svars
    <2>1. UNCHANGED <<dir, conf, live, plan, lock, proc, tool, answer, gone>>
      BY <1>2 DEF svars, machine
    <2>2. ServiceTypeOK' BY <2>1 DEF ServiceInv, ServiceTypeOK
    <2>3. ServicesFit' /\ Apart' BY <2>1 DEF ServiceInv, ServicesFit, Apart, Busy
    <2>4. Locked' BY <2>1 DEF ServiceInv, Locked
    <2>5. Destroyed' /\ ServiceFinal' BY <2>1 DEF ServiceInv, Destroyed, ServiceFinal, Over, Busy
    <2>q. QED BY <2>2, <2>3, <2>4, <2>5 DEF ServiceInv
  <1>q. QED BY <1>1, <1>2

\* The files, the processes and the calls are of their types, for any calls and any
\* number of processes they leave behind (service_installer.py).
THEOREM ServiceTypeCorrect == ServiceSpec => []ServiceTypeOK
  <1>1. ServiceInit => ServiceInv BY ServiceInvInit
  <1>2. ServiceInv /\ [ServiceNext]_svars => ServiceInv' BY ServiceInvariance
  <1>3. ServiceInv => ServiceTypeOK BY DEF ServiceInv
  <1>q. QED BY <1>1, <1>2, <1>3, PTL DEF ServiceSpec

\* Nothing brings back what a destroy removed that met no other call
\* (destroy_terraform_service), neither a process that was left behind nor a tool
\* that is no install.
THEOREM DestroyedIsFinal == ServiceSpec => []DestroyedStaysGone
  <1>1. ServiceInit => ServiceInv BY ServiceInvInit
  <1>2. ServiceInv /\ [ServiceNext]_svars => ServiceInv' BY ServiceInvariance
  <1>3. ServiceInv => DestroyedStaysGone BY DEF ServiceInv, ServiceFinal, Over, DestroyedStaysGone
  <1>q. QED BY <1>1, <1>2, <1>3, PTL DEF ServiceSpec

-----------------------------------------------------------------------------
(* What an install does that nothing disturbs.                             *)

\* The commands of an install that is no script, and those that change what runs.
InstallDoes == {"require", "look", "tool", "mkdir", "main", "vars", "init", "plan", "apply",
                "up", "play"}
Turning == {"apply", "up", "play"}

Words(s) == {s[i].do : i \in 1..Len(s)}

\* After every command of A, one of B is still to come.
Followed(s, A, B) == \A i \in 1..Len(s) : s[i].do \in A => \E j \in i+1..Len(s) : s[j].do \in B

\* Files are written before a plan is saved, both before the service is turned, and
\* the last command is looked at or changes nothing.
Orderly(m, s) ==
  /\ s \in StepList(InstallDoes)
  /\ m = "terraform" => Followed(s, {"main", "vars"}, {"plan"})
  /\ Followed(s, {"main", "vars", "plan"}, Turning)
  /\ s # << >> => s[Len(s)].must \/ s[Len(s)].do \in Harmless

\* Nothing has disturbed the call.
Clean(t) ==
  /\ t.kind = "install" /\ t.by # "script"
  /\ ~t.shared /\ ~t.heir /\ ~t.slipped

\* What call c has done by method m when the commands s are left: each write that is no
\* longer to come was its own.
Done(c, m, s) ==
  /\ "main" \notin Words(s) => conf[m].main = c
  /\ m \in {"terraform", "ansible"} /\ "vars" \notin Words(s) => conf[m].vars = c
  /\ m = "terraform" /\ "plan" \notin Words(s) => plan.of = conf[m]
  /\ Words(s) \cap Turning = {} => live[m] = [whole |-> TRUE, of |-> conf[m]]

Undisturbed(c) ==
  Clean(tool[c]) =>
    /\ Orderly(tool[c].by, tool[c].todo)
    /\ proc \subseteq {Process(c)}
    /\ proc # {} => tool[c].waits
    /\ tool[c].waits => Next1(c).do \notin Harmless
    /\ Done(c, tool[c].by, tool[c].todo)

Owned == \A c \in Busy : answer[c] = "none" /\ Undisturbed(c)

CInv == ServiceInv /\ Owned

LEMMA ShortLists ==
  ASSUME NEW S, NEW s \in Seq(S), s # << >>
  PROVE  /\ Len(s) \in Nat \ {0} /\ Tail(s) \in Seq(S) /\ Len(Tail(s)) = Len(s) - 1
         /\ Head(s) = s[1]
         /\ \A i \in 1..Len(s)-1 : Tail(s)[i] = s[i+1]
         /\ Len(s) = 1 <=> Tail(s) = << >>
  <1>1. Len(s) \in Nat \ {0} BY EmptySeq
  <1>2. Tail(s) \in Seq(S) /\ Len(Tail(s)) = Len(s) - 1 BY HeadTailProperties
  <1>3. Len(s) = 1 <=> Tail(s) = << >>
    <2>1. Len(Tail(s)) = 0 <=> Tail(s) = << >> BY <1>2, EmptySeq
    <2>q. QED BY <1>1, <1>2, <2>1
  <1>4. Head(s) = s[1] /\ \A i \in 1..Len(s)-1 : Tail(s)[i] = s[i+1] BY <1>1, <1>2
  <1>q. QED BY <1>1, <1>2, <1>3, <1>4

LEMMA FollowedRest ==
  ASSUME NEW S, NEW s \in Seq(S), s # << >>, NEW A, NEW B, Followed(s, A, B)
  PROVE  /\ Followed(Tail(s), A, B)
         /\ Head(s).do \in A => Words(Tail(s)) \cap B # {}
  <1> DEFINE t == Tail(s)
             n == Len(s)
  <1>1. n \in Nat \ {0} /\ Len(t) = n - 1 /\ Head(s) = s[1] /\ \A i \in 1..n-1 : t[i] = s[i+1]
    BY ShortLists
  <1> HIDE DEF t, n
  <1>2. \A i \in 1..n : s[i].do \in A => \E j \in i+1..n : s[j].do \in B
    BY DEF Followed, n
  <1>3. ASSUME NEW i \in 1..Len(t), t[i].do \in A PROVE \E j \in i+1..Len(t) : t[j].do \in B
    <2>1. i + 1 \in 1..n /\ s[i+1].do \in A BY <1>1, <1>3
    <2>2. PICK k \in i+1+1..n : s[k].do \in B BY <1>2, <2>1
    <2>3. k - 1 \in i+1..Len(t) /\ k - 1 \in 1..n-1 /\ k - 1 + 1 = k BY <1>1, <2>2
    <2>4. t[k-1] = s[k] BY <1>1, <2>3
    <2>q. QED BY <2>2, <2>3, <2>4
  <1>4. ASSUME Head(s).do \in A PROVE \E j \in 1..Len(t) : t[j].do \in B
    <2>1. 1 \in 1..n BY <1>1
    <2>2. PICK k \in 1+1..n : s[k].do \in B BY <1>1, <1>2, <1>4, <2>1
    <2>3. k - 1 \in 1..Len(t) /\ k - 1 \in 1..n-1 /\ k - 1 + 1 = k BY <1>1, <2>2
    <2>4. t[k-1] = s[k] BY <1>1, <2>3
    <2>q. QED BY <2>2, <2>3, <2>4
  <1>q. QED BY <1>3, <1>4 DEF Followed, Words, t

LEMMA WordsRest ==
  ASSUME NEW S, NEW s \in Seq(S), s # << >>
  PROVE  Words(s) = {Head(s).do} \cup Words(Tail(s))
  <1> DEFINE t == Tail(s)
             n == Len(s)
  <1>1. n \in Nat \ {0} /\ Len(t) = n - 1 /\ Head(s) = s[1] /\ \A i \in 1..n-1 : t[i] = s[i+1]
    BY ShortLists
  <1> HIDE DEF t, n
  <1>2. ASSUME NEW i \in 1..n PROVE s[i].do = Head(s).do \/ \E j \in 1..Len(t) : t[j].do = s[i].do
    <2>1. CASE i = 1 BY <2>1, <1>1
    <2>2. CASE i # 1
      <3>1. i - 1 \in 1..Len(t) /\ i - 1 \in 1..n-1 /\ i - 1 + 1 = i BY <1>1, <2>2
      <3>2. t[i-1] = s[i] BY <1>1, <3>1
      <3>q. QED BY <3>1, <3>2
    <2>q. QED BY <2>1, <2>2
  <1>3. ASSUME NEW j \in 1..Len(t) PROVE \E i \in 1..n : s[i].do = t[j].do
    <2>1. j + 1 \in 1..n /\ t[j] = s[j+1] BY <1>1
    <2>q. QED BY <2>1
  <1>4. \E i \in 1..n : s[i].do = Head(s).do BY <1>1
  <1>5. Words(s) = {s[i].do : i \in 1..n} /\ Words(t) = {t[j].do : j \in 1..Len(t)}
    BY DEF Words, n
  <1>6. ASSUME NEW w \in Words(s) PROVE w = Head(s).do \/ w \in Words(t)
    BY <1>2, <1>5
  <1>7. Words(t) \subseteq Words(s) /\ Head(s).do \in Words(s) BY <1>3, <1>4, <1>5
  <1>q. QED BY <1>6, <1>7 DEF t

\* What is left of an orderly list is orderly, and what its first command still has
\* after it.
LEMMA OrderlyRest ==
  ASSUME NEW m, NEW s, Orderly(m, s), s # << >>
  PROVE  /\ Orderly(m, Tail(s))
         /\ Words(s) = {Head(s).do} \cup Words(Tail(s)) /\ Head(s).do \in InstallDoes
         /\ m = "terraform" /\ Head(s).do \in {"main", "vars"} => "plan" \in Words(Tail(s))
         /\ Head(s).do \in {"main", "vars", "plan"} => Words(Tail(s)) \cap Turning # {}
         /\ Len(s) = 1 => Tail(s) = << >> /\ (Head(s).must \/ Head(s).do \in Harmless)
  <1>1. s \in Seq([do : InstallDoes, must : BOOLEAN]) BY DEF Orderly, StepList
  <1>2. Words(s) = {Head(s).do} \cup Words(Tail(s)) BY <1>1, WordsRest
  <1>3. /\ Tail(s) \in Seq([do : InstallDoes, must : BOOLEAN])
        /\ Head(s) \in [do : InstallDoes, must : BOOLEAN]
    BY <1>1, HeadTailProperties
  <1>4. ASSUME m = "terraform"
        PROVE  /\ Followed(Tail(s), {"main", "vars"}, {"plan"})
               /\ Head(s).do \in {"main", "vars"} => "plan" \in Words(Tail(s))
    <2>1. Followed(s, {"main", "vars"}, {"plan"}) BY <1>4 DEF Orderly
    <2>2. /\ Followed(Tail(s), {"main", "vars"}, {"plan"})
          /\ Head(s).do \in {"main", "vars"} => Words(Tail(s)) \cap {"plan"} # {}
      BY <1>1, <2>1, FollowedRest
    <2>q. QED BY <2>2
  <1>5. /\ Followed(Tail(s), {"main", "vars", "plan"}, Turning)
        /\ Head(s).do \in {"main", "vars", "plan"} => Words(Tail(s)) \cap Turning # {}
    BY <1>1, FollowedRest DEF Orderly
  <1>6. s[Len(s)].must \/ s[Len(s)].do \in Harmless BY DEF Orderly
  <1>7. Len(s) = 1 => Tail(s) = << >> /\ (Head(s).must \/ Head(s).do \in Harmless)
    BY <1>1, <1>6, ShortLists
  <1>8. ASSUME Tail(s) # << >>
        PROVE  Tail(s)[Len(Tail(s))].must \/ Tail(s)[Len(Tail(s))].do \in Harmless
    <2>1. Len(s) - 1 \in 1..Len(s)-1 /\ Len(Tail(s)) = Len(s) - 1
      BY <1>1, <1>8, ShortLists
    <2>2. Tail(s)[Len(s)-1] = s[Len(s)] BY <1>1, <2>1, ShortLists
    <2>q. QED BY <1>6, <2>1, <2>2
  <1>q. QED BY <1>2, <1>3, <1>4, <1>5, <1>7, <1>8 DEF Orderly, StepList

-----------------------------------------------------------------------------
\* A command that was over as it should: what is done is done.
LEMMA Advances ==
  ASSUME ServiceTypeOK, NEW c \in Caller, NEW m \in {"compose", "terraform", "ansible"},
         NEW s, Orderly(m, s), s # << >>, Done(c, m, s),
         Head(s).do = "apply" => m = "terraform",
         Head(s).do \in {"up", "play"} => m # "terraform",
         \/ Head(s).do \in Harmless /\ UNCHANGED <<conf, live, plan>>
         \/ \E p \in [by : Method, do : Work, of : Caller] :
              p.by = m /\ p.do = Head(s).do /\ p.of = c /\ Does(p)
  PROVE  Done(c, m, Tail(s))'
  <1> DEFINE d == Head(s).do
             W == Words(Tail(s))
  <1>1. Words(s) = {d} \cup W /\ d \in InstallDoes BY OrderlyRest
  <1>2. /\ m = "terraform" /\ d \in {"main", "vars"} => "plan" \in W
        /\ d \in {"main", "vars", "plan"} => W \cap Turning # {}
    BY OrderlyRest
  <1>3. /\ "main" \notin {d} \cup W => conf[m].main = c
        /\ m \in {"terraform", "ansible"} /\ "vars" \notin {d} \cup W => conf[m].vars = c
        /\ m = "terraform" /\ "plan" \notin {d} \cup W => plan.of = conf[m]
        /\ ({d} \cup W) \cap Turning = {} => live[m] = [whole |-> TRUE, of |-> conf[m]]
    BY <1>1 DEF Done
  <1>4. ASSUME /\ "main" \notin W => conf'[m].main = c
               /\ m \in {"terraform", "ansible"} /\ "vars" \notin W => conf'[m].vars = c
               /\ m = "terraform" /\ "plan" \notin W => plan'.of = conf'[m]
               /\ W \cap Turning = {} => live'[m] = [whole |-> TRUE, of |-> conf'[m]]
        PROVE  Done(c, m, Tail(s))'
    BY <1>4 DEF Done
  <1>5. m \in Method /\ conf \in [Method -> Conf] /\ live \in [Method -> Live]
        /\ plan \in [of : Conf, current : BOOLEAN] /\ conf[m] \in Conf
    BY DEF ServiceTypeOK, Method
  <1>6. CASE d \in Harmless /\ UNCHANGED <<conf, live, plan>>
    <2>1. d \notin {"main", "vars", "plan"} \cup Turning BY <1>6 DEF Harmless, Turning
    <2> HIDE DEF d, W
    <2>q. QED BY <1>3, <1>4, <1>6, <2>1
  <1>7. ASSUME NEW p \in [by : Method, do : Work, of : Caller],
               p.by = m, p.do = d, p.of = c, Does(p)
        PROVE  Done(c, m, Tail(s))'
    <2> HIDE DEF d, W
    <2>1. CASE d = "main"
      <3>1. conf' = [conf EXCEPT ![m].main = c] /\ UNCHANGED <<live, plan>>
        BY <1>7, <2>1 DEF Does, Changes, Writes
      <3>2. conf'[m].main = c /\ conf'[m].vars = conf[m].vars BY <3>1, <1>5 DEF Conf
      <3>q. QED BY <1>2, <1>3, <1>4, <2>1, <3>2
    <2>2. CASE d = "vars"
      <3>1. conf' = [conf EXCEPT ![m].vars = c] /\ UNCHANGED <<live, plan>>
        BY <1>7, <2>2 DEF Does, Changes, Writes
      <3>2. conf'[m].vars = c /\ conf'[m].main = conf[m].main BY <3>1, <1>5 DEF Conf
      <3>q. QED BY <1>2, <1>3, <1>4, <2>2, <3>2
    <2>3. CASE d = "plan"
      <3>1. plan' = [of |-> conf[m], current |-> TRUE] /\ UNCHANGED <<live, conf>>
        BY <1>7, <2>3 DEF Does, Changes, Writes
      <3>q. QED BY <1>2, <1>3, <1>4, <2>3, <3>1
    <2>4. CASE d \in Turning
      <3>1. /\ live' = [live EXCEPT ![m] = [whole |-> TRUE, of |-> Makes(p)]]
            /\ plan'.of = plan.of /\ conf' = conf
        BY <1>5, <1>7, <2>4 DEF Does, Changes, Turn, Turning
      <3>2. live'[m] = [whole |-> TRUE, of |-> Makes(p)] BY <3>1, <1>5
      <3>3. CASE d = "apply"
        <4>1. Makes(p) = plan.of /\ m = "terraform" BY <1>7, <3>3 DEF Makes, d
        <4>2. "plan" \in W => W \cap Turning # {}
          <5>1. Followed(Tail(s), {"main", "vars", "plan"}, Turning) BY OrderlyRest DEF Orderly
          <5>2. ASSUME "plan" \in W PROVE W \cap Turning # {}
            <6>1. PICK i \in 1..Len(Tail(s)) : Tail(s)[i].do = "plan" BY <5>2 DEF W, Words
            <6>2. PICK j \in i+1..Len(Tail(s)) : Tail(s)[j].do \in Turning
              BY <5>1, <6>1 DEF Followed
            <6>3. j \in 1..Len(Tail(s)) BY <6>1, <6>2
            <6>q. QED BY <6>2, <6>3 DEF W, Words
          <5>q. QED BY <5>2
        <4>q. QED BY <1>3, <1>4, <2>4, <3>1, <3>2, <3>3, <4>1, <4>2 DEF Turning
      <3>4. CASE d # "apply"
        <4>1. Makes(p) = conf[m] BY <1>7, <2>4, <3>4 DEF Makes, Turning
        <4>q. QED BY <1>3, <1>4, <2>4, <3>1, <3>2, <4>1 DEF Turning
      <3>q. QED BY <3>3, <3>4
    <2>5. CASE d \notin {"main", "vars", "plan"} \cup Turning
      <3>1. d \notin {"rm", "destroy", "script"} BY <1>1 DEF InstallDoes
      <3>2. UNCHANGED <<conf, live, plan>>
        BY <1>7, <2>5, <3>1 DEF Does, Changes, Writes, Turning
      <3>q. QED BY <1>3, <1>4, <2>5, <3>2
    <2>q. QED BY <2>1, <2>2, <2>3, <2>4, <2>5
  <1>q. QED BY <1>6, <1>7

-----------------------------------------------------------------------------
\* How a call goes on, with what it remembers.
LEMMA Continues ==
  ASSUME ServiceInv, NEW c \in Busy, NEW worked \in BOOLEAN, GoesOn(c, worked)
  PROVE  /\ \A d \in Caller \ {c} : tool'[d] = tool[d] /\ answer'[d] = answer[d]
         /\ \/ /\ tool'[c] = NoOne
               /\ answer'[c] = "success" =>
                    Len(tool[c].todo) = 1 /\ (worked \/ ~Next1(c).must)
            \/ /\ tool'[c] # NoOne /\ answer'[c] = answer[c] /\ Len(tool[c].todo) # 1
               /\ tool'[c] = [tool[c] EXCEPT
                    !.todo = Tail(tool[c].todo), !.waits = FALSE,
                    !.slipped = @ \/ (~worked /\ Next1(c).do \notin Harmless)]
  <1>0. c \in Caller /\ tool[c] \in Underway /\ ServiceFits(tool[c])
    BY ServiceHeadFits DEF ServiceInv, ServicesFit
  <1>1. /\ tool \in [Caller -> Underway \cup {NoOne}]
        /\ answer \in [Caller -> {"none", "success", "error"}]
    BY DEF ServiceInv, ServiceTypeOK
  <1>2. CASE ~worked /\ Next1(c).must
    <2>1. Stop(c, "error") BY <1>2 DEF GoesOn
    <2>q. QED BY <2>1, <1>0, <1>1 DEF Stop
  <1>3. CASE (worked \/ ~Next1(c).must) /\ Len(tool[c].todo) = 1
    <2>1. Stop(c, "success") BY <1>3 DEF GoesOn
    <2>q. QED BY <2>1, <1>0, <1>1, <1>3 DEF Stop
  <1>4. CASE (worked \/ ~Next1(c).must) /\ Len(tool[c].todo) # 1
    <2> DEFINE slip == tool[c].slipped \/ (~worked /\ Next1(c).do \notin Harmless)
    <2>1. /\ tool' = [tool EXCEPT ![c].todo = Tail(@), ![c].waits = FALSE,
                                  ![c].slipped = @ \/ (~worked /\ Next1(c).do \notin Harmless)]
          /\ UNCHANGED answer
      BY <1>4 DEF GoesOn
    <2>2. /\ tool'[c] = [tool[c] EXCEPT !.todo = Tail(tool[c].todo), !.waits = FALSE,
                                        !.slipped = slip]
          /\ \A d \in Caller \ {c} : tool'[d] = tool[d]
      BY <2>1, <1>0, <1>1 DEF Underway
    <2>3. slip \in BOOLEAN BY Zenon
    <2>4. tool'[c] # NoOne
      <3>1. Tail(tool[c].todo) \in Seq([do : Work, must : BOOLEAN])
        BY <1>0, HeadTailProperties DEF Underway, ServiceFits
      <3> HIDE DEF slip
      <3>2. tool'[c] \in Underway BY <3>1, <2>2, <2>3, <1>0 DEF Underway
      <3>q. QED BY <3>2, NobodyApart
    <2>5. [tool[c] EXCEPT !.todo = Tail(tool[c].todo), !.waits = FALSE, !.slipped = slip]
            = [tool[c] EXCEPT !.todo = Tail(tool[c].todo), !.waits = FALSE,
                 !.slipped = @ \/ (~worked /\ Next1(c).do \notin Harmless)]
      BY <1>0 DEF Underway
    <2>q. QED BY <2>1, <2>2, <2>4, <2>5, <1>4
  <1>q. QED BY <1>2, <1>3, <1>4

\* A call that is not disturbed is the only one; the others need keep nothing.
LEMMA OwnedKept ==
  ASSUME CInv, NEW c \in Busy,
         \A d \in Caller \ {c} : tool'[d] = tool[d] /\ answer'[d] = answer[d],
         tool'[c] # NoOne => answer'[c] = answer[c] /\ Undisturbed(c)'
  PROVE  Owned'
  <1> SUFFICES ASSUME NEW d \in Busy' PROVE answer'[d] = "none" /\ Undisturbed(d)'
    BY DEF Owned
  <1>1. d \in Caller /\ c \in Caller /\ tool'[d] # NoOne BY DEF Busy
  <1>2. CASE d = c BY <1>1, <1>2 DEF CInv, Owned
  <1>3. CASE d # c
    <2>1. tool'[d] = tool[d] /\ answer'[d] = answer[d] /\ d \in Busy BY <1>1, <1>3 DEF Busy
    <2>2. tool[d].shared BY <1>3, <2>1 DEF CInv, ServiceInv, Apart
    <2>q. QED BY <2>1, <2>2 DEF CInv, Owned, Undisturbed, Clean
  <1>q. QED BY <1>2, <1>3

\* The next command of a call that is not disturbed.
LEMMA CleanHead ==
  ASSUME CInv, NEW c \in Busy, Clean(tool[c])
  PROVE  /\ tool[c].by \in {"compose", "terraform", "ansible"}
         /\ Orderly(tool[c].by, tool[c].todo) /\ tool[c].todo # << >>
         /\ Done(c, tool[c].by, tool[c].todo)
         /\ Head(tool[c].todo).do = Next1(c).do
         /\ Next1(c).do = "apply" => tool[c].by = "terraform"
         /\ Next1(c).do \in {"up", "play"} => tool[c].by # "terraform"
         /\ Len(tool[c].todo) = 1 =>
              Tail(tool[c].todo) = << >> /\ (Next1(c).must \/ Next1(c).do \in Harmless)
  <1>1. Undisturbed(c) /\ tool[c] \in Underway /\ ServiceFits(tool[c])
    BY ServiceHeadFits DEF CInv, Owned, ServiceInv, ServicesFit
  <1>2. /\ tool[c].by \in {"compose", "terraform", "ansible"}
        /\ Orderly(tool[c].by, tool[c].todo) /\ tool[c].todo # << >>
        /\ Done(c, tool[c].by, tool[c].todo)
    BY <1>1 DEF Undisturbed, Underway, Method, Clean, ServiceFits
  <1>3. /\ Next1(c).do = "apply" => tool[c].by = "terraform"
        /\ Next1(c).do \in {"up", "play"} => tool[c].by # "terraform"
    BY ServiceHeadFits DEF CInv, TerraformDoes, OthersDo
  <1>4. Next1(c) = Head(tool[c].todo) BY DEF Next1
  <1>q. QED BY <1>2, <1>3, <1>4, OrderlyRest

\* What it has done once that command was over as it should be.
LEMMA CleanAdvances ==
  ASSUME CInv, NEW c \in Busy, Clean(tool[c]), NEW m, m = tool[c].by,
         NEW s, s = Tail(tool[c].todo),
         \/ Next1(c).do \in Harmless /\ UNCHANGED <<conf, live, plan>>
         \/ Does(Process(c))
  PROVE  Done(c, m, s)'
  <1>1. PICK t : t = tool[c].todo OBVIOUS
  <1>2. c \in Caller /\ ServiceTypeOK BY DEF Busy, CInv, ServiceInv
  <1>3. /\ m \in {"compose", "terraform", "ansible"} /\ Orderly(m, t) /\ t # << >>
        /\ Done(c, m, t) /\ Head(t).do = Next1(c).do
        /\ Head(t).do = "apply" => m = "terraform"
        /\ Head(t).do \in {"up", "play"} => m # "terraform"
    BY <1>1, CleanHead
  <1>4. /\ Process(c) \in [by : Method, do : Work, of : Caller]
        /\ Process(c).by = m /\ Process(c).do = Head(t).do /\ Process(c).of = c
    BY <1>1, ServiceHeadFits DEF CInv, Next1
  <1>5. \/ Head(t).do \in Harmless /\ UNCHANGED <<conf, live, plan>>
        \/ \E p \in [by : Method, do : Work, of : Caller] :
             p.by = m /\ p.do = Head(t).do /\ p.of = c /\ Does(p)
    BY <1>3, <1>4
  <1>q. QED BY <1>1, <1>2, <1>3, <1>5, Advances

\* A list that is used up leaves the service as the client asked.
LEMMA DoneAll ==
  ASSUME NEW c, NEW m, Done(c, m, << >>)'
  PROVE  /\ live'[m].whole /\ live'[m].of.main = c
         /\ m \in {"terraform", "ansible"} => live'[m].of.vars = c
  <1>1. Words(<< >>) = {} BY DEF Words
  <1>q. QED BY <1>1 DEF Done

\* A command is over.  A call that stays undisturbed waits for no process any more, and
\* one that ends with success has done everything.
LEMMA CleanGoesOn ==
  ASSUME CInv, NEW c \in Busy, NEW worked \in BOOLEAN, GoesOn(c, worked),
         Clean(tool[c]) /\ (worked \/ Next1(c).do \in Harmless) =>
           /\ proc' = {}
           /\ \/ Next1(c).do \in Harmless /\ UNCHANGED <<conf, live, plan>>
              \/ Does(Process(c))
  PROVE  /\ Owned'
         /\ Clean(tool[c]) /\ answer'[c] = "success" =>
              /\ live'[tool[c].by].whole
              /\ live'[tool[c].by].of.main = c
              /\ tool[c].by \in {"terraform", "ansible"} => live'[tool[c].by].of.vars = c
  <1> DEFINE m == tool[c].by
             s == Tail(tool[c].todo)
  <1>0. tool[c] \in Underway /\ answer[c] = "none" /\ ServiceInv BY ServiceHeadFits DEF CInv, Owned
  <1>1. ASSUME Clean(tool[c]), worked \/ Next1(c).do \in Harmless
        PROVE  \A n, r : n = m /\ r = s => Done(c, n, r)'
    BY <1>1, CleanAdvances
  <1>2. ASSUME tool'[c] # NoOne PROVE answer'[c] = answer[c] /\ Undisturbed(c)'
    <2>1. /\ answer'[c] = answer[c] /\ Len(tool[c].todo) # 1
          /\ tool'[c] = [tool[c] EXCEPT
               !.todo = Tail(tool[c].todo), !.waits = FALSE,
               !.slipped = @ \/ (~worked /\ Next1(c).do \notin Harmless)]
      BY <1>0, <1>2, Continues
    <2>2. /\ tool'[c].by = m /\ tool'[c].todo = s /\ tool'[c].waits = FALSE
          /\ Clean(tool'[c]) => Clean(tool[c]) /\ (worked \/ Next1(c).do \in Harmless)
      BY <1>0, <2>1 DEF Underway, Clean
    <2>3. Undisturbed(c)'
      <3> SUFFICES ASSUME Clean(tool'[c])
                   PROVE  /\ Orderly(tool'[c].by, tool'[c].todo)
                          /\ proc' \subseteq {Process(c)'}
                          /\ proc' # {} => tool'[c].waits
                          /\ tool'[c].waits => Next1(c)'.do \notin Harmless
                          /\ Done(c, tool[c].by, tool[c].todo)'
        BY DEF Undisturbed
      <3>1. Clean(tool[c]) /\ (worked \/ Next1(c).do \in Harmless) /\ proc' = {} BY <2>2
      <3>2. PICK n, r : n = m /\ r = s OBVIOUS
      <3>3. Done(c, n, r)' BY <1>1, <3>1, <3>2
      <3>4. tool'[c].by = n /\ tool'[c].todo = r BY <2>2, <3>2
      <3>5. Done(c, tool[c].by, tool[c].todo)' BY <3>3, <3>4
      <3>6. Orderly(m, s) BY <3>1, CleanHead, OrderlyRest
      <3>q. QED BY <2>2, <3>1, <3>5, <3>6
    <2>q. QED BY <2>1, <2>3
  <1>3. Owned' BY <1>0, <1>2, Continues, OwnedKept
  <1>4. ASSUME Clean(tool[c]), answer'[c] = "success"
        PROVE  /\ live'[m].whole /\ live'[m].of.main = c
               /\ m \in {"terraform", "ansible"} => live'[m].of.vars = c
    <2>1. Len(tool[c].todo) = 1 /\ (worked \/ ~Next1(c).must)
      BY <1>0, <1>4, Continues
    <2>2. s = << >> /\ (worked \/ Next1(c).do \in Harmless) BY <1>4, <2>1, CleanHead
    <2>3. PICK n : n = m OBVIOUS
    <2>4. Done(c, n, << >>)' BY <1>1, <1>4, <2>2, <2>3
    <2>q. QED BY <2>3, <2>4, DoneAll
  <1>q. QED BY <1>3, <1>4

\* The steps of the calls and of the processes.
LEMMA CleanTool ==
  ASSUME CInv, NEW c \in Caller, ToolStep(c)
  PROVE  /\ Owned' /\ c \in Busy
         /\ Clean(tool[c]) /\ answer'[c] = "success" =>
              /\ live'[tool[c].by].whole
              /\ live'[tool[c].by].of.main = c
              /\ tool[c].by \in {"terraform", "ansible"} => live'[tool[c].by].of.vars = c
         /\ \A d \in Caller \ {c} : answer'[d] = answer[d]
  <1>0. c \in Busy /\ tool[c] \in Underway /\ answer[c] = "none" /\ ServiceInv
    BY ServiceHeadFits DEF ToolStep, Busy, CInv, Owned
  <1>u. Clean(tool[c]) =>
          /\ proc \subseteq {Process(c)} /\ (proc # {} => tool[c].waits)
          /\ tool[c].waits => Next1(c).do \notin Harmless
    BY <1>0 DEF CInv, Owned, Undisturbed
  <1>t. /\ tool \in [Caller -> Underway \cup {NoOne}]
        /\ answer \in [Caller -> {"none", "success", "error"}]
    BY <1>0 DEF ServiceInv, ServiceTypeOK
  <1>1. CASE Ask(c)
    <2>1. PICK worked \in BOOLEAN : GoesOn(c, worked) BY <1>1 DEF Ask
    <2>2. Next1(c).do \in Harmless /\ UNCHANGED <<conf, live, plan, proc>>
      BY <1>1 DEF Ask, machine
    <2>3. Clean(tool[c]) => proc' = {} BY <1>u, <2>2
    <2>q. QED BY <1>0, <2>1, <2>2, <2>3, CleanGoesOn, Continues
  <1>2. CASE Start(c)
    <2>1. CASE Next1(c).do \in Locking /\ lock # NoOne
      <3>1. GoesOn(c, FALSE) BY <1>2, <2>1 DEF Start
      <3>2. proc # {} BY <2>1, <1>0 DEF ServiceInv, ServiceTypeOK
      <3>3. ~tool[c].waits BY <1>2 DEF Start
      <3>4. ~Clean(tool[c]) BY <1>u, <3>2, <3>3
      <3>q. QED BY <1>0, <3>1, <3>4, CleanGoesOn, Continues
    <2>2. CASE ~(Next1(c).do \in Locking /\ lock # NoOne)
      <3>1. /\ proc' = proc \cup {Process(c)} /\ tool' = [tool EXCEPT ![c].waits = TRUE]
            /\ UNCHANGED <<answer, conf, live, plan>>
            /\ ~tool[c].waits /\ Next1(c).do \notin Harmless
        BY <1>2, <2>2 DEF Start
      <3>2. /\ tool'[c].by = tool[c].by /\ tool'[c].todo = tool[c].todo /\ tool'[c].waits
            /\ Clean(tool'[c]) => Clean(tool[c])
            /\ \A d \in Caller \ {c} : tool'[d] = tool[d]
        BY <1>0, <1>t, <3>1 DEF Underway, Clean
      <3>3. Undisturbed(c)'
        <4> SUFFICES ASSUME Clean(tool'[c])
                     PROVE  /\ Orderly(tool'[c].by, tool'[c].todo)
                            /\ proc' \subseteq {Process(c)'}
                            /\ proc' # {} => tool'[c].waits
                            /\ tool'[c].waits => Next1(c)'.do \notin Harmless
                            /\ Done(c, tool[c].by, tool[c].todo)'
          BY DEF Undisturbed
        <4>1. Clean(tool[c]) /\ proc = {} BY <1>u, <3>1, <3>2
        <4>2. Next1(c)' = Next1(c) /\ Process(c)' = Process(c) BY <3>2 DEF Next1, Process
        <4>3. Orderly(tool[c].by, tool[c].todo) /\ Done(c, tool[c].by, tool[c].todo)
          BY <4>1, CleanHead, <1>0
        <4>4. Done(c, tool[c].by, tool[c].todo)'
          BY <3>1, <3>2, <4>3 DEF Done
        <4>q. QED BY <3>1, <3>2, <4>1, <4>2, <4>3, <4>4
      <3>4. Owned' BY <1>0, <3>1, <3>2, <3>3, OwnedKept
      <3>q. QED BY <1>0, <3>1, <3>4
    <2>q. QED BY <2>1, <2>2
  <1>3. CASE StopsWaiting(c)
    <2>1. GoesOn(c, FALSE) /\ tool[c].waits BY <1>3 DEF StopsWaiting
    <2>q. QED BY <1>0, <1>u, <2>1, CleanGoesOn, Continues
  <1>4. CASE NotMet(c) \/ Dismiss(c)
    <2>1. Stop(c, "error") BY <1>4 DEF NotMet, Dismiss
    <2>2. /\ tool'[c] = NoOne /\ answer'[c] = "error"
          /\ \A d \in Caller \ {c} : tool'[d] = tool[d] /\ answer'[d] = answer[d]
      BY <1>0, <1>t, <2>1 DEF Stop
    <2>q. QED BY <1>0, <2>2, OwnedKept
  <1>q. QED BY <1>1, <1>2, <1>3, <1>4 DEF ToolStep

LEMMA CleanFinish ==
  ASSUME CInv, NEW p \in proc, Finish(p)
  PROVE  /\ Owned'
         /\ \A c \in Busy : Clean(tool[c]) /\ answer'[c] = "success" =>
              /\ live'[tool[c].by].whole
              /\ live'[tool[c].by].of.main = c
              /\ tool[c].by \in {"terraform", "ansible"} => live'[tool[c].by].of.vars = c
  <1>1. PICK worked \in BOOLEAN :
          /\ worked => CanFinish(p)
          /\ IF worked THEN Does(p) ELSE LeavesHalf(p)
          /\ IF Awaited(p) THEN GoesOn(p.of, worked) ELSE UNCHANGED <<tool, answer, gone>>
    BY Zenon DEF Finish
  <1>2. proc' = proc \ {p} BY DEF Finish
  <1>3. p \in [by : Method, do : Work, of : Caller] BY DEF CInv, ServiceInv, ServiceTypeOK
  <1>4. \A d \in Busy : /\ Clean(tool[d]) => proc \subseteq {Process(d)} /\ tool[d].waits
                        /\ Clean(tool[d]) => Next1(d).do \notin Harmless
                        /\ answer[d] = "none" /\ tool[d] # NoOne
    BY DEF CInv, Owned, Undisturbed, Busy
  <1>5. CASE Awaited(p)
    <2> DEFINE c == p.of
    <2>1. c \in Busy /\ Process(c) = p /\ GoesOn(c, worked)
      BY <1>1, <1>3, <1>5 DEF Awaited, Busy
    <2>2. Clean(tool[c]) => proc' = {} BY <1>2, <1>4, <2>1
    <2>3. Clean(tool[c]) /\ (worked \/ Next1(c).do \in Harmless) => Does(Process(c))
      BY <1>1, <1>4, <2>1
    <2> HIDE DEF c
    <2>4. /\ Owned'
          /\ Clean(tool[c]) /\ answer'[c] = "success" =>
              /\ live'[tool[c].by].whole
              /\ live'[tool[c].by].of.main = c
              /\ tool[c].by \in {"terraform", "ansible"} => live'[tool[c].by].of.vars = c
      BY <2>1, <2>2, <2>3, CleanGoesOn
    <2>5. \A d \in Busy \ {c} : answer'[d] = "none"
      BY <1>4, <2>1, Continues DEF Busy, CInv
    <2>q. QED BY <2>4, <2>5
  <1>6. CASE ~Awaited(p)
    <2>1. UNCHANGED <<tool, answer>> BY <1>1, <1>6
    <2>2. ASSUME NEW d \in Busy, Clean(tool[d]) PROVE FALSE
      <3>1. p = Process(d) /\ tool[d].waits /\ tool[d] # NoOne BY <1>4, <2>2
      <3>2. p.of = d BY <3>1 DEF Process
      <3>q. QED BY <3>1, <3>2, <1>6 DEF Awaited
    <2>3. Owned' BY <1>4, <2>1, <2>2 DEF Owned, Undisturbed, Busy
    <2>q. QED BY <2>2, <2>3
  <1>q. QED BY <1>5, <1>6

-----------------------------------------------------------------------------
(* Calls begin with orderly lists.                                         *)

LEMMA CleanCalled ==
  ASSUME CInv, NEW c \in Caller, NEW kind, NEW m, NEW todo, Called(c, kind, m, todo),
         kind = "install" /\ m # "script" =>
           /\ Orderly(m, todo) /\ "main" \in Words(todo) /\ Words(todo) \cap Turning # {}
           /\ m \in {"terraform", "ansible"} => "vars" \in Words(todo)
           /\ m = "terraform" => "plan" \in Words(todo)
  PROVE  Owned' /\ answer' = answer
  <1> DEFINE new == [kind |-> kind, by |-> m, todo |-> todo, waits |-> FALSE,
                     slipped |-> FALSE, shared |-> Busy # {}, heir |-> proc # {}]
  <1>0. /\ c \notin Busy /\ answer[c] = "none" /\ UNCHANGED <<proc, answer>>
        /\ tool' = [d \in Caller |->
             IF d = c THEN new ELSE IF d \in Busy THEN [tool[d] EXCEPT !.shared = TRUE]
             ELSE tool[d]]
    BY DEF Called, Busy
  <1>1. /\ new.by = m /\ new.todo = todo /\ ~new.waits
        /\ Clean(new) => kind = "install" /\ m # "script" /\ proc = {}
    BY DEF Clean
  <1> HIDE DEF new
  <1>2. Busy' \subseteq Busy \cup {c} BY <1>0 DEF Busy
  <1>3. tool'[c] = new /\ \A d \in Busy : tool'[d].shared
    <2>1. \A d \in Busy : tool[d] \in Underway BY DEF CInv, ServiceInv, ServicesFit
    <2>q. QED BY <1>0, <2>1 DEF Busy, Underway
  <1>4. Undisturbed(c)'
    <2> SUFFICES ASSUME Clean(tool'[c])
                 PROVE  /\ Orderly(tool'[c].by, tool'[c].todo)
                        /\ proc' \subseteq {Process(c)'}
                        /\ proc' # {} => tool'[c].waits
                        /\ tool'[c].waits => Next1(c)'.do \notin Harmless
                        /\ Done(c, tool[c].by, tool[c].todo)'
      BY DEF Undisturbed
    <2>1. kind = "install" /\ m # "script" /\ proc' = {} BY <1>0, <1>1, <1>3
    <2>q. QED BY <1>1, <1>3, <2>1 DEF Done
  <1>5. \A d \in Busy : Undisturbed(d)' BY <1>3 DEF Undisturbed, Clean
  <1>q. QED BY <1>0, <1>2, <1>4, <1>5 DEF Owned, CInv

LEMMA PrependedLists ==
  ASSUME NEW a \in [do : InstallDoes, must : BOOLEAN], NEW s \in StepList(InstallDoes), s # << >>,
         NEW m, a.do \notin {"main", "vars", "plan"}, Orderly(m, s)
  PROVE  Orderly(m, <<a>> \o s) /\ Words(s) \subseteq Words(<<a>> \o s)
  <1> DEFINE t == <<a>> \o s
             n == Len(s)
  <1>1. s \in Seq([do : InstallDoes, must : BOOLEAN]) /\ n \in Nat \ {0} BY EmptySeq DEF StepList
  <1>2. /\ t \in Seq([do : InstallDoes, must : BOOLEAN]) /\ Len(t) = n + 1 /\ t[1] = a
        /\ \A i \in 1..n : t[i+1] = s[i]
    BY <1>1, ConcatProperties
  <1> HIDE DEF t, n
  <1>3. ASSUME NEW A, NEW B, Followed(s, A, B), a.do \notin A PROVE Followed(t, A, B)
    <2> SUFFICES ASSUME NEW i \in 1..n+1, t[i].do \in A PROVE \E j \in i+1..n+1 : t[j].do \in B
      BY <1>2 DEF Followed
    <2>1. i # 1 BY <1>2, <1>3
    <2>2. i - 1 \in 1..n /\ i - 1 + 1 = i BY <1>1, <2>1
    <2>3. s[i-1].do \in A BY <1>2, <2>2
    <2>4. PICK k \in i-1+1..n : s[k].do \in B BY <1>3, <2>2, <2>3 DEF Followed, n
    <2>5. k \in 1..n /\ k + 1 \in i+1..n+1 BY <1>1, <2>2, <2>4
    <2>6. t[k+1] = s[k] BY <1>2, <2>5
    <2>q. QED BY <2>4, <2>5, <2>6
  <1>4. t[Len(t)] = s[n] BY <1>1, <1>2
  <1>5. Orderly(m, t) BY <1>2, <1>3, <1>4 DEF Orderly, StepList, n
  <1>6. ASSUME NEW i \in 1..n PROVE \E j \in 1..n+1 : t[j].do = s[i].do
    <2>1. i + 1 \in 1..n+1 /\ t[i+1] = s[i] BY <1>1, <1>2
    <2>q. QED BY <2>1
  <1>7. Words(s) = {s[i].do : i \in 1..n} /\ Words(t) = {t[j].do : j \in 1..n+1}
    BY <1>2 DEF Words, n
  <1>8. Words(s) \subseteq Words(t) BY <1>6, <1>7
  <1>q. QED BY <1>5, <1>8 DEF t

LEMMA ComposeOrderly ==
  /\ Orderly("compose", Compose) /\ "main" \in Words(Compose) /\ Words(Compose) \cap Turning # {}
  <1>1. Compose \in StepList(InstallDoes)
    BY DEF Compose, StepList, InstallDoes, Needs, Tries
  <1>2. /\ Len(Compose) = 5 /\ Compose[1].do = "look" /\ Compose[2].do = "mkdir"
        /\ Compose[3].do = "main" /\ Compose[4].do = "up" /\ Compose[5].do = "look"
    BY DEF Compose, Needs, Tries
  <1>3. Followed(Compose, {"main", "vars", "plan"}, Turning)
    <2> SUFFICES ASSUME NEW i \in 1..5, Compose[i].do \in {"main", "vars", "plan"}
                 PROVE  \E j \in i+1..5 : Compose[j].do \in Turning
      BY <1>2 DEF Followed
    <2>1. i = 3 BY <1>2
    <2>2. 4 \in i+1..5 /\ Compose[4].do \in Turning BY <1>2, <2>1 DEF Turning
    <2>q. QED BY <2>2
  <1>4. 3 \in 1..Len(Compose) /\ 4 \in 1..Len(Compose) BY <1>2
  <1>5. "main" \in Words(Compose) /\ "up" \in Words(Compose) BY <1>2, <1>4 DEF Words
  <1>q. QED BY <1>1, <1>2, <1>3, <1>5 DEF Orderly, Turning, Harmless

LEMMA AnsibleOrderly ==
  /\ Orderly("ansible", Ansible) /\ {"main", "vars"} \subseteq Words(Ansible)
  /\ Words(Ansible) \cap Turning # {}
  <1>1. Ansible \in StepList(InstallDoes)
    BY DEF Ansible, StepList, InstallDoes, Needs, Tries
  <1>2. /\ Len(Ansible) = 5 /\ Ansible[1].do = "mkdir" /\ Ansible[2].do = "main"
        /\ Ansible[3].do = "vars" /\ Ansible[4].do = "tool" /\ Ansible[5].do = "play"
        /\ Ansible[5].must
    BY DEF Ansible, Needs, Tries
  <1>3. Followed(Ansible, {"main", "vars", "plan"}, Turning)
    <2> SUFFICES ASSUME NEW i \in 1..5, Ansible[i].do \in {"main", "vars", "plan"}
                 PROVE  \E j \in i+1..5 : Ansible[j].do \in Turning
      BY <1>2 DEF Followed
    <2>1. i \in {2, 3} BY <1>2
    <2>2. 5 \in i+1..5 /\ Ansible[5].do \in Turning BY <1>2, <2>1 DEF Turning
    <2>q. QED BY <2>2
  <1>4. 2 \in 1..Len(Ansible) /\ 3 \in 1..Len(Ansible) /\ 5 \in 1..Len(Ansible) BY <1>2
  <1>5. "main" \in Words(Ansible) /\ "vars" \in Words(Ansible) /\ "play" \in Words(Ansible)
    BY <1>2, <1>4 DEF Words
  <1>q. QED BY <1>1, <1>2, <1>3, <1>5 DEF Orderly, Turning

LEMMA TerraformOrderly ==
  /\ Orderly("terraform", Terraform) /\ {"main", "vars", "plan"} \subseteq Words(Terraform)
  /\ Words(Terraform) \cap Turning # {}
  <1>1. Terraform \in StepList(InstallDoes)
    BY DEF Terraform, StepList, InstallDoes, Needs, Tries
  <1>2. /\ Len(Terraform) = 9 /\ Terraform[1].do = "tool" /\ Terraform[2].do = "mkdir"
        /\ Terraform[3].do = "main" /\ Terraform[4].do = "vars" /\ Terraform[5].do = "init"
        /\ Terraform[6].do = "plan" /\ Terraform[7].do = "apply" /\ Terraform[8].do = "look"
        /\ Terraform[9].do = "look"
    BY DEF Terraform, Needs, Tries
  <1>3. Followed(Terraform, {"main", "vars", "plan"}, Turning)
    <2> SUFFICES ASSUME NEW i \in 1..9, Terraform[i].do \in {"main", "vars", "plan"}
                 PROVE  \E j \in i+1..9 : Terraform[j].do \in Turning
      BY <1>2 DEF Followed
    <2>1. i \in {3, 4, 6} BY <1>2
    <2>2. 7 \in i+1..9 /\ Terraform[7].do \in Turning BY <1>2, <2>1 DEF Turning
    <2>q. QED BY <2>2
  <1>4. Followed(Terraform, {"main", "vars"}, {"plan"})
    <2> SUFFICES ASSUME NEW i \in 1..9, Terraform[i].do \in {"main", "vars"}
                 PROVE  \E j \in i+1..9 : Terraform[j].do \in {"plan"}
      BY <1>2 DEF Followed
    <2>1. i \in {3, 4} BY <1>2
    <2>2. 6 \in i+1..9 /\ Terraform[6].do \in {"plan"} BY <1>2, <2>1
    <2>q. QED BY <2>2
  <1>5. /\ 3 \in 1..Len(Terraform) /\ 4 \in 1..Len(Terraform)
        /\ 6 \in 1..Len(Terraform) /\ 7 \in 1..Len(Terraform)
    BY <1>2
  <1>6. /\ "main" \in Words(Terraform) /\ "vars" \in Words(Terraform)
        /\ "plan" \in Words(Terraform) /\ "apply" \in Words(Terraform)
    BY <1>2, <1>5 DEF Words
  <1>q. QED BY <1>1, <1>2, <1>3, <1>4, <1>6 DEF Orderly, Turning, Harmless

LEMMA CleanCalls ==
  ASSUME CInv, NEW c \in Caller,
         InstallService(c) \/ DestroyService(c) \/ InspectService(c) \/ RunPlaybook(c)
  PROVE  Owned' /\ answer' = answer
  <1>1. /\ Requirements = <<Tries("require")>>
        /\ Tries("require") \in [do : InstallDoes, must : BOOLEAN]
        /\ Tries("require").do \notin {"main", "vars", "plan"}
    BY DEF Requirements, Tries, InstallDoes
  <1>2. CASE Called(c, "install", "compose", Requirements \o Compose)
    <2>1. Compose \in StepList(InstallDoes) /\ Compose # << >>
      BY ComposeOrderly, OtherLists DEF Orderly
    <2>2. /\ Orderly("compose", Requirements \o Compose)
          /\ Words(Compose) \subseteq Words(Requirements \o Compose)
      BY <1>1, <2>1, ComposeOrderly, PrependedLists
    <2>q. QED BY <1>2, <2>2, ComposeOrderly, CleanCalled
  <1>3. CASE Called(c, "install", "ansible", Requirements \o Ansible)
    <2>1. Ansible \in StepList(InstallDoes) /\ Ansible # << >>
      BY AnsibleOrderly, OtherLists DEF Orderly
    <2>2. /\ Orderly("ansible", Requirements \o Ansible)
          /\ Words(Ansible) \subseteq Words(Requirements \o Ansible)
      BY <1>1, <2>1, AnsibleOrderly, PrependedLists
    <2>q. QED BY <1>3, <2>2, AnsibleOrderly, CleanCalled
  <1>4. CASE Called(c, "install", "terraform", Requirements \o Terraform)
    <2>1. Terraform \in StepList(InstallDoes) /\ Terraform # << >>
      BY TerraformOrderly, TerraformLists DEF Orderly
    <2>2. /\ Orderly("terraform", Requirements \o Terraform)
          /\ Words(Terraform) \subseteq Words(Requirements \o Terraform)
      BY <1>1, <2>1, TerraformOrderly, PrependedLists
    <2>q. QED BY <1>4, <2>2, TerraformOrderly, CleanCalled
  <1>5. CASE Called(c, "install", "script", Requirements \o Script)
    BY <1>5, CleanCalled
  <1>6. CASE InstallService(c) BY <1>2, <1>3, <1>4, <1>5, <1>6 DEF InstallService
  <1>7. CASE DestroyService(c) BY <1>7, CleanCalled DEF DestroyService
  <1>8. CASE InspectService(c) BY <1>8, CleanCalled DEF InspectService
  <1>9. CASE RunPlaybook(c) BY <1>9, CleanCalled DEF RunPlaybook
  <1>q. QED BY <1>6, <1>7, <1>8, <1>9

LEMMA OwnedInit == ServiceInit => CInv
  <1> SUFFICES ASSUME ServiceInit PROVE CInv OBVIOUS
  <1>1. Busy = {} BY DEF ServiceInit, Busy
  <1>q. QED BY <1>1, ServiceInvInit DEF CInv, Owned

LEMMA OwnedInvariance == CInv /\ [ServiceNext]_svars => CInv'
  <1> SUFFICES ASSUME CInv, [ServiceNext]_svars PROVE CInv' OBVIOUS
  <1>1. ServiceInv' BY ServiceInvariance DEF CInv
  <1>2. CASE UNCHANGED svars
    <2>1. UNCHANGED <<dir, conf, live, plan, lock, proc, tool, answer, gone>>
      BY <1>2 DEF svars, machine
    <2>2. Busy' = Busy BY <2>1 DEF Busy
    <2>3. \A c \in Busy : Undisturbed(c)'
      BY <2>1 DEF CInv, Owned, Undisturbed, Clean, Process, Next1, Done
    <2>q. QED BY <1>1, <2>1, <2>2, <2>3 DEF CInv, Owned
  <1>3. CASE ServiceNext
    <2>1. ASSUME NEW c \in Caller, ToolStep(c) PROVE Owned' BY <2>1, CleanTool
    <2>2. ASSUME NEW p \in proc, Finish(p) PROVE Owned' BY <2>2, CleanFinish
    <2>q. QED BY <1>1, <1>3, <2>1, <2>2, CleanCalls DEF ServiceNext, CInv
  <1>q. QED BY <1>2, <1>3

\* An install that reports success and that nothing disturbed (no other call, no process
\* left by an earlier one, no write whose failure the code ignored) has its own service
\* running, with its own files (service_installer.py), whatever the machine held before
\* and however many processes other calls ever abandoned.
THEOREM InstallsAreAsked == ServiceSpec => SuccessIsAsked
  <1> DEFINE Body == \A c \in Busy :
       /\ answer'[c] = "success" /\ tool[c].kind = "install"
       /\ tool[c].by # "script" /\ ~tool[c].shared /\ ~tool[c].heir /\ ~tool[c].slipped
       => /\ live'[tool[c].by].whole
          /\ live'[tool[c].by].of.main = c
          /\ tool[c].by \in {"terraform", "ansible"} => live'[tool[c].by].of.vars = c
  <1>1. CInv /\ [ServiceNext]_svars => [Body]_svars
    <2> SUFFICES ASSUME CInv, ServiceNext, NEW c \in Busy, answer'[c] = "success",
                        Clean(tool[c])
                 PROVE  /\ live'[tool[c].by].whole
                        /\ live'[tool[c].by].of.main = c
                        /\ tool[c].by \in {"terraform", "ansible"} =>
                             live'[tool[c].by].of.vars = c
      BY DEF Clean
    <2>1. c \in Caller /\ answer[c] = "none" BY DEF Busy, CInv, Owned
    <2>2. ASSUME NEW d \in Caller,
                 InstallService(d) \/ DestroyService(d) \/ InspectService(d) \/ RunPlaybook(d)
          PROVE  FALSE
      BY <2>1, <2>2, CleanCalls
    <2>3. ASSUME NEW d \in Caller, ToolStep(d), d # c PROVE FALSE
      BY <2>1, <2>3, CleanTool
    <2>4. CASE ToolStep(c) BY <2>1, <2>4, CleanTool
    <2>5. ASSUME NEW p \in proc, Finish(p)
          PROVE  /\ live'[tool[c].by].whole
                 /\ live'[tool[c].by].of.main = c
                 /\ tool[c].by \in {"terraform", "ansible"} => live'[tool[c].by].of.vars = c
      BY <2>5, CleanFinish
    <2>q. QED BY <2>2, <2>3, <2>4, <2>5 DEF ServiceNext
  <1>q. QED BY <1>1, OwnedInit, OwnedInvariance, PTL DEF ServiceSpec, SuccessIsAsked
=============================================================================
