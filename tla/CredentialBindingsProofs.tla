--------------------- MODULE CredentialBindingsProofs ---------------------
(***************************************************************************)
(* What holds of credentials and the rows bound to them, proved for any    *)
(* number of hosts, accounts, rows, discoveries and UUIDs.                 *)
(*                                                                         *)
(* First, for any number of operators: what no interleaving of commands,   *)
(* discoveries and kills can break.  Every UUID that is anywhere - in the  *)
(* registry file, in a list about to be saved, in a command's or a         *)
(* discovery's hands, in a row - was issued with an entry, and an entry    *)
(* never changes.  So whatever stale thing a step writes, it was once true *)
(* of the type it is written under.                                        *)
(*                                                                         *)
(* Then, for one command at a time: what overlapping commands do break     *)
(* since nothing locks the stores.  A command that is alone still knows,   *)
(* at each access to a store, what it read there before (InStep), and the  *)
(* five invariants after that one follow it from access to access.         *)
(***************************************************************************)
EXTENDS CredentialBindings, TLAPS

\* A UUID is issued to one entry.
IssuedOnce == \A e, f \in issued : e.id = f.id => e = f

\* Lists in the file and in the hands of commands hold issued entries.
ListsIssued ==
  /\ Load(file) \subseteq issued
  /\ \A p \in Operators : snap[p] \subseteq issued

\* Those lists name an account at most once.
KeysOnce(entries) == \A e, f \in entries : e.key = f.key => e = f

ListsKeyedOnce ==
  /\ KeysOnce(Load(file))
  /\ \A p \in Operators : KeysOnce(snap[p])

IssuedAs(i, type) == \E e \in issued : e.id = i /\ e.key.type = type

\* A command that is about to register has a proper account in its arguments,
\* and the UUID a command carries was issued for the type it was given.
CommandSound(p) ==
  /\ pc[p] = "register" => KeyOf(cmd[p]) \in Key /\ cmd[p].auth \in Kinds
  /\ cmd[p].id # None => IssuedAs(cmd[p].id, cmd[p].type)

CommandsSound == \A p \in Operators : CommandSound(p)

\* A discovery has an identifier and an address to dial, and the UUID it
\* carries was issued for SSH.
CallSound(c) ==
  /\ c.at = "dialing" => c.ident \in Hosts /\ c.dial \in Hosts
  /\ c.used # None => IssuedAs(c.used, "ssh")

CallsSound == \A d \in Discoveries : CallSound(call[d])

Sound ==
  /\ IssuedOnce
  /\ ListsIssued
  /\ ListsKeyedOnce
  /\ CommandsSound
  /\ CallsSound
  /\ BindingTypeSafe

IInv == TypeOK /\ Sound

-----------------------------------------------------------------------------
(* The operators the steps are built from.                                 *)

\* What a process reads from the file is a list of entries.
LEMMA LoadFacts == TypeOK => Load(file) \in SUBSET Entry
  BY DEF TypeOK, Load

\* register_credential keeps a list keyed once and adds one entry to it.
LEMMA RegisteredFacts ==
  ASSUME NEW entries, NEW e, KeysOnce(entries)
  PROVE  /\ KeysOnce(Registered(entries, e))
         /\ Registered(entries, e) \subseteq entries \cup {e}
  BY DEF KeysOnce, Registered

\* unregister_credential only takes entries out.
LEMMA UnregisteredFacts ==
  ASSUME NEW entries, NEW type, NEW target
  PROVE  /\ Unregistered(entries, type, target) \subseteq entries
         /\ KeysOnce(entries) => KeysOnce(Unregistered(entries, type, target))
  BY DEF KeysOnce, Unregistered

\* A command that returns has nothing left in its hands.
LEMMA ReturnFacts ==
  ASSUME TypeOK, NEW p \in Operators, Return(p)
  PROVE  /\ pc' \in [Operators -> Pcs]
         /\ cmd' \in [Operators -> Command]
         /\ base' \in [Operators -> SUBSET Entry]
         /\ snap' \in [Operators -> SUBSET Entry]
         /\ listed' \in [Operators -> SUBSET Entry]
         /\ todo' \in [Operators -> SUBSET Entry]
         /\ pc'[p] = "idle" /\ cmd'[p] = NoCommand /\ snap'[p] = {}
         /\ \A q \in Operators \ {p} : pc'[q] = pc[q] /\ cmd'[q] = cmd[q] /\ snap'[q] = snap[q]
  BY DEF TypeOK, Return, Pcs, Command, NoCommand

\* The registry and the credential store start empty.
LEMMA Starts == Init => IInv
<1> SUFFICES ASSUME Init PROVE IInv
  OBVIOUS
<1>1. TypeOK
  <2>1. rows \in [RowIds -> Row \cup {NoRow, Gone}]
    <3>1. \A h, ip \in Hosts : Unbound(h, ip) \in Row
      BY DEF Unbound, Row
    <3> QED
      BY <3>1 DEF Init
  <2>2. cmd \in [Operators -> Command] /\ call \in [Discoveries -> CallState]
    BY DEF Init, Command, NoCommand, CallState, NoCall
  <2> QED
    BY <2>1, <2>2 DEF Init, TypeOK, Pcs
<1>2. IssuedOnce /\ ListsIssued /\ ListsKeyedOnce
  BY DEF Init, IssuedOnce, ListsIssued, ListsKeyedOnce, KeysOnce, Load
<1>3. CommandsSound /\ CallsSound
  BY DEF Init, CommandsSound, CommandSound, CallsSound, CallSound, NoCommand, NoCall
<1>4. BindingTypeSafe
  <2> SUFFICES ASSUME NEW r \in Present, NEW t \in CredTypes PROVE rows[r].cred[t] = None
    BY DEF BindingTypeSafe
  <2>1. rows[r] \in {Unbound(h, ip) : h, ip \in Hosts}
    BY DEF Init, Present
  <2> QED
    BY <2>1 DEF Unbound
<1> QED
  BY <1>1, <1>2, <1>3, <1>4 DEF IInv, Sound

-----------------------------------------------------------------------------
(* Types.                                                                  *)

\* Filling in one result of a command leaves a command.
LEMMA CommandFacts ==
  ASSUME NEW c \in Command
  PROVE  /\ \A i \in Ids : [c EXCEPT !.id = i] \in Command
         /\ \A h \in Hosts : [c EXCEPT !.host = h] \in Command
         /\ [c EXCEPT !.asked = TRUE] \in Command
  BY DEF Command

LEMMA TypeAddStore ==
  ASSUME TypeOK, NEW p \in Operators, NEW k \in Key, NEW auth \in Kinds, AddStore(p, k, auth)
  PROVE  TypeOK'
<1>1. k.type \in CredTypes /\ k.user \in Users /\ k.target \in Targets
  BY DEF Key
<1>2. [NoCommand EXCEPT !.verb = "add", !.type = k.type, !.user = k.user,
                        !.target = k.target, !.auth = auth] \in Command
  BY <1>1 DEF Command, NoCommand
<1>3. cmd' \in [Operators -> Command]
  BY <1>2 DEF AddStore, TypeOK
<1>4. keyring' \in [Key -> Kinds \cup {None}] /\ pc' \in [Operators -> Pcs]
  BY DEF AddStore, TypeOK, Pcs
<1> QED
  BY <1>3, <1>4 DEF AddStore, TypeOK, history

LEMMA TypeRegister ==
  ASSUME TypeOK, CommandsSound, NEW p \in Operators, Register(p)
  PROVE  TypeOK'
<1>1. PICK i \in UnusedIds :
        LET e == [id |-> i, key |-> KeyOf(cmd[p]), auth |-> cmd[p].auth]
        IN  /\ base' = [base EXCEPT ![p] = Load(file)]
            /\ snap' = [snap EXCEPT ![p] = Registered(Load(file), e)]
            /\ cmd' = [cmd EXCEPT ![p].id = i]
            /\ issued' = issued \cup {e}
            /\ replaced' = replaced \cup {f.id : f \in {g \in Load(file) : g.key = e.key}}
  BY DEF Register
<1> DEFINE e == [id |-> i, key |-> KeyOf(cmd[p]), auth |-> cmd[p].auth]
<1>2. i \in Ids /\ e \in Entry
  BY DEF UnusedIds, Entry, CommandsSound, CommandSound, Register
<1>3. Load(file) \in SUBSET Entry
  BY LoadFacts
<1>4. Registered(Load(file), e) \in SUBSET Entry
  BY <1>2, <1>3 DEF Registered
<1>5. base' \in [Operators -> SUBSET Entry] /\ snap' \in [Operators -> SUBSET Entry]
  BY <1>1, <1>3, <1>4 DEF TypeOK
<1>6. cmd' \in [Operators -> Command]
  <2>1. cmd[p] \in Command /\ [cmd[p] EXCEPT !.id = i] \in Command
    BY <1>2, CommandFacts DEF TypeOK
  <2> QED
    BY <1>1, <2>1 DEF TypeOK
<1>7. issued' \in SUBSET Entry
  BY <1>1, <1>2 DEF TypeOK
<1>8. replaced' \in SUBSET Ids
  <2>1. \A f \in Load(file) : f.id \in Ids
    BY <1>3 DEF Entry
  <2> QED
    BY <1>1, <2>1 DEF TypeOK
<1>9. pc' \in [Operators -> Pcs]
  BY DEF Register, TypeOK, Pcs
<1> QED
  BY <1>5, <1>6, <1>7, <1>8, <1>9 DEF Register, TypeOK, stores

LEMMA TypeSave ==
  ASSUME TypeOK, NEW p \in Operators, Truncate(p) \/ Write(p)
  PROVE  TypeOK'
<1>1. CASE Truncate(p)
  BY <1>1 DEF Truncate, TypeOK, Pcs, history
<1>2. CASE Write(p)
  <2>1. file' \in SUBSET Entry
    BY <1>2 DEF Write, TypeOK
  <2>2. CASE cmd[p].verb = "add" /\ cmd[p].target \in Clusters
    BY <1>2, <2>1, <2>2, ReturnFacts DEF Write, TypeOK, history
  <2>3. CASE ~ (cmd[p].verb = "add" /\ cmd[p].target \in Clusters)
    BY <1>2, <2>1, <2>3 DEF Write, TypeOK, Pcs, history
  <2> QED
    BY <2>2, <2>3
<1> QED
  BY <1>1, <1>2

LEMMA TypeAutoBind ==
  ASSUME TypeOK, NEW p \in Operators, AutoBind(p) \/ Answer(p)
  PROVE  TypeOK'
<1>1. CASE AutoBind(p)
  <2> DEFINE m == Matching(cmd[p].target)
  <2>1. CASE Return(p)
    BY <1>1, <2>1, ReturnFacts DEF AutoBind, TypeOK, stores, history
  <2>2. ASSUME NEW r \in m,
               /\ cmd' = [cmd EXCEPT ![p].host = rows[r].host]
               /\ pc' = [pc EXCEPT ![p] = IF m = {r} /\ rows[r].cred[cmd[p].type] = None
                                          THEN "bind" ELSE "prompt"]
               /\ UNCHANGED <<base, snap, listed, todo>>
        PROVE  TypeOK'
    <3>1. rows[r].host \in Hosts
      BY DEF Matching, Present, TypeOK, Row
    <3>2. cmd' \in [Operators -> Command]
      <4>1. cmd[p] \in Command /\ [cmd[p] EXCEPT !.host = rows[r].host] \in Command
        BY <3>1, CommandFacts DEF TypeOK
      <4> QED
        BY <2>2, <4>1 DEF TypeOK
    <3>3. pc' \in [Operators -> Pcs]
      BY <2>2 DEF TypeOK, Pcs
    <3> QED
      BY <1>1, <2>2, <3>2, <3>3 DEF AutoBind, TypeOK, stores, history
  <2>3. \/ Return(p)
        \/ \E r \in m :
             /\ cmd' = [cmd EXCEPT ![p].host = rows[r].host]
             /\ pc' = [pc EXCEPT ![p] = IF m = {r} /\ rows[r].cred[cmd[p].type] = None
                                        THEN "bind" ELSE "prompt"]
             /\ UNCHANGED <<base, snap, listed, todo>>
    BY <1>1 DEF AutoBind
  <2> QED
    BY <2>1, <2>2, <2>3
<1>2. CASE Answer(p)
  <2>1. CASE Return(p)
    BY <1>2, <2>1, ReturnFacts DEF Answer, TypeOK, stores, history
  <2>2. CASE ~ Return(p)
    <3>0. cmd[p] \in Command /\ [cmd[p] EXCEPT !.asked = TRUE] \in Command
      BY CommandFacts DEF TypeOK
    <3>1. cmd' \in [Operators -> Command] /\ pc' \in [Operators -> Pcs]
      BY <1>2, <2>2, <3>0 DEF Answer, TypeOK, Pcs
    <3> QED
      BY <1>2, <2>2, <3>1 DEF Answer, TypeOK, stores, history
  <2> QED
    BY <2>1, <2>2
<1> QED
  BY <1>1, <1>2

\* Setting one binding column of a row leaves a row.
LEMMA BoundRowFacts ==
  ASSUME TypeOK, NEW r \in Present, NEW t, NEW i \in Ids \cup {None}
  PROVE  [rows EXCEPT ![r].cred[t] = i] \in [RowIds -> Row \cup {NoRow, Gone}]
<1>1. rows[r] \in Row /\ r \in RowIds
  BY DEF TypeOK, Present
<1>2. [rows[r] EXCEPT !.cred[t] = i] \in Row
  BY <1>1 DEF Row
<1> QED
  BY <1>1, <1>2 DEF TypeOK

LEMMA TypeBind ==
  ASSUME TypeOK, NEW p \in Operators, Bind(p)
  PROVE  TypeOK'
<1>1. cmd[p].id \in Ids \cup {None}
  BY DEF TypeOK, Command
<1>2. rows' \in [RowIds -> Row \cup {NoRow, Gone}]
  <2>1. CASE UNCHANGED rows
    BY <2>1 DEF TypeOK
  <2>2. CASE \E r \in Present : rows' = [rows EXCEPT ![r].cred[cmd[p].type] = cmd[p].id]
    <3>1. PICK r \in Present : rows' = [rows EXCEPT ![r].cred[cmd[p].type] = cmd[p].id]
      BY <2>2
    <3>2. [rows EXCEPT ![r].cred[cmd[p].type] = cmd[p].id] \in [RowIds -> Row \cup {NoRow, Gone}]
      BY <1>1, BoundRowFacts
    <3> QED
      BY <3>1, <3>2
  <2> QED
    BY <2>1, <2>2 DEF Bind, Named
<1>3. Return(p)
  BY DEF Bind
<1> QED
  BY <1>2, <1>3, ReturnFacts DEF Bind, TypeOK, history

LEMMA TypeRemove ==
  ASSUME TypeOK, NEW p \in Operators, NEW type \in CredTypes, NEW target \in Targets,
         RemoveList(p, type, target)
  PROVE  TypeOK'
<1> DEFINE found == EntriesFor(Load(file), type, target)
<1>1. found \in SUBSET Entry
  BY LoadFacts DEF EntriesFor
<1>2. [NoCommand EXCEPT !.verb = "remove", !.type = type, !.target = target] \in Command
  BY DEF Command, NoCommand
<1>3. cmd' \in [Operators -> Command] /\ pc' \in [Operators -> Pcs]
  BY <1>2 DEF RemoveList, TypeOK, Pcs
<1>4. listed' \in [Operators -> SUBSET Entry] /\ todo' \in [Operators -> SUBSET Entry]
  BY <1>1 DEF RemoveList, TypeOK
<1>5. dying' \in SUBSET Ids
  <2>1. \A e \in found : e.id \in Ids
    BY <1>1 DEF Entry
  <2> QED
    BY <2>1 DEF RemoveList, TypeOK
<1> QED
  BY <1>3, <1>4, <1>5 DEF RemoveList, TypeOK, stores

LEMMA TypeDeleteSecret ==
  ASSUME TypeOK, NEW p \in Operators, DeleteSecret(p)
  PROVE  TypeOK'
<1>1. PICK e \in todo[p] :
        /\ keyring' \in {keyring, [keyring EXCEPT ![e.key] = None]}
        /\ mishaps' \in {mishaps, mishaps \cup {"kept"}}
        /\ todo' = [todo EXCEPT ![p] = @ \ {e}]
        /\ pc' = [pc EXCEPT ![p] = IF todo[p] = {e} THEN "unregister" ELSE "delete"]
  BY DEF DeleteSecret
<1>2. keyring' \in [Key -> Kinds \cup {None}]
  BY <1>1 DEF TypeOK
<1>3. todo' \in [Operators -> SUBSET Entry]
  BY <1>1 DEF TypeOK
<1>4. pc' \in [Operators -> Pcs]
  BY <1>1 DEF TypeOK, Pcs
<1> QED
  BY <1>1, <1>2, <1>3, <1>4 DEF DeleteSecret, TypeOK, Mishaps

LEMMA TypeUnregister ==
  ASSUME TypeOK, NEW p \in Operators, Unregister(p)
  PROVE  TypeOK'
<1>1. Load(file) \in SUBSET Entry
  BY LoadFacts
<1>2. Unregistered(Load(file), cmd[p].type, cmd[p].target) \in SUBSET Entry
  BY <1>1, UnregisteredFacts
<1>3. base' \in [Operators -> SUBSET Entry] /\ snap' \in [Operators -> SUBSET Entry]
  BY <1>1, <1>2 DEF Unregister, TypeOK
<1>4. pc' \in [Operators -> Pcs]
  BY DEF Unregister, TypeOK, Pcs
<1> QED
  BY <1>3, <1>4 DEF Unregister, TypeOK, stores, history

LEMMA TypeNullBindings ==
  ASSUME TypeOK, NEW p \in Operators, NullBindings(p)
  PROVE  TypeOK'
<1>1. PICK e \in todo[p] :
        /\ rows' = [r \in RowIds |->
                      IF r \in Present /\ rows[r].cred[cmd[p].type] = e.id
                      THEN [rows[r] EXCEPT !.cred[cmd[p].type] = None]
                      ELSE rows[r]]
        /\ nulled' = nulled \cup {e.id}
        /\ IF todo[p] = {e}
             THEN Return(p)
             ELSE todo' = [todo EXCEPT ![p] = @ \ {e}] /\ UNCHANGED <<pc, cmd, base, snap, listed>>
  BY DEF NullBindings
<1>2. e.id \in Ids
  BY DEF TypeOK, Entry
<1>3. rows' \in [RowIds -> Row \cup {NoRow, Gone}]
  <2> SUFFICES ASSUME NEW r \in RowIds, r \in Present
               PROVE  [rows[r] EXCEPT !.cred[cmd[p].type] = None] \in Row
    BY <1>1 DEF TypeOK
  <2> QED
    BY DEF TypeOK, Present, Row
<1>4. CASE Return(p)
  BY <1>1, <1>2, <1>3, <1>4, ReturnFacts DEF NullBindings, TypeOK
<1>5. CASE ~ Return(p)
  <2>1. todo' \in [Operators -> SUBSET Entry]
    BY <1>1, <1>5 DEF TypeOK
  <2> QED
    BY <1>1, <1>2, <1>3, <1>5, <2>1 DEF NullBindings, TypeOK
<1> QED
  BY <1>4, <1>5

LEMMA TypeLink ==
  ASSUME TypeOK, NEW p \in Operators, NEW type \in CredTypes, NEW h \in Hosts,
         UnlinkCheck(p, type, h) \/ \E i \in Ids : LinkCheck(p, type, h, i)
  PROVE  TypeOK'
<1>0. PICK i : UnlinkCheck(p, type, h) \/ (i \in Ids /\ LinkCheck(p, type, h, i))
  OBVIOUS
<1>1. i \in Ids => [NoCommand EXCEPT !.verb = "link", !.type = type, !.id = i, !.host = h] \in Command
  BY DEF Command, NoCommand
<1>2. [NoCommand EXCEPT !.verb = "unlink", !.type = type, !.host = h] \in Command
  BY DEF Command, NoCommand
<1>3. cmd' \in [Operators -> Command] /\ pc' \in [Operators -> Pcs]
  <2>1. CASE UnlinkCheck(p, type, h)
    BY <2>1, <1>2 DEF UnlinkCheck, TypeOK, Pcs
  <2>2. CASE i \in Ids /\ LinkCheck(p, type, h, i)
    BY <2>2, <1>1 DEF LinkCheck, TypeOK, Pcs
  <2> QED
    BY <1>0, <2>1, <2>2
<1> QED
  BY <1>0, <1>3 DEF LinkCheck, UnlinkCheck, TypeOK, stores, history

LEMMA TypeCrash ==
  ASSUME TypeOK, NEW p \in Operators, Crash(p)
  PROVE  TypeOK'
<1>1. Return(p) /\ mishaps' \in SUBSET Mishaps
  BY DEF Crash, TypeOK, Mishaps
<1> QED
  BY <1>1, ReturnFacts DEF Crash, TypeOK, stores

\* Whatever the resolver returns is a call in flight, and a UUID it captures
\* was issued for SSH.
LEMMA ResolutionFacts ==
  ASSUME TypeOK, ListsIssued, NEW d \in Discoveries, NEW h \in Hosts,
         NEW user \in Users \cup {None}, NEW password \in BOOLEAN
  PROVE  LET c == Resolution(h, user, password)
         IN  c \in CallState /\ CallSound(c)
<1> DEFINE m      == Matching(h)
           c      == Candidates(h, user)
           lookup == IF password THEN user # None \/ \E e \in c : c = {e}
                                 ELSE \E e \in c : c = {e} /\ HasSecret(e)
           found  == IF \E e \in c : c = {e} THEN (CHOOSE e \in c : c = {e}).id ELSE None
           row    == CHOOSE r \in m : TRUE
           bound  == rows[row].cred["ssh"]
           tier0  == \E e \in Load(file) : e.id = bound /\ e.key.type = "ssh" /\ HasSecret(e)
           result(ok, used, dial) ==
             [at |-> "dialing", ident |-> h, dial |-> dial, ok |-> ok,
              used |-> IF ok THEN used ELSE None, row |-> None]
           Fine(r) == r \in CallState /\ CallSound(r)
<1>1. Resolution(h, user, password)
        = IF m = {} THEN result(lookup, found, h)
          ELSE IF m # {row} THEN result(FALSE, None, h)
          ELSE IF bound # None THEN result(tier0, bound, rows[row].ip)
          ELSE result(lookup, None, rows[row].ip)
  BY DEF Resolution
<1>2. lookup \in BOOLEAN /\ tier0 \in BOOLEAN
  OBVIOUS
<1>3. found \in Ids \cup {None} /\ (found # None => IssuedAs(found, "ssh"))
  <2>1. CASE \E e \in c : c = {e}
    <3>1. PICK e \in c : c = {e}
      BY <2>1
    <3>2. found = e.id
      BY <3>1
    <3>3. e \in Load(file) /\ e.key.type = "ssh"
      BY <3>1 DEF Candidates, EntriesFor
    <3>4. e \in issued /\ e.id \in Ids
      BY <3>3, LoadFacts DEF ListsIssued, Entry
    <3> QED
      BY <3>2, <3>3, <3>4 DEF IssuedAs
  <2>2. CASE ~ \E e \in c : c = {e}
    BY <2>2
  <2> QED
    BY <2>1, <2>2
<1>4. \A ok \in BOOLEAN, used \in Ids \cup {None}, dial \in Hosts :
        (ok /\ used # None => IssuedAs(used, "ssh")) => Fine(result(ok, used, dial))
  BY DEF CallState, CallSound
<1>5. CASE m = {}
  <2>1. Fine(result(lookup, found, h))
    BY <1>2, <1>3, <1>4
  <2> QED
    BY <1>1, <1>5, <2>1
<1>6. CASE m # {}
  <2>1. row \in m
    BY <1>6
  <2>2. rows[row] \in Row
    BY <2>1 DEF Matching, Present, TypeOK
  <2>3. rows[row].ip \in Hosts /\ bound \in Ids \cup {None}
    BY <2>2, DiscoveryAssumption DEF Row
  <2>4. tier0 => IssuedAs(bound, "ssh")
    BY DEF ListsIssued, IssuedAs
  <2>5. Fine(result(FALSE, None, h)) /\ Fine(result(lookup, None, rows[row].ip))
    BY <1>2, <1>4, <2>3
  <2>6. Fine(result(tier0, bound, rows[row].ip))
    BY <1>2, <1>4, <2>3, <2>4
  <2> QED
    BY <1>1, <1>6, <2>5, <2>6
<1> QED
  BY <1>5, <1>6

\* An upsert leaves rows, and touches no binding of a row that stays.
LEMMA UpsertFacts ==
  ASSUME TypeOK, NEW d \in Discoveries, NEW h \in Hosts, NEW ip \in Hosts, Upsert(d, h, ip)
  PROVE  /\ rows' \in [RowIds -> Row \cup {NoRow, Gone}]
         /\ call' \in [Discoveries -> CallState]
         /\ \A r \in RowIds, t \in CredTypes :
              rows'[r] \notin {NoRow, Gone} =>
                \/ r \in Present /\ rows'[r].cred[t] = rows[r].cred[t]
                \/ rows'[r].cred[t] = None
         /\ call'[d].at # "dialing"
         /\ call'[d].used \in {None, call[d].used}
         /\ \A e \in Discoveries \ {d} : call'[e] = call[e]
<1>1. PICK r \in RowIds :
        /\ \/ /\ r \in Named(h)
              /\ rows' = [rows EXCEPT ![r].ip = ip]
           \/ /\ Named(h) = {}
              /\ rows[r] = NoRow
              /\ rows' = [rows EXCEPT ![r] = Unbound(h, ip)]
        /\ call' = [call EXCEPT ![d] = IF call[d].used = None THEN NoCall
                                       ELSE [@ EXCEPT !.at = "bind", !.row = r]]
  BY DEF Upsert
<1>2. call[d] \in CallState
  BY DEF TypeOK
<1>3. NoCall \in CallState /\ [call[d] EXCEPT !.at = "bind", !.row = r] \in CallState
  BY <1>2 DEF CallState, NoCall
<1>4. call' \in [Discoveries -> CallState]
  BY <1>1, <1>3 DEF TypeOK
<1>5. /\ call'[d].at # "dialing"
      /\ call'[d].used \in {None, call[d].used}
      /\ \A e \in Discoveries \ {d} : call'[e] = call[e]
  BY <1>1, <1>2 DEF TypeOK, NoCall, CallState
<1>6. CASE r \in Named(h) /\ rows' = [rows EXCEPT ![r].ip = ip]
  <2>1. r \in Present /\ rows[r] \in Row
    BY <1>6 DEF Named, Present, TypeOK
  <2>2. [rows[r] EXCEPT !.ip = ip] \in Row /\ [rows[r] EXCEPT !.ip = ip].cred = rows[r].cred
    BY <2>1 DEF Row
  <2>3. rows' = [rows EXCEPT ![r] = [rows[r] EXCEPT !.ip = ip]]
    BY <1>6
  <2>4. rows' \in [RowIds -> Row \cup {NoRow, Gone}]
    BY <2>2, <2>3 DEF TypeOK
  <2> QED
    BY <1>4, <1>5, <2>1, <2>2, <2>3, <2>4 DEF TypeOK, Present
<1>7. CASE rows' = [rows EXCEPT ![r] = Unbound(h, ip)]
  <2>1. Unbound(h, ip) \in Row /\ \A t \in CredTypes : Unbound(h, ip).cred[t] = None
    BY DEF Unbound, Row
  <2> QED
    BY <1>4, <1>5, <1>7, <2>1 DEF TypeOK, Present
<1> QED
  BY <1>1, <1>6, <1>7

\* Both ends of a dialled discovery are upserts of host names.
LEMMA AnsweredFacts ==
  ASSUME TypeOK, CallsSound, NEW d \in Discoveries, DiscoverSucceed(d) \/ DiscoverFail(d)
  PROVE  \E h, ip \in Hosts : Upsert(d, h, ip)
<1>1. call[d].at = "dialing"
  BY DEF DiscoverSucceed, DiscoverFail
<1>2. call[d].ident \in Hosts /\ call[d].dial \in Hosts
  BY <1>1 DEF CallsSound, CallSound
<1>3. \A r \in Matching(call[d].ident) : rows[r].host \in Hosts /\ rows[r].ip \in Hosts
  BY DEF Matching, Present, TypeOK, Row
<1> QED
  BY <1>2, <1>3 DEF DiscoverSucceed, DiscoverFail

LEMMA TypeDiscover ==
  ASSUME TypeOK, ListsIssued, CallsSound, NEW d \in Discoveries, Discover(d)
  PROVE  TypeOK'
<1>1. ASSUME NEW h \in Hosts, NEW user \in Users \cup {None}, NEW password \in BOOLEAN,
             DiscoverResolve(d, h, user, password)
      PROVE  TypeOK'
  <2>1. Resolution(h, user, password) \in CallState
    BY ResolutionFacts
  <2>2. call' \in [Discoveries -> CallState]
    BY <1>1, <2>1 DEF DiscoverResolve, TypeOK
  <2> QED
    BY <1>1, <2>2 DEF DiscoverResolve, TypeOK, stores, local, history
<1>2. CASE DiscoverSucceed(d) \/ DiscoverFail(d)
  <2>1. /\ rows' \in [RowIds -> Row \cup {NoRow, Gone}]
        /\ call' \in [Discoveries -> CallState]
    BY <1>2, AnsweredFacts, UpsertFacts
  <2> QED
    BY <1>2, <2>1 DEF DiscoverSucceed, DiscoverFail, TypeOK, local, history
<1>3. CASE DiscoverBind(d)
  <2>1. call[d].used \in Ids \cup {None} /\ NoCall \in CallState
    BY DEF TypeOK, CallState, NoCall
  <2>2. [rows EXCEPT ![call[d].row].cred["ssh"] = call[d].used]
          \in [RowIds -> Row \cup {NoRow, Gone}] \/ call[d].row \notin Present
    BY <2>1, BoundRowFacts
  <2>3. rows' \in [RowIds -> Row \cup {NoRow, Gone}]
    BY <1>3, <2>2 DEF DiscoverBind, TypeOK
  <2> QED
    BY <1>3, <2>1, <2>3 DEF DiscoverBind, TypeOK, local, Mishaps
<1>4. CASE DiscoverAbort(d)
  <2>1. NoCall \in CallState
    BY DEF CallState, NoCall
  <2> QED
    BY <1>4, <2>1 DEF DiscoverAbort, TypeOK, stores, local, history
<1> QED
  BY <1>1, <1>2, <1>3, <1>4 DEF Discover

\* Every step keeps every type.
LEMMA TypeSteps ==
  ASSUME TypeOK, ListsIssued, CommandsSound, CallsSound, Next
  PROVE  TypeOK'
<1>1. ASSUME NEW p \in Operators, Begin(p) PROVE TypeOK'
  BY <1>1, TypeAddStore, TypeRemove, TypeLink DEF Begin
<1>2. ASSUME NEW p \in Operators, Step(p) PROVE TypeOK'
  BY <1>2, TypeRegister, TypeSave, TypeAutoBind, TypeBind, TypeDeleteSecret, TypeUnregister,
     TypeNullBindings DEF Step
<1>3. ASSUME NEW p \in Operators, Answer(p) \/ Crash(p) PROVE TypeOK'
  BY <1>3, TypeAutoBind, TypeCrash
<1>4. ASSUME NEW r \in RowIds, RemoveDevice(r) PROVE TypeOK'
  BY <1>4 DEF RemoveDevice, TypeOK, local, history
<1> QED
  BY <1>1, <1>2, <1>3, <1>4, TypeDiscover DEF Next, Unkilled

-----------------------------------------------------------------------------
(* Soundness, part by part.                                                *)

\* The commands stay sound when one moves to a sound state.
LEMMA OneCommand ==
  ASSUME CommandsSound, issued \subseteq issued', NEW p \in Operators,
         \A q \in Operators \ {p} : pc'[q] = pc[q] /\ cmd'[q] = cmd[q],
         pc'[p] = "register" => KeyOf(cmd'[p]) \in Key /\ cmd'[p].auth \in Kinds,
         cmd'[p].id # None => IssuedAs(cmd[p].id, cmd[p].type)'
  PROVE  CommandsSound'
<1> SUFFICES ASSUME NEW q \in Operators PROVE CommandSound(q)'
  BY DEF CommandsSound
<1>1. CASE q = p
  BY <1>1 DEF CommandSound, KeyOf
<1>2. CASE q # p
  BY <1>2 DEF CommandsSound, CommandSound, KeyOf, IssuedAs
<1> QED
  BY <1>1, <1>2

\* So do the discoveries.
LEMMA OneCall ==
  ASSUME CallsSound, issued \subseteq issued', NEW d \in Discoveries,
         \A e \in Discoveries \ {d} : call'[e] = call[e],
         CallSound(call'[d])
  PROVE  CallsSound'
<1> SUFFICES ASSUME NEW e \in Discoveries PROVE CallSound(call[e])'
  BY DEF CallsSound
<1>1. CASE e = d
  BY <1>1 DEF CallSound, IssuedAs
<1>2. CASE e # d
  BY <1>2 DEF CallsSound, CallSound, IssuedAs
<1> QED
  BY <1>1, <1>2

\* Bindings stay safe when each is kept, cleared, or set to a UUID issued for
\* its type.
LEMMA RowsSafe ==
  ASSUME BindingTypeSafe, issued \subseteq issued', 
         \A r \in RowIds, t \in CredTypes :
           rows'[r] \notin {NoRow, Gone} =>
             \/ r \in Present /\ rows'[r].cred[t] = rows[r].cred[t]
             \/ rows'[r].cred[t] = None
             \/ IssuedAs(rows'[r].cred[t], t)
  PROVE  BindingTypeSafe'
<1> SUFFICES ASSUME NEW r \in RowIds, rows'[r] \notin {NoRow, Gone}, NEW t \in CredTypes,
                    rows'[r].cred[t] # None
             PROVE  IssuedAs(rows[r].cred[t], t)'
  BY DEF BindingTypeSafe, IssuedAs, Present
<1>1. IssuedAs(rows'[r].cred[t], t)
  BY DEF BindingTypeSafe, IssuedAs
<1> QED
  BY <1>1 DEF IssuedAs

\* A command that returns leaves lists and commands sound.
LEMMA ReturnSound ==
  ASSUME TypeOK, Sound, NEW p \in Operators, Return(p), issued' = issued
  PROVE  /\ CommandsSound'
         /\ \A q \in Operators : snap'[q] \subseteq issued' /\ KeysOnce(snap'[q])
<1>1. cmd'[p] = NoCommand /\ pc'[p] = "idle" /\ snap'[p] = {}
  BY ReturnFacts
<1>2. \A q \in Operators \ {p} : pc'[q] = pc[q] /\ cmd'[q] = cmd[q] /\ snap'[q] = snap[q]
  BY ReturnFacts
<1>3. CommandsSound'
  BY <1>1, <1>2, OneCommand DEF Sound, NoCommand
<1>4. \A q \in Operators : snap'[q] \subseteq issued' /\ KeysOnce(snap'[q])
  BY <1>1, <1>2 DEF Sound, ListsIssued, ListsKeyedOnce, KeysOnce
<1> QED
  BY <1>3, <1>4

LEMMA SoundAddStore ==
  ASSUME TypeOK, Sound, NEW p \in Operators, NEW k \in Key, NEW auth \in Kinds,
         AddStore(p, k, auth)
  PROVE  Sound'
<1>1. /\ cmd'[p] = [NoCommand EXCEPT !.verb = "add", !.type = k.type, !.user = k.user,
                                     !.target = k.target, !.auth = auth]
      /\ \A q \in Operators \ {p} : pc'[q] = pc[q] /\ cmd'[q] = cmd[q]
  BY DEF AddStore, TypeOK
<1>2. cmd'[p].id = None /\ cmd'[p].auth \in Kinds /\ KeyOf(cmd'[p]) = k
  BY <1>1 DEF NoCommand, KeyOf, Key
<1>3. CommandsSound'
  BY <1>1, <1>2, OneCommand DEF Sound, AddStore, history
<1> QED
  BY <1>3 DEF Sound, AddStore, history, IssuedOnce, ListsIssued, ListsKeyedOnce, Load,
     KeysOnce, CallsSound, CallSound, IssuedAs, BindingTypeSafe, Present

LEMMA SoundRegister ==
  ASSUME TypeOK, Sound, NEW p \in Operators, Register(p)
  PROVE  Sound'
<1>1. PICK i \in UnusedIds :
        LET e == [id |-> i, key |-> KeyOf(cmd[p]), auth |-> cmd[p].auth]
        IN  /\ base' = [base EXCEPT ![p] = Load(file)]
            /\ snap' = [snap EXCEPT ![p] = Registered(Load(file), e)]
            /\ cmd' = [cmd EXCEPT ![p].id = i]
            /\ issued' = issued \cup {e}
            /\ replaced' = replaced \cup {f.id : f \in {g \in Load(file) : g.key = e.key}}
  BY DEF Register
<1> DEFINE e == [id |-> i, key |-> KeyOf(cmd[p]), auth |-> cmd[p].auth]
<1>2. issued \subseteq issued' /\ e \in issued' /\ file' = file /\ rows' = rows /\ call' = call
  BY <1>1 DEF Register, stores
<1>3. IssuedOnce'
  BY <1>1 DEF Sound, IssuedOnce, UnusedIds
<1>4. KeysOnce(Registered(Load(file), e)) /\ Registered(Load(file), e) \subseteq issued'
  BY <1>2, RegisteredFacts DEF Sound, ListsKeyedOnce, ListsIssued
<1>5. snap'[p] = Registered(Load(file), e) /\ \A q \in Operators \ {p} : snap'[q] = snap[q]
  BY <1>1 DEF TypeOK
<1>6. ListsIssued' /\ ListsKeyedOnce'
  BY <1>2, <1>4, <1>5 DEF Sound, ListsIssued, ListsKeyedOnce, KeysOnce, Load
<1>7. CommandsSound'
  <2>1. /\ \A q \in Operators \ {p} : pc'[q] = pc[q] /\ cmd'[q] = cmd[q]
        /\ pc'[p] = "truncate"
    BY <1>1 DEF Register, TypeOK
  <2>2. cmd'[p].id = i /\ cmd'[p].type = cmd[p].type
    BY <1>1 DEF TypeOK, Command
  <2>3. IssuedAs(cmd[p].id, cmd[p].type)'
    BY <1>2, <2>2 DEF IssuedAs, KeyOf
  <2> QED
    BY <1>2, <2>1, <2>3, OneCommand DEF Sound
<1>8. CallsSound'
  BY <1>2 DEF Sound, CallsSound, CallSound, IssuedAs
<1>9. BindingTypeSafe'
  BY <1>2, RowsSafe DEF Sound, Present
<1> QED
  BY <1>3, <1>6, <1>7, <1>8, <1>9 DEF Sound

\* What a step that issues nothing has to show.
LEMMA QuietSound ==
  ASSUME Sound, issued' = issued,
         Load(file)' \subseteq issued, KeysOnce(Load(file))',
         \A p \in Operators : snap'[p] \subseteq issued /\ KeysOnce(snap'[p]),
         CommandsSound', CallsSound', BindingTypeSafe'
  PROVE  Sound'
  BY DEF Sound, IssuedOnce, ListsIssued, ListsKeyedOnce, KeysOnce

LEMMA SoundSave ==
  ASSUME TypeOK, Sound, NEW p \in Operators, Truncate(p) \/ Write(p)
  PROVE  Sound'
<1>0. issued' = issued /\ rows' = rows /\ call' = call
  BY DEF Truncate, Write, history
<1>1. CallsSound' /\ BindingTypeSafe'
  BY <1>0 DEF Sound, CallsSound, CallSound, IssuedAs, BindingTypeSafe, Present
<1>2. CASE Truncate(p)
  <2>1. Load(file)' = {}
    BY <1>2 DEF Truncate, Load
  <2>2. cmd' = cmd /\ snap' = snap /\ pc' = [pc EXCEPT ![p] = "write"]
    BY <1>2 DEF Truncate
  <2>3. CommandsSound'
    BY <1>0, <2>2, OneCommand DEF Sound, CommandsSound, CommandSound, TypeOK, IssuedAs
  <2>4. \A q \in Operators : snap'[q] \subseteq issued /\ KeysOnce(snap'[q])
    BY <2>2 DEF Sound, ListsIssued, ListsKeyedOnce
  <2> QED
    BY <1>0, <1>1, <2>1, <2>3, <2>4, QuietSound DEF KeysOnce
<1>3. CASE Write(p)
  <2>1. Load(file)' \subseteq snap[p]
    BY <1>3 DEF Write, Load
  <2>2. Load(file)' \subseteq issued /\ KeysOnce(Load(file))'
    BY <2>1 DEF Sound, ListsIssued, ListsKeyedOnce, KeysOnce
  <2>3. CASE Return(p)
    BY <1>0, <1>1, <2>2, <2>3, ReturnSound, QuietSound
  <2>4. CASE ~ Return(p)
    <3>1. /\ cmd' = cmd /\ snap' = snap
          /\ pc'[p] \in {"autobind", "null"}
          /\ \A q \in Operators \ {p} : pc'[q] = pc[q]
      BY <1>3, <2>4 DEF Write, TypeOK
    <3>2. CommandsSound'
      BY <1>0, <3>1, OneCommand DEF Sound, CommandsSound, CommandSound, IssuedAs
    <3>3. \A q \in Operators : snap'[q] \subseteq issued /\ KeysOnce(snap'[q])
      BY <3>1 DEF Sound, ListsIssued, ListsKeyedOnce
    <3> QED
      BY <1>0, <1>1, <2>2, <3>2, <3>3, QuietSound
  <2> QED
    BY <2>3, <2>4
<1> QED
  BY <1>2, <1>3

\* A step that moves one command along and touches neither lists nor rows.
LEMMA CommandMoves ==
  ASSUME TypeOK, Sound, UNCHANGED <<file, rows, call, issued, snap>>, CommandsSound'
  PROVE  Sound'
  BY QuietSound DEF Sound, ListsIssued, ListsKeyedOnce, KeysOnce, Load, CallsSound, CallSound,
     IssuedAs, BindingTypeSafe, Present

LEMMA SoundAutoBind ==
  ASSUME TypeOK, Sound, NEW p \in Operators, AutoBind(p) \/ Answer(p)
  PROVE  Sound'
<1>0. issued' = issued /\ rows' = rows /\ call' = call /\ file' = file
  BY DEF AutoBind, Answer, history, stores
<1>1. CASE Return(p)
  <2>1. CallsSound' /\ BindingTypeSafe' /\ Load(file)' \subseteq issued /\ KeysOnce(Load(file))'
    BY <1>0 DEF Sound, CallsSound, CallSound, IssuedAs, BindingTypeSafe, Present, ListsIssued,
       ListsKeyedOnce, Load, KeysOnce
  <2> QED
    BY <1>0, <1>1, <2>1, ReturnSound, QuietSound
<1>2. CASE ~ Return(p)
  <2>1. /\ snap' = snap
        /\ pc'[p] \in {"bind", "prompt"}
        /\ \A q \in Operators \ {p} : pc'[q] = pc[q] /\ cmd'[q] = cmd[q]
    BY <1>2 DEF AutoBind, Answer, TypeOK
  <2>2. cmd[p] \in Command
    BY DEF TypeOK
  <2>3. cmd'[p].id = cmd[p].id /\ cmd'[p].type = cmd[p].type
    BY <1>2, <2>2 DEF AutoBind, Answer, TypeOK, Command
  <2>4. CommandsSound'
    BY <1>0, <2>1, <2>3, OneCommand DEF Sound, CommandsSound, CommandSound, IssuedAs
  <2> QED
    BY <1>0, <2>1, <2>4, CommandMoves
<1> QED
  BY <1>1, <1>2

LEMMA SoundBind ==
  ASSUME TypeOK, Sound, NEW p \in Operators, Bind(p)
  PROVE  Sound'
<1>0. issued' = issued /\ call' = call /\ file' = file /\ Return(p)
  BY DEF Bind, history
<1>1. CallsSound' /\ Load(file)' \subseteq issued /\ KeysOnce(Load(file))'
  BY <1>0 DEF Sound, CallsSound, CallSound, IssuedAs, ListsIssued, ListsKeyedOnce, Load, KeysOnce
<1>2. cmd[p].id # None => IssuedAs(cmd[p].id, cmd[p].type)
  BY DEF Sound, CommandsSound, CommandSound
<1>3. BindingTypeSafe'
  <2>1. CASE UNCHANGED rows
    BY <1>0, <2>1 DEF Sound, BindingTypeSafe, Present
  <2>2. CASE \E r \in Present : rows' = [rows EXCEPT ![r].cred[cmd[p].type] = cmd[p].id]
    <3>1. PICK r \in Present : rows' = [rows EXCEPT ![r].cred[cmd[p].type] = cmd[p].id]
      BY <2>2
    <3>2. r \in RowIds /\ rows[r] \in Row
      BY DEF Present, TypeOK
    <3>3. \A s \in RowIds \ {r} : rows'[s] = rows[s]
      BY <3>1 DEF TypeOK
    <3>4. \A t \in CredTypes : rows'[r].cred[t] = IF t = cmd[p].type THEN cmd[p].id
                                                  ELSE rows[r].cred[t]
      BY <3>1, <3>2 DEF TypeOK, Row
    <3> QED
      BY <1>0, <1>2, <3>2, <3>3, <3>4, RowsSafe DEF Sound, Present
  <2> QED
    BY <2>1, <2>2 DEF Bind, Named
<1> QED
  BY <1>0, <1>1, <1>3, ReturnSound, QuietSound

\* A command that starts without a UUID, or with one it found registered.
LEMMA SoundStart ==
  ASSUME TypeOK, Sound, NEW p \in Operators, NEW type \in CredTypes, NEW target, NEW h,
         RemoveList(p, type, target) \/ UnlinkCheck(p, type, h)
           \/ \E i \in Ids : LinkCheck(p, type, h, i)
  PROVE  Sound'
<1>1. /\ UNCHANGED <<file, rows, call, issued, snap>>
      /\ pc'[p] \in {"delete", "bind"}
      /\ \A q \in Operators \ {p} : pc'[q] = pc[q] /\ cmd'[q] = cmd[q]
  BY DEF RemoveList, UnlinkCheck, LinkCheck, stores, history, TypeOK
<1>2. cmd'[p].id # None => IssuedAs(cmd[p].id, cmd[p].type)'
  <2>1. CASE RemoveList(p, type, target)
    BY <2>1 DEF RemoveList, TypeOK, NoCommand
  <2>2. CASE UnlinkCheck(p, type, h)
    BY <2>2 DEF UnlinkCheck, TypeOK, NoCommand
  <2>3. CASE \E i \in Ids : LinkCheck(p, type, h, i)
    <3>1. PICK i \in Ids : LinkCheck(p, type, h, i)
      BY <2>3
    <3>2. cmd'[p].id = i /\ cmd'[p].type = type
      BY <3>1 DEF LinkCheck, TypeOK, NoCommand
    <3>3. IssuedAs(i, type)
      BY <3>1 DEF LinkCheck, IssuedAs, Sound, ListsIssued
    <3> QED
      BY <1>1, <3>2, <3>3 DEF IssuedAs
  <2> QED
    BY <2>1, <2>2, <2>3
<1>3. CommandsSound'
  BY <1>1, <1>2, OneCommand DEF Sound
<1> QED
  BY <1>1, <1>3, CommandMoves

LEMMA SoundDelete ==
  ASSUME TypeOK, Sound, NEW p \in Operators, DeleteSecret(p)
  PROVE  Sound'
<1>1. /\ UNCHANGED <<file, rows, call, issued, snap, cmd>>
      /\ pc'[p] \in {"unregister", "delete"}
      /\ \A q \in Operators \ {p} : pc'[q] = pc[q]
  BY DEF DeleteSecret, history, TypeOK
<1>2. CommandsSound'
  BY <1>1, OneCommand DEF Sound, CommandsSound, CommandSound, IssuedAs
<1> QED
  BY <1>1, <1>2, CommandMoves

LEMMA SoundUnregister ==
  ASSUME TypeOK, Sound, NEW p \in Operators, Unregister(p)
  PROVE  Sound'
<1>1. /\ UNCHANGED <<file, rows, call, issued, cmd>>
      /\ pc'[p] = "truncate"
      /\ \A q \in Operators \ {p} : pc'[q] = pc[q] /\ snap'[q] = snap[q]
      /\ snap'[p] = Unregistered(Load(file), cmd[p].type, cmd[p].target)
  BY DEF Unregister, stores, history, TypeOK
<1>2. CommandsSound'
  BY <1>1, OneCommand DEF Sound, CommandsSound, CommandSound, IssuedAs
<1>3. \A q \in Operators : snap'[q] \subseteq issued /\ KeysOnce(snap'[q])
  BY <1>1, UnregisteredFacts DEF Sound, ListsIssued, ListsKeyedOnce
<1>4. Load(file)' \subseteq issued /\ KeysOnce(Load(file))'
  BY <1>1 DEF Sound, ListsIssued, ListsKeyedOnce, KeysOnce, Load
<1>5. CallsSound' /\ BindingTypeSafe'
  BY <1>1 DEF Sound, CallsSound, CallSound, IssuedAs, BindingTypeSafe, Present
<1> QED
  BY <1>1, <1>2, <1>3, <1>4, <1>5, QuietSound

LEMMA SoundNullBindings ==
  ASSUME TypeOK, Sound, NEW p \in Operators, NullBindings(p)
  PROVE  Sound'
<1>1. PICK e \in todo[p] :
        /\ rows' = [r \in RowIds |->
                      IF r \in Present /\ rows[r].cred[cmd[p].type] = e.id
                      THEN [rows[r] EXCEPT !.cred[cmd[p].type] = None]
                      ELSE rows[r]]
        /\ IF todo[p] = {e}
             THEN Return(p)
             ELSE todo' = [todo EXCEPT ![p] = @ \ {e}] /\ UNCHANGED <<pc, cmd, base, snap, listed>>
  BY DEF NullBindings
<1>2. issued' = issued /\ file' = file /\ call' = call
  BY DEF NullBindings
<1>3. BindingTypeSafe'
  <2> SUFFICES ASSUME NEW r \in RowIds, NEW t \in CredTypes, rows'[r] \notin {NoRow, Gone}
               PROVE  \/ r \in Present /\ rows'[r].cred[t] = rows[r].cred[t]
                      \/ rows'[r].cred[t] = None
    BY <1>2, RowsSafe DEF Sound
  <2>1. CASE r \in Present
    <3>1. rows[r] \in Row
      BY <2>1 DEF Present, TypeOK
    <3>2. rows'[r] \in {rows[r], [rows[r] EXCEPT !.cred[cmd[p].type] = None]}
      BY <1>1
    <3> QED
      BY <2>1, <3>1, <3>2 DEF Row
  <2>2. CASE r \notin Present
    BY <1>1, <2>2 DEF Present
  <2> QED
    BY <2>1, <2>2
<1>4. CallsSound' /\ Load(file)' \subseteq issued /\ KeysOnce(Load(file))'
  BY <1>2 DEF Sound, CallsSound, CallSound, IssuedAs, ListsIssued, ListsKeyedOnce, Load, KeysOnce
<1>5. CASE Return(p)
  BY <1>2, <1>3, <1>4, <1>5, ReturnSound, QuietSound
<1>6. CASE UNCHANGED <<pc, cmd, snap>>
  <2>1. CommandsSound'
    BY <1>2, <1>6 DEF Sound, CommandsSound, CommandSound, KeyOf, IssuedAs
  <2>2. \A q \in Operators : snap'[q] \subseteq issued /\ KeysOnce(snap'[q])
    BY <1>6 DEF Sound, ListsIssued, ListsKeyedOnce
  <2> QED
    BY <1>2, <1>3, <1>4, <2>1, <2>2, QuietSound
<1> QED
  BY <1>1, <1>5, <1>6

LEMMA SoundCrash ==
  ASSUME TypeOK, Sound, NEW p \in Operators, Crash(p)
  PROVE  Sound'
<1>1. Return(p) /\ UNCHANGED <<file, rows, call, issued>>
  BY DEF Crash, stores
<1>2. CallsSound' /\ BindingTypeSafe' /\ Load(file)' \subseteq issued /\ KeysOnce(Load(file))'
  BY <1>1 DEF Sound, CallsSound, CallSound, IssuedAs, BindingTypeSafe, Present, ListsIssued,
     ListsKeyedOnce, Load, KeysOnce
<1> QED
  BY <1>1, <1>2, ReturnSound, QuietSound

\* The steps of discoveries and removals of rows leave commands and lists alone.
LEMMA RowsMove ==
  ASSUME TypeOK, Sound, UNCHANGED <<file, local, issued>>, CallsSound', BindingTypeSafe'
  PROVE  Sound'
<1>1. CommandsSound'
  BY DEF Sound, CommandsSound, CommandSound, KeyOf, IssuedAs, local
<1>2. \A q \in Operators : snap'[q] \subseteq issued /\ KeysOnce(snap'[q])
  BY DEF Sound, ListsIssued, ListsKeyedOnce, local
<1>3. Load(file)' \subseteq issued /\ KeysOnce(Load(file))'
  BY DEF Sound, ListsIssued, ListsKeyedOnce, KeysOnce, Load
<1> QED
  BY <1>1, <1>2, <1>3, QuietSound

LEMMA SoundDiscover ==
  ASSUME TypeOK, Sound, NEW d \in Discoveries, Discover(d)
  PROVE  Sound'
<1>0. UNCHANGED <<file, local, issued>>
  BY DEF Discover, DiscoverResolve, DiscoverSucceed, DiscoverFail, DiscoverBind, DiscoverAbort,
     stores, history
<1> SUFFICES CallsSound' /\ BindingTypeSafe'
  BY <1>0, RowsMove
<1>1. ASSUME NEW h \in Hosts, NEW user \in Users \cup {None}, NEW password \in BOOLEAN,
             DiscoverResolve(d, h, user, password)
      PROVE  CallsSound' /\ BindingTypeSafe'
  <2>1. CallSound(call'[d]) /\ \A e \in Discoveries \ {d} : call'[e] = call[e]
    BY <1>1, ResolutionFacts DEF Sound, DiscoverResolve, TypeOK
  <2>2. CallsSound'
    BY <1>0, <2>1, OneCall DEF Sound
  <2> QED
    BY <1>0, <1>1, <2>2 DEF Sound, BindingTypeSafe, Present, DiscoverResolve, stores
<1>2. CASE DiscoverSucceed(d) \/ DiscoverFail(d)
  <2>1. PICK h \in Hosts, ip \in Hosts : Upsert(d, h, ip)
    BY <1>2, AnsweredFacts DEF Sound
  <2>2. CallSound(call'[d]) /\ \A e \in Discoveries \ {d} : call'[e] = call[e]
    BY <2>1, UpsertFacts DEF Sound, CallsSound, CallSound
  <2>3. CallsSound'
    BY <1>0, <2>2, OneCall DEF Sound
  <2>4. BindingTypeSafe'
    BY <1>0, <2>1, UpsertFacts, RowsSafe DEF Sound
  <2> QED
    BY <2>3, <2>4
<1>3. CASE DiscoverBind(d)
  <2>1. CallSound(call'[d]) /\ \A e \in Discoveries \ {d} : call'[e] = call[e]
    BY <1>3 DEF DiscoverBind, TypeOK, CallSound, NoCall
  <2>2. CallsSound'
    BY <1>0, <2>1, OneCall DEF Sound
  <2>3. CASE call[d].row \in Present
    <3> DEFINE r == call[d].row
    <3>1. r \in RowIds /\ rows[r] \in Row
      BY <2>3 DEF Present, TypeOK
    <3>2. /\ \A s \in RowIds \ {r} : rows'[s] = rows[s]
          /\ \A t \in CredTypes : rows'[r].cred[t] = IF t = "ssh" THEN call[d].used
                                                    ELSE rows[r].cred[t]
      BY <1>3, <2>3, <3>1 DEF DiscoverBind, TypeOK, Row
    <3>3. call[d].used # None => IssuedAs(call[d].used, "ssh")
      BY DEF Sound, CallsSound, CallSound
    <3> QED
      BY <1>0, <2>2, <2>3, <3>1, <3>2, <3>3, RowsSafe DEF Sound, Present
  <2>4. CASE call[d].row \notin Present
    BY <1>0, <1>3, <2>2, <2>4 DEF Sound, DiscoverBind, BindingTypeSafe, Present
  <2> QED
    BY <2>3, <2>4
<1>4. CASE DiscoverAbort(d)
  <2>1. CallSound(call'[d]) /\ \A e \in Discoveries \ {d} : call'[e] = call[e]
    BY <1>4 DEF DiscoverAbort, TypeOK, CallSound, NoCall
  <2>2. CallsSound'
    BY <1>0, <2>1, OneCall DEF Sound
  <2> QED
    BY <1>0, <1>4, <2>2 DEF Sound, BindingTypeSafe, Present, DiscoverAbort, stores
<1> QED
  BY <1>1, <1>2, <1>3, <1>4 DEF Discover

LEMMA SoundRemoveDevice ==
  ASSUME TypeOK, Sound, NEW r \in RowIds, RemoveDevice(r)
  PROVE  Sound'
<1>1. UNCHANGED <<file, local, issued, call>> /\ rows' = [rows EXCEPT ![r] = Gone]
  BY DEF RemoveDevice, history
<1>2. CallsSound'
  BY <1>1 DEF Sound, CallsSound, CallSound, IssuedAs
<1>3. BindingTypeSafe'
  BY <1>1, RowsSafe DEF Sound, TypeOK, Present
<1> QED
  BY <1>1, <1>2, <1>3, RowsMove

-----------------------------------------------------------------------------
(* The theorems.                                                           *)

LEMMA Steps == IInv /\ [Next]_vars => IInv'
<1> SUFFICES ASSUME IInv, [Next]_vars PROVE IInv'
  OBVIOUS
<1> USE DEF IInv
<1>1. CASE UNCHANGED vars
  <2>1. TypeOK'
    BY <1>1 DEF TypeOK, vars, stores, local, history
  <2>2. Sound'
    BY <1>1, RowsMove DEF vars, stores, history, Sound, CallsSound, CallSound, IssuedAs,
       BindingTypeSafe, Present
  <2> QED
    BY <2>1, <2>2
<1>2. CASE Next
  <2>1. TypeOK'
    BY <1>2, TypeSteps DEF Sound
  <2>2. ASSUME NEW p \in Operators, Begin(p) PROVE Sound'
    <3>1. ASSUME NEW k \in Key, NEW auth \in Kinds, AddStore(p, k, auth) PROVE Sound'
      BY <3>1, SoundAddStore
    <3>2. ASSUME NEW type \in CredTypes, NEW target \in Targets, RemoveList(p, type, target)
          PROVE  Sound'
      BY <3>2, SoundStart
    <3> QED
      BY <2>2, <3>1, <3>2, SoundStart DEF Begin
  <2>3. ASSUME NEW p \in Operators, Step(p) PROVE Sound'
    BY <2>3, SoundRegister, SoundSave, SoundAutoBind, SoundBind, SoundDelete, SoundUnregister,
       SoundNullBindings DEF Step
  <2>4. ASSUME NEW p \in Operators, Answer(p) \/ Crash(p) PROVE Sound'
    BY <2>4, SoundAutoBind, SoundCrash
  <2>5. Sound'
    BY <1>2, <2>2, <2>3, <2>4, SoundDiscover, SoundRemoveDevice DEF Next, Unkilled
  <2> QED
    BY <2>1, <2>5
<1> QED
  BY <1>1, <1>2

THEOREM Invariance == Spec => []IInv
  BY Starts, Steps, PTL DEF Spec

\* Every store, command and discovery stays in its type, whatever interleaves,
\* fails or is killed.
THEOREM TypeCorrect == Spec => []TypeOK
<1>1. IInv => TypeOK
  BY DEF IInv
<1> QED
  BY <1>1, Invariance, PTL

\* No interleaving of unlocked registry saves lists an account or a UUID twice.
THEOREM RegistryStaysWellFormed == Spec => []RegistryWellFormed
<1>1. IInv => RegistryWellFormed
  BY DEF IInv, Sound, RegistryWellFormed, WellFormed, IssuedOnce, ListsIssued, ListsKeyedOnce,
     KeysOnce
<1> QED
  BY <1>1, Invariance, PTL

\* No row's column ever holds a UUID of a credential of the other type, however
\* stale the UUIDs that commands and discoveries write.
THEOREM BindingsAreTypeSafe == Spec => []BindingTypeSafe
<1>1. IInv => BindingTypeSafe
  BY DEF IInv, Sound
<1> QED
  BY <1>1, Invariance, PTL

-----------------------------------------------------------------------------
(* Commands that do not overlap.                                           *)
(*                                                                         *)
(* From here on at most one command runs at a time.  Then nothing comes    *)
(* between what a command read and what it writes but discoveries, which   *)
(* touch neither the keyring nor the registry, and removals of rows.       *)

Alone == \A p, q \in Operators : p = q

\* A command that saves after an add puts its entry into the list it loaded,
\* and what it takes out counts as replaced.
Adding(p) ==
  /\ cmd[p].verb = "add"
  /\ listed[p] = {}
  /\ \E e \in Entry :
       /\ e.id = cmd[p].id /\ e.key = KeyOf(cmd[p]) /\ e.auth = cmd[p].auth
       /\ \A f \in base[p] : f.id # e.id
       /\ \A f \in base[p] : f.key = e.key => f.id \in replaced
       /\ snap[p] = Registered(base[p], e)

\* One that saves after a remove takes out the entries it found, all of them.
Removing(p) ==
  /\ cmd[p].verb = "remove"
  /\ listed[p] = EntriesFor(base[p], cmd[p].type, cmd[p].target)
  /\ listed[p] # {}
  /\ snap[p] = Unregistered(base[p], cmd[p].type, cmd[p].target)

\* What a command still knows at its next access to a store.
CommandAlone(p) ==
  /\ cmd[p].verb # "none" => cmd[p].type \in CredTypes
  /\ cmd[p].verb \in {"add", "remove"} => cmd[p].target \in Targets
  /\ pc[p] \in {"idle", "register", "autobind", "prompt"} => listed[p] = {}
  /\ pc[p] \in {"register", "autobind", "prompt"} => cmd[p].verb = "add"
  /\ pc[p] \in {"truncate", "write"} => Adding(p) \/ Removing(p)
  /\ pc[p] \in {"delete", "unregister"} =>
       /\ cmd[p].verb = "remove"
       /\ listed[p] = EntriesFor(Load(file), cmd[p].type, cmd[p].target)
       /\ listed[p] # {}
       /\ todo[p] \subseteq listed[p]
  /\ pc[p] = "unregister" => todo[p] = {}
  /\ pc[p] = "truncate" => base[p] = Load(file)
  /\ pc[p] = "write" => file = Torn
  /\ pc[p] = "null" => todo[p] \subseteq listed[p]
  /\ \A e \in listed[p] : e \in issued /\ e.id \in dying /\ e.key.type = cmd[p].type

\* The file is caught between open and write by the command that is there, or
\* since one was killed there.
TornHasCause ==
  /\ file = Torn => "torn" \in mishaps \/ \E p \in Operators : pc[p] = "write"
  /\ "torn" \in mishaps => "killed" \in mishaps

InStep == TornHasCause /\ \A p \in Operators : CommandAlone(p)

\* Entries without a secret were being removed.
Secured(entries) == \A e \in entries : HasSecret(e) \/ e.id \in dying

SecretsFirst ==
  /\ Secured(Load(file))
  /\ \A p \in Operators :
       /\ pc[p] \in {"truncate", "write"} => Secured(snap[p])
       /\ pc[p] = "register" => keyring[KeyOf(cmd[p])] # None

\* The keyring holds the secrets of these entries, but perhaps of one account.
AgreesBut(entries, k) ==
  /\ \A e \in entries : e.key # k => keyring[e.key] = e.auth
  /\ "kept" \notin mishaps =>
       \A l \in Key \ {k} : keyring[l] # None => \E e \in entries : e.key = l

Agrees(entries) ==
  /\ \A e \in entries : keyring[e.key] = e.auth
  /\ "kept" \notin mishaps =>
       \A k \in Key : keyring[k] # None => \E e \in entries : e.key = k

\* How far keyring and registry agree while a command is on its way.
AgreesAt(p) ==
  /\ pc[p] \in {"idle", "autobind", "prompt", "bind", "null"} => Agrees(Load(file))
  /\ pc[p] = "register" =>
       keyring[KeyOf(cmd[p])] = cmd[p].auth /\ AgreesBut(Load(file), KeyOf(cmd[p]))
  /\ pc[p] \in {"truncate", "write"} => Agrees(snap[p])
  /\ pc[p] \in {"delete", "unregister"} => Agrees(Load(file) \ (listed[p] \ todo[p]))

InAgreement ==
  "killed" \notin mishaps =>
    /\ Quiet => Agrees(Load(file))
    /\ \A p \in Operators : AgreesAt(p)

\* The UUIDs that are registered, or are not for a known cause.
KnownIds == {None} \cup {e.id : e \in SavedRegistry} \cup dying \cup replaced

EveryIdKnown ==
  "torn" \notin mishaps =>
    /\ \A r \in Present, t \in CredTypes : rows[r].cred[t] \in KnownIds
    /\ \A d \in Discoveries : call[d].used \in KnownIds
    /\ \A p \in Operators : pc[p] \in {"autobind", "prompt", "bind"} => cmd[p].id \in KnownIds

\* The UUIDs that are registered or were rotated away.
CurrentIds == {None} \cup {e.id : e \in SavedRegistry} \cup replaced

\* A UUID that a remove is about to clear from the rows.
BeingCleared(i) == \E p \in Operators : pc[p] = "null" /\ \E e \in todo[p] : e.id = i

Rotated ==
  mishaps \cap {"killed", "bound"} = {} =>
    /\ \A r \in Present, t \in CredTypes :
         rows[r].cred[t] \in CurrentIds \/ BeingCleared(rows[r].cred[t])
    /\ \A p \in Operators : pc[p] \in {"autobind", "prompt", "bind"} => cmd[p].id \in CurrentIds

\* Rows that share a name have no binding, for a binding is made by name.
NamesakesUnbound ==
  \A r, s \in Present : rows[r].host = rows[s].host /\ r # s =>
    \A t \in CredTypes : rows[r].cred[t] = None

\* The row an add is about to bind unasked is still unbound.
AboutToBind ==
  "bound" \notin mishaps =>
    /\ NamesakesUnbound
    /\ \A p \in Operators : pc[p] = "bind" /\ cmd[p].verb = "add" /\ ~ cmd[p].asked =>
         \A r \in Named(cmd[p].host) : rows[r].cred[cmd[p].type] = None

\* The one command that runs, and the rest of the system.
LEMMA TheCommand ==
  ASSUME Alone, NEW p \in Operators, CommandAlone(p)', TornHasCause'
  PROVE  InStep'
<1> SUFFICES ASSUME NEW q \in Operators PROVE CommandAlone(q)'
  BY DEF InStep
<1>1. q = p
  BY DEF Alone
<1> QED
  BY <1>1

\* Steps of others leave the command what it knows.
LEMMA OthersInStep ==
  ASSUME InStep, UNCHANGED <<file, local, issued, dying, replaced>>,
         "torn" \in mishaps' <=> "torn" \in mishaps,
         "killed" \in mishaps' <=> "killed" \in mishaps
  PROVE  InStep'
<1>1. TornHasCause'
  BY DEF InStep, TornHasCause, local
<1>2. ASSUME NEW p \in Operators PROVE CommandAlone(p)'
  BY DEF InStep, CommandAlone, Adding, Removing, KeyOf, Load, local
<1> QED
  BY <1>1, <1>2 DEF InStep

\* A command that returns, or is killed, leaves nothing half done but the file.
LEMMA ReturnInStep ==
  ASSUME TypeOK, Alone, InStep, NEW p \in Operators, Return(p), TornHasCause'
  PROVE  InStep'
<1>1. pc'[p] = "idle" /\ cmd'[p] = NoCommand /\ listed'[p] = {}
  BY DEF TypeOK, Return
<1>2. CommandAlone(p)'
  BY <1>1 DEF CommandAlone, NoCommand
<1> QED
  BY <1>2, TheCommand

LEMMA InStepAddStore ==
  ASSUME TypeOK, Alone, InStep, NEW p \in Operators, NEW k \in Key, NEW auth \in Kinds,
         AddStore(p, k, auth)
  PROVE  InStep'
<1>1. /\ pc'[p] = "register" /\ listed'[p] = listed[p] /\ file' = file /\ mishaps' = mishaps
      /\ cmd'[p].verb = "add" /\ cmd'[p].type = k.type /\ cmd'[p].target = k.target
      /\ pc[p] = "idle"
  BY DEF AddStore, TypeOK, NoCommand, history
<1>2. k.type \in CredTypes /\ k.target \in Targets
  BY DEF Key
<1>3. CommandAlone(p)'
  BY <1>1, <1>2 DEF InStep, CommandAlone
<1>4. TornHasCause'
  BY <1>1 DEF InStep, TornHasCause, Alone
<1> QED
  BY <1>3, <1>4, TheCommand

\* What register_credential is about to save.
LEMMA RegisterEffect ==
  ASSUME TypeOK, Sound, NEW p \in Operators, Register(p)
  PROVE  \E e \in Entry :
           /\ e.key = KeyOf(cmd[p]) /\ e.auth = cmd[p].auth
           /\ \A f \in issued : f.id # e.id
           /\ base'[p] = Load(file)
           /\ snap'[p] = Registered(Load(file), e)
           /\ cmd'[p] = [cmd[p] EXCEPT !.id = e.id]
           /\ replaced' = replaced \cup {f.id : f \in {g \in Load(file) : g.key = e.key}}
           /\ pc'[p] = "truncate"
           /\ UNCHANGED <<stores, listed, todo, call, dying, nulled, mishaps>>
<1>1. PICK i \in UnusedIds :
        LET e == [id |-> i, key |-> KeyOf(cmd[p]), auth |-> cmd[p].auth]
        IN  /\ base' = [base EXCEPT ![p] = Load(file)]
            /\ snap' = [snap EXCEPT ![p] = Registered(Load(file), e)]
            /\ cmd' = [cmd EXCEPT ![p].id = i]
            /\ replaced' = replaced \cup {f.id : f \in {g \in Load(file) : g.key = e.key}}
  BY DEF Register
<1> DEFINE e == [id |-> i, key |-> KeyOf(cmd[p]), auth |-> cmd[p].auth]
<1>2. e \in Entry /\ e.id = i /\ e.key = KeyOf(cmd[p]) /\ e.auth = cmd[p].auth
  BY DEF UnusedIds, Entry, Sound, CommandsSound, CommandSound, Register
<1>3. \A f \in issued : f.id # e.id
  BY DEF UnusedIds
<1>4. /\ base'[p] = Load(file) /\ snap'[p] = Registered(Load(file), e)
      /\ cmd'[p] = [cmd[p] EXCEPT !.id = e.id] /\ pc'[p] = "truncate"
  BY <1>1 DEF Register, TypeOK
<1>5. /\ replaced' = replaced \cup {f.id : f \in {g \in Load(file) : g.key = e.key}}
      /\ UNCHANGED <<stores, listed, todo, call, dying, nulled, mishaps>>
  BY <1>1 DEF Register
<1> QED
  BY <1>2, <1>3, <1>4, <1>5

LEMMA InStepRegister ==
  ASSUME TypeOK, Sound, Alone, InStep, NEW p \in Operators, Register(p)
  PROVE  InStep'
<1>1. PICK e \in Entry :
        /\ e.key = KeyOf(cmd[p]) /\ e.auth = cmd[p].auth
        /\ \A f \in issued : f.id # e.id
        /\ base'[p] = Load(file)
        /\ snap'[p] = Registered(Load(file), e)
        /\ cmd'[p] = [cmd[p] EXCEPT !.id = e.id]
        /\ replaced' = replaced \cup {f.id : f \in {g \in Load(file) : g.key = e.key}}
        /\ pc'[p] = "truncate"
        /\ UNCHANGED <<stores, listed, todo, call, dying, nulled, mishaps>>
  BY RegisterEffect
<1>2. /\ cmd'[p].verb = cmd[p].verb /\ cmd'[p].type = cmd[p].type /\ cmd'[p].user = cmd[p].user
      /\ cmd'[p].target = cmd[p].target /\ cmd'[p].auth = cmd[p].auth /\ cmd'[p].id = e.id
  BY <1>1 DEF TypeOK, Command
<1>3. pc[p] = "register" /\ listed'[p] = listed[p] /\ file' = file /\ mishaps' = mishaps
  BY <1>1 DEF Register, stores
<1>4. Adding(p)'
  <2>1. cmd'[p].verb = "add" /\ listed'[p] = {}
    BY <1>2, <1>3 DEF InStep, CommandAlone
  <2>2. e.key = KeyOf(cmd'[p])
    BY <1>1, <1>2 DEF KeyOf
  <2>3. \A f \in base'[p] : f.id # e.id
    BY <1>1 DEF Sound, ListsIssued
  <2>4. \A f \in base'[p] : f.key = e.key => f.id \in replaced'
    BY <1>1
  <2>5. snap'[p] = Registered(base'[p], e)
    BY <1>1
  <2> QED
    BY <1>1, <1>2, <2>1, <2>2, <2>3, <2>4, <2>5 DEF Adding, KeyOf
<1>5. CommandAlone(p)'
  BY <1>1, <1>2, <1>3, <1>4 DEF InStep, CommandAlone, Load
<1>6. TornHasCause'
  BY <1>1, <1>3 DEF InStep, TornHasCause, Alone
<1> QED
  BY <1>5, <1>6, TheCommand

LEMMA InStepSave ==
  ASSUME TypeOK, Alone, InStep, NEW p \in Operators, Truncate(p) \/ Write(p)
  PROVE  InStep'
<1>1. CASE Truncate(p)
  <2>1. /\ file' = Torn /\ pc'[p] = "write" /\ pc[p] = "truncate" /\ mishaps' = mishaps
        /\ UNCHANGED <<cmd, base, snap, listed, issued, dying, replaced>>
    BY <1>1 DEF Truncate, TypeOK, history
  <2>2. Adding(p)' \/ Removing(p)'
    BY <2>1 DEF InStep, CommandAlone, Adding, Removing, KeyOf
  <2>3. CommandAlone(p)'
    BY <2>1, <2>2 DEF InStep, CommandAlone
  <2>4. TornHasCause'
    BY <2>1 DEF InStep, TornHasCause
  <2> QED
    BY <2>3, <2>4, TheCommand
<1>2. CASE Write(p)
  <2>1. file' = snap[p] /\ pc[p] = "write" /\ snap[p] \in SUBSET Entry /\ mishaps' = mishaps
    BY <1>2 DEF Write, TypeOK, history
  <2>2. TornHasCause'
    BY <2>1, TornAssumption DEF InStep, TornHasCause
  <2>3. CASE Return(p)
    BY <2>2, <2>3, ReturnInStep
  <2>4. CASE ~ Return(p)
    <3>1. /\ pc'[p] = IF cmd[p].verb = "add" THEN "autobind" ELSE "null"
          /\ todo'[p] = listed[p]
          /\ UNCHANGED <<cmd, base, snap, listed, issued, dying, replaced>>
      BY <1>2, <2>4 DEF Write, TypeOK, history
    <3>2. CommandAlone(p)'
      BY <2>1, <3>1 DEF InStep, CommandAlone, Adding, Removing
    <3> QED
      BY <2>2, <3>2, TheCommand
  <2> QED
    BY <2>3, <2>4
<1> QED
  BY <1>1, <1>2

\* Of an auto-bind and an answer, what the command takes along.
LEMMA BindingMoves ==
  ASSUME TypeOK, NEW p \in Operators, AutoBind(p) \/ Answer(p), ~ Return(p)
  PROVE  /\ pc[p] \in {"autobind", "prompt"} /\ pc'[p] \in {"prompt", "bind"}
         /\ cmd'[p].verb = cmd[p].verb /\ cmd'[p].type = cmd[p].type
         /\ cmd'[p].target = cmd[p].target /\ cmd'[p].id = cmd[p].id
         /\ UNCHANGED <<stores, base, snap, listed, todo, call, history>>
<1>1. cmd[p] \in Command
  BY DEF TypeOK
<1> QED
  BY <1>1 DEF AutoBind, Answer, TypeOK, Command

LEMMA InStepAutoBind ==
  ASSUME TypeOK, Alone, InStep, NEW p \in Operators, AutoBind(p) \/ Answer(p)
  PROVE  InStep'
<1>1. /\ pc[p] \in {"autobind", "prompt"} /\ UNCHANGED <<file, mishaps, issued, dying, replaced>>
  BY DEF AutoBind, Answer, stores, history
<1>2. TornHasCause'
  BY <1>1 DEF InStep, TornHasCause, Alone
<1>3. CASE Return(p)
  BY <1>2, <1>3, ReturnInStep
<1>4. CASE ~ Return(p)
  <2>1. /\ pc'[p] \in {"prompt", "bind"}
        /\ cmd'[p].verb = cmd[p].verb /\ cmd'[p].type = cmd[p].type
        /\ cmd'[p].target = cmd[p].target
        /\ UNCHANGED <<listed, todo>>
    BY <1>4, BindingMoves
  <2>2. CommandAlone(p)'
    BY <1>1, <2>1 DEF InStep, CommandAlone
  <2> QED
    BY <1>2, <2>2, TheCommand
<1> QED
  BY <1>3, <1>4

LEMMA InStepBind ==
  ASSUME TypeOK, Alone, InStep, NEW p \in Operators, Bind(p)
  PROVE  InStep'
<1>1. pc[p] = "bind" /\ UNCHANGED <<file, mishaps>> /\ Return(p)
  BY DEF Bind, history
<1>2. TornHasCause'
  BY <1>1 DEF InStep, TornHasCause, Alone
<1> QED
  BY <1>1, <1>2, ReturnInStep

LEMMA InStepRemove ==
  ASSUME TypeOK, Sound, Alone, InStep, NEW p \in Operators, NEW type \in CredTypes,
         NEW target \in Targets, RemoveList(p, type, target)
  PROVE  InStep'
<1> DEFINE found == EntriesFor(Load(file), type, target)
<1>1. /\ pc'[p] = "delete" /\ listed'[p] = found /\ todo'[p] = found /\ found # {}
      /\ cmd'[p].verb = "remove" /\ cmd'[p].type = type /\ cmd'[p].target = target
      /\ dying' = dying \cup {e.id : e \in found}
      /\ pc[p] = "idle" /\ UNCHANGED <<file, mishaps, issued, replaced>>
  BY DEF RemoveList, TypeOK, NoCommand, stores
<1>2. TornHasCause'
  BY <1>1 DEF InStep, TornHasCause, Alone
<1>3. \A e \in found : e \in issued /\ e.key.type = type
  BY DEF EntriesFor, Sound, ListsIssued
<1>4. CommandAlone(p)'
  BY <1>1, <1>3 DEF CommandAlone, Load
<1> QED
  BY <1>2, <1>4, TheCommand

LEMMA InStepLink ==
  ASSUME TypeOK, Alone, InStep, NEW p \in Operators, NEW type \in CredTypes, NEW h \in Hosts,
         UnlinkCheck(p, type, h) \/ \E i \in Ids : LinkCheck(p, type, h, i)
  PROVE  InStep'
<1>1. PICK i : UnlinkCheck(p, type, h) \/ LinkCheck(p, type, h, i)
  OBVIOUS
<1>2. /\ pc[p] = "idle" /\ pc'[p] = "bind" /\ listed'[p] = listed[p]
      /\ UNCHANGED <<file, mishaps, replaced>>
  BY <1>1 DEF UnlinkCheck, LinkCheck, TypeOK, stores, history
<1>3. cmd'[p].type = type /\ cmd'[p].verb \in {"link", "unlink"}
  <2>1. CASE UnlinkCheck(p, type, h)
    BY <2>1 DEF UnlinkCheck, TypeOK, NoCommand
  <2>2. CASE LinkCheck(p, type, h, i)
    BY <2>2 DEF LinkCheck, TypeOK, NoCommand
  <2> QED
    BY <1>1, <2>1, <2>2
<1>4. TornHasCause'
  BY <1>2 DEF InStep, TornHasCause, Alone
<1>5. CommandAlone(p)'
  BY <1>2, <1>3 DEF InStep, CommandAlone
<1> QED
  BY <1>4, <1>5, TheCommand

\* A delete deals with one of the entries that remove found.
LEMMA DeleteEffect ==
  ASSUME TypeOK, NEW p \in Operators, DeleteSecret(p)
  PROVE  \E e \in todo[p] :
           /\ \/ keyring' = [keyring EXCEPT ![e.key] = None] /\ UNCHANGED mishaps
              \/ keyring' = keyring /\ mishaps' = mishaps \cup {"kept"}
           /\ todo'[p] = todo[p] \ {e}
           /\ pc[p] = "delete" /\ pc'[p] \in {"unregister", "delete"}
           /\ pc'[p] = "unregister" => todo'[p] = {}
           /\ UNCHANGED <<file, rows, cmd, base, snap, listed, call, issued, dying, replaced>>
  BY DEF DeleteSecret, TypeOK

LEMMA InStepDelete ==
  ASSUME TypeOK, Alone, InStep, NEW p \in Operators, DeleteSecret(p)
  PROVE  InStep'
<1>1. PICK e \in todo[p] :
        /\ mishaps' \in {mishaps, mishaps \cup {"kept"}}
        /\ todo'[p] = todo[p] \ {e}
        /\ pc[p] = "delete" /\ pc'[p] \in {"unregister", "delete"}
        /\ pc'[p] = "unregister" => todo'[p] = {}
        /\ UNCHANGED <<file, rows, cmd, base, snap, listed, call, issued, dying, replaced>>
  BY DeleteEffect
<1>2. TornHasCause'
  BY <1>1 DEF InStep, TornHasCause, Alone
<1>3. CommandAlone(p)'
  BY <1>1 DEF InStep, CommandAlone, Load
<1> QED
  BY <1>2, <1>3, TheCommand

LEMMA InStepUnregister ==
  ASSUME TypeOK, Alone, InStep, NEW p \in Operators, Unregister(p)
  PROVE  InStep'
<1>1. /\ pc[p] = "unregister" /\ pc'[p] = "truncate" /\ base'[p] = Load(file)
      /\ snap'[p] = Unregistered(Load(file), cmd[p].type, cmd[p].target)
      /\ UNCHANGED <<file, cmd, listed, todo, issued, dying, replaced, mishaps>>
  BY DEF Unregister, TypeOK, stores, history
<1>2. TornHasCause'
  BY <1>1 DEF InStep, TornHasCause, Alone
<1>3. Removing(p)'
  BY <1>1 DEF InStep, CommandAlone, Removing
<1>4. CommandAlone(p)'
  BY <1>1, <1>3 DEF InStep, CommandAlone, Load
<1> QED
  BY <1>2, <1>4, TheCommand

LEMMA InStepNullBindings ==
  ASSUME TypeOK, Alone, InStep, NEW p \in Operators, NullBindings(p)
  PROVE  InStep'
<1>1. pc[p] = "null" /\ UNCHANGED <<file, mishaps, issued, dying, replaced>>
  BY DEF NullBindings
<1>2. TornHasCause'
  BY <1>1 DEF InStep, TornHasCause, Alone, NullBindings, Return
<1>3. CASE Return(p)
  BY <1>2, <1>3, ReturnInStep
<1>4. CASE ~ Return(p)
  <2>1. todo'[p] \subseteq todo[p] /\ UNCHANGED <<pc, cmd, base, snap, listed>>
    BY <1>4 DEF NullBindings, TypeOK
  <2>2. CommandAlone(p)'
    BY <1>1, <2>1 DEF InStep, CommandAlone
  <2> QED
    BY <1>2, <2>2, TheCommand
<1> QED
  BY <1>3, <1>4

LEMMA InStepCrash ==
  ASSUME TypeOK, Alone, InStep, NEW p \in Operators, Crash(p)
  PROVE  InStep'
<1>1. /\ mishaps' = mishaps \cup {"killed"} \cup (IF pc[p] = "write" THEN {"torn"} ELSE {})
      /\ Return(p) /\ file' = file
  BY DEF Crash, stores
<1>2. TornHasCause'
  BY <1>1 DEF InStep, TornHasCause, Alone
<1> QED
  BY <1>1, <1>2, ReturnInStep

\* Discoveries and removals of rows touch neither commands nor the registry.
LEMMA OtherSteps ==
  ASSUME TypeOK, (\E d \in Discoveries : Discover(d)) \/ \E r \in RowIds : RemoveDevice(r)
  PROVE  /\ UNCHANGED <<keyring, file, local, issued, dying, replaced>>
         /\ mishaps' \in {mishaps, mishaps \cup {"bound"}}
  BY DEF Discover, DiscoverResolve, DiscoverSucceed, DiscoverFail, DiscoverBind, DiscoverAbort,
     RemoveDevice, stores, history

LEMMA InStepSteps == IInv /\ Alone /\ InStep /\ [Next]_vars => InStep'
<1> SUFFICES ASSUME TypeOK, Sound, Alone, InStep, [Next]_vars PROVE InStep'
  BY DEF IInv
<1>1. ASSUME NEW p \in Operators, Begin(p) PROVE InStep'
  <2>1. ASSUME NEW k \in Key, NEW auth \in Kinds, AddStore(p, k, auth) PROVE InStep'
    BY <2>1, InStepAddStore
  <2>2. ASSUME NEW type \in CredTypes, NEW target \in Targets, RemoveList(p, type, target)
        PROVE  InStep'
    BY <2>2, InStepRemove
  <2>3. ASSUME NEW type \in CredTypes, NEW h \in Hosts,
               UnlinkCheck(p, type, h) \/ \E i \in Ids : LinkCheck(p, type, h, i)
        PROVE  InStep'
    BY <2>3, InStepLink
  <2> QED
    BY <1>1, <2>1, <2>2, <2>3 DEF Begin
<1>2. ASSUME NEW p \in Operators, Step(p) PROVE InStep'
  BY <1>2, InStepRegister, InStepSave, InStepAutoBind, InStepBind, InStepDelete,
     InStepUnregister, InStepNullBindings DEF Step
<1>3. ASSUME NEW p \in Operators, Answer(p) \/ Crash(p) PROVE InStep'
  BY <1>3, InStepAutoBind, InStepCrash
<1>4. CASE (\E d \in Discoveries : Discover(d)) \/ \E r \in RowIds : RemoveDevice(r)
  BY <1>4, OtherSteps, OthersInStep
<1>5. CASE UNCHANGED vars
  BY <1>5, OthersInStep DEF vars, stores, history
<1> QED
  BY <1>1, <1>2, <1>3, <1>4, <1>5 DEF Next, Unkilled

-----------------------------------------------------------------------------
(* The keyring is written before the registry.                             *)

\* While the keyring keeps its secrets, secured lists stay secured.
LEMMA SecuredStays ==
  ASSUME NEW entries, Secured(entries), dying \subseteq dying',
         \A e \in entries : keyring[e.key] # None => keyring'[e.key] # None
  PROVE  \A e \in entries : keyring'[e.key] # None \/ e.id \in dying'
  BY DEF Secured, HasSecret

\* The step of a command that keeps both stores and has nothing to save next.
LEMMA SecretsKept ==
  ASSUME Alone, SecretsFirst, UNCHANGED <<keyring, file>>, dying \subseteq dying',
         NEW p \in Operators, pc'[p] \notin {"register", "truncate", "write"}
  PROVE  SecretsFirst'
<1>1. Secured(Load(file))'
  BY DEF SecretsFirst, Secured, HasSecret, Load
<1>2. \A q \in Operators : q = p
  BY DEF Alone
<1> QED
  BY <1>1, <1>2 DEF SecretsFirst

LEMMA SecretsAddStore ==
  ASSUME TypeOK, Alone, SecretsFirst, NEW p \in Operators, NEW k \in Key, NEW auth \in Kinds,
         AddStore(p, k, auth)
  PROVE  SecretsFirst'
<1>1. /\ pc'[p] = "register" /\ file' = file /\ dying' = dying
      /\ keyring' = [keyring EXCEPT ![k] = auth]
      /\ cmd'[p] = [NoCommand EXCEPT !.verb = "add", !.type = k.type, !.user = k.user,
                                     !.target = k.target, !.auth = auth]
  BY DEF AddStore, TypeOK, history
<1>2. KeyOf(cmd'[p]) = k
  BY <1>1 DEF KeyOf, NoCommand, Key
<1>3. auth # None
  BY NoneAssumption DEF Kinds
<1>4. \A l \in Key : keyring[l] # None => keyring'[l] # None
  BY <1>1, <1>3 DEF TypeOK
<1>5. \A e \in Load(file) : e.key \in Key
  BY LoadFacts DEF Entry
<1>6. Secured(Load(file))'
  BY <1>1, <1>4, <1>5 DEF SecretsFirst, Secured, HasSecret, Load
<1>7. keyring'[k] # None
  BY <1>1, <1>3 DEF TypeOK
<1>8. \A q \in Operators : q = p
  BY DEF Alone
<1> QED
  BY <1>1, <1>2, <1>6, <1>7, <1>8 DEF SecretsFirst, KeyOf

LEMMA SecretsRegister ==
  ASSUME TypeOK, Sound, Alone, SecretsFirst, NEW p \in Operators, Register(p)
  PROVE  SecretsFirst'
<1>1. PICK e \in Entry :
        /\ e.key = KeyOf(cmd[p])
        /\ snap'[p] = Registered(Load(file), e)
        /\ pc'[p] = "truncate"
        /\ UNCHANGED <<stores, dying>>
  BY RegisterEffect
<1>2. HasSecret(e)
  BY <1>1 DEF SecretsFirst, HasSecret, Register
<1>3. \A f \in snap'[p] : f \in Load(file) \/ f = e
  BY <1>1, RegisteredFacts DEF Registered
<1>4. UNCHANGED <<keyring, file, dying>>
  BY <1>1 DEF stores
<1>5. \A f \in snap'[p] : keyring[f.key] # None \/ f.id \in dying
  BY <1>2, <1>3 DEF SecretsFirst, Secured, HasSecret
<1>6. Secured(Load(file))' /\ Secured(snap[p])'
  BY <1>4, <1>5 DEF SecretsFirst, Secured, HasSecret, Load
<1>7. \A q \in Operators : q = p
  BY DEF Alone
<1> QED
  BY <1>1, <1>6, <1>7 DEF SecretsFirst

LEMMA SecretsSave ==
  ASSUME TypeOK, Alone, SecretsFirst, NEW p \in Operators, Truncate(p) \/ Write(p)
  PROVE  SecretsFirst'
<1>0. \A q \in Operators : q = p
  BY DEF Alone
<1>1. CASE Truncate(p)
  <2>1. /\ UNCHANGED <<keyring, dying, snap>> /\ pc[p] = "truncate" /\ file' = Torn
        /\ pc'[p] = "write"
    BY <1>1 DEF Truncate, TypeOK, history
  <2>2. Secured(Load(file))' /\ Secured(snap[p])'
    BY <2>1 DEF SecretsFirst, Secured, HasSecret, Load
  <2> QED
    BY <1>0, <2>1, <2>2 DEF SecretsFirst
<1>2. CASE Write(p)
  <2>1. /\ UNCHANGED <<keyring, dying>> /\ pc[p] = "write" /\ file' = snap[p]
        /\ pc'[p] \in {"idle", "autobind", "null"}
    BY <1>2, ReturnFacts DEF Write, TypeOK, history
  <2>2. Secured(Load(file))'
    BY <2>1 DEF SecretsFirst, Secured, HasSecret, Load
  <2> QED
    BY <1>0, <2>1, <2>2 DEF SecretsFirst
<1> QED
  BY <1>1, <1>2

LEMMA SecretsDelete ==
  ASSUME TypeOK, Sound, Alone, InStep, SecretsFirst, NEW p \in Operators, DeleteSecret(p)
  PROVE  SecretsFirst'
<1>1. PICK e \in todo[p] :
        /\ \/ keyring' = [keyring EXCEPT ![e.key] = None]
           \/ keyring' = keyring
        /\ pc[p] = "delete" /\ pc'[p] \in {"unregister", "delete"}
        /\ UNCHANGED <<file, dying>>
  BY DeleteEffect
<1>2. e \in Load(file) /\ e.id \in dying
  BY <1>1 DEF InStep, CommandAlone, EntriesFor
<1>3. Load(file) \subseteq Entry /\ KeysOnce(Load(file))
  BY LoadFacts DEF Sound, ListsKeyedOnce
<1>4. \A f \in Load(file) : keyring'[f.key] # None \/ f.id \in dying
  <2> SUFFICES ASSUME NEW f \in Load(file), f.id \notin dying PROVE keyring'[f.key] # None
    OBVIOUS
  <2>1. f.key # e.key
    BY <1>2, <1>3 DEF KeysOnce
  <2>2. keyring[f.key] # None
    BY DEF SecretsFirst, Secured, HasSecret
  <2> QED
    BY <1>1, <1>3, <2>1, <2>2 DEF TypeOK, Entry
<1>5. Secured(Load(file))'
  BY <1>1, <1>4 DEF Secured, HasSecret, Load
<1>6. \A q \in Operators : q = p
  BY DEF Alone
<1> QED
  BY <1>1, <1>5, <1>6 DEF SecretsFirst

LEMMA SecretsUnregister ==
  ASSUME TypeOK, Alone, SecretsFirst, NEW p \in Operators, Unregister(p)
  PROVE  SecretsFirst'
<1>1. /\ pc'[p] = "truncate" /\ snap'[p] = Unregistered(Load(file), cmd[p].type, cmd[p].target)
      /\ UNCHANGED <<keyring, file, dying>>
  BY DEF Unregister, TypeOK, stores, history
<1>2. snap'[p] \subseteq Load(file)
  BY <1>1, UnregisteredFacts
<1>3. Secured(Load(file))' /\ Secured(snap[p])'
  BY <1>1, <1>2 DEF SecretsFirst, Secured, HasSecret, Load
<1>4. \A q \in Operators : q = p
  BY DEF Alone
<1> QED
  BY <1>1, <1>3, <1>4 DEF SecretsFirst

\* Where a command is after the steps that write neither keyring nor registry.
LEMMA GentleSteps ==
  ASSUME TypeOK, NEW p \in Operators,
         \/ AutoBind(p) \/ Answer(p) \/ Bind(p) \/ NullBindings(p) \/ Crash(p)
         \/ \E type \in CredTypes, h \in Hosts :
              UnlinkCheck(p, type, h) \/ \E i \in Ids : LinkCheck(p, type, h, i)
         \/ \E type \in CredTypes, target \in Targets : RemoveList(p, type, target)
  PROVE  /\ UNCHANGED <<keyring, file>> /\ dying \subseteq dying'
         /\ pc'[p] \in {"idle", "prompt", "bind", "null", "delete"}
<1>1. CASE Return(p)
  <2>1. pc'[p] = "idle"
    BY <1>1, ReturnFacts
  <2> QED
    BY <2>1 DEF AutoBind, Answer, Bind, NullBindings, Crash, UnlinkCheck, LinkCheck, RemoveList,
       stores, history
<1>2. CASE ~ Return(p)
  <2>1. UNCHANGED <<keyring, file>> /\ dying \subseteq dying'
    BY DEF AutoBind, Answer, Bind, NullBindings, Crash, UnlinkCheck, LinkCheck, RemoveList,
       stores, history
  <2>2. pc'[p] \in {"prompt", "bind", "null", "delete"}
    BY <1>2 DEF AutoBind, Answer, Bind, NullBindings, Crash, UnlinkCheck, LinkCheck, RemoveList,
       TypeOK
  <2> QED
    BY <2>1, <2>2
<1> QED
  BY <1>1, <1>2

\* Every step of a command is a gentle one or one of these.
LEMMA StepKinds ==
  ASSUME Next
  PROVE  \/ \E p \in Operators :
              \/ \E k \in Key, auth \in Kinds : AddStore(p, k, auth)
              \/ Register(p) \/ Truncate(p) \/ Write(p) \/ DeleteSecret(p) \/ Unregister(p)
              \/ \/ AutoBind(p) \/ Answer(p) \/ Bind(p) \/ NullBindings(p) \/ Crash(p)
                 \/ \E type \in CredTypes, h \in Hosts :
                      UnlinkCheck(p, type, h) \/ \E i \in Ids : LinkCheck(p, type, h, i)
                 \/ \E type \in CredTypes, target \in Targets : RemoveList(p, type, target)
         \/ (\E d \in Discoveries : Discover(d)) \/ \E r \in RowIds : RemoveDevice(r)
  BY DEF Next, Unkilled, Begin, Step

LEMMA SecretsSteps == IInv /\ Alone /\ InStep /\ SecretsFirst /\ [Next]_vars => SecretsFirst'
<1> SUFFICES ASSUME TypeOK, Sound, Alone, InStep, SecretsFirst, [Next]_vars
             PROVE  SecretsFirst'
  BY DEF IInv
<1>1. ASSUME UNCHANGED <<keyring, file, local, dying>> PROVE SecretsFirst'
  BY <1>1 DEF SecretsFirst, Secured, HasSecret, Load, KeyOf, local
<1>2. CASE UNCHANGED vars
  BY <1>1, <1>2 DEF vars, stores, history
<1>3. CASE (\E d \in Discoveries : Discover(d)) \/ \E r \in RowIds : RemoveDevice(r)
  BY <1>1, <1>3, OtherSteps
<1>4. ASSUME NEW p \in Operators,
             \/ AutoBind(p) \/ Answer(p) \/ Bind(p) \/ NullBindings(p) \/ Crash(p)
             \/ \E type \in CredTypes, h \in Hosts :
                  UnlinkCheck(p, type, h) \/ \E i \in Ids : LinkCheck(p, type, h, i)
             \/ \E type \in CredTypes, target \in Targets : RemoveList(p, type, target)
      PROVE  SecretsFirst'
  <2>1. /\ UNCHANGED <<keyring, file>> /\ dying \subseteq dying'
        /\ pc'[p] \in {"idle", "prompt", "bind", "null", "delete"}
    BY <1>4, GentleSteps
  <2> QED
    BY <2>1, SecretsKept
<1>5. ASSUME NEW p \in Operators, NEW k \in Key, NEW auth \in Kinds, AddStore(p, k, auth)
      PROVE  SecretsFirst'
  BY <1>5, SecretsAddStore
<1>6. ASSUME NEW p \in Operators,
             Register(p) \/ Truncate(p) \/ Write(p) \/ DeleteSecret(p) \/ Unregister(p)
      PROVE  SecretsFirst'
  BY <1>6, SecretsRegister, SecretsSave, SecretsDelete, SecretsUnregister
<1> QED
  BY <1>2, <1>3, <1>4, <1>5, <1>6, StepKinds

-----------------------------------------------------------------------------
(* The registry changes by whole commands.                                 *)

\* Which registry was saved last, while commands do not overlap.
SavedBy(p) == IF file # Torn THEN file ELSE IF pc[p] = "write" THEN base[p] ELSE {}

LEMMA SavedFacts ==
  ASSUME Alone, NEW p \in Operators
  PROVE  SavedRegistry = SavedBy(p) /\ SavedRegistry' = SavedBy(p)'
<1>1. \A q \in Operators : q = p
  BY DEF Alone
<1>2. CASE pc[p] = "write"
  BY <1>1, <1>2 DEF SavedRegistry, SavedBy
<1>3. CASE pc[p] # "write"
  BY <1>1, <1>3 DEF SavedRegistry, SavedBy
<1>4. CASE pc'[p] = "write"
  BY <1>1, <1>4 DEF SavedRegistry, SavedBy
<1>5. CASE pc'[p] # "write"
  BY <1>1, <1>5 DEF SavedRegistry, SavedBy
<1> QED
  BY <1>2, <1>3, <1>4, <1>5

\* How a step changes it.
LEMMA SavedMoves ==
  ASSUME TypeOK, Sound, Alone, InStep, [Next]_vars
  PROVE  \/ SavedRegistry' = SavedRegistry /\ ("torn" \in mishaps' <=> "torn" \in mishaps)
         \/ /\ SavedRegistry' = {} /\ "torn" \in mishaps'
            /\ \E p \in Operators : Crash(p)
         \/ \E p \in Operators :
              /\ Write(p) /\ mishaps' = mishaps
              /\ SavedRegistry = base[p] /\ SavedRegistry' = snap[p]
<1> DEFINE Same == SavedRegistry' = SavedRegistry /\ ("torn" \in mishaps' <=> "torn" \in mishaps)
           Kept(p) == pc[p] # "write" /\ pc'[p] # "write" /\ file' = file
<1>1. ASSUME UNCHANGED <<file, local>>, mishaps' \in {mishaps, mishaps \cup {"bound"}}
      PROVE  Same
  BY <1>1 DEF SavedRegistry, local
<1>2. ASSUME UNCHANGED vars PROVE Same
  BY <1>1, <1>2 DEF vars, stores, history
<1>3. ASSUME (\E d \in Discoveries : Discover(d)) \/ \E r \in RowIds : RemoveDevice(r)
      PROVE  Same
  BY <1>1, <1>3, OtherSteps
<1>4. ASSUME NEW p \in Operators, Kept(p), "torn" \in mishaps' <=> "torn" \in mishaps
      PROVE  Same
  BY <1>4, SavedFacts DEF SavedBy
<1>5. ASSUME NEW p \in Operators, NEW k \in Key, NEW auth \in Kinds, AddStore(p, k, auth)
      PROVE  Same
  <2>1. Kept(p) /\ mishaps' = mishaps
    BY <1>5 DEF AddStore, TypeOK, history
  <2> QED
    BY <1>4, <2>1
<1>6. ASSUME NEW p \in Operators, Register(p) \/ Unregister(p) PROVE Same
  <2>1. Kept(p) /\ mishaps' = mishaps
    BY <1>6 DEF Register, Unregister, TypeOK, stores, history
  <2> QED
    BY <1>4, <2>1
<1>7. ASSUME NEW p \in Operators, DeleteSecret(p) PROVE Same
  <2>1. Kept(p) /\ mishaps' \in {mishaps, mishaps \cup {"kept"}}
    BY <1>7, DeleteEffect
  <2> QED
    BY <1>4, <2>1
<1>8. ASSUME NEW p \in Operators, Truncate(p) PROVE Same
  <2>1. /\ file' = Torn /\ pc[p] = "truncate" /\ pc'[p] = "write" /\ base'[p] = base[p]
        /\ mishaps' = mishaps
    BY <1>8 DEF Truncate, TypeOK, history
  <2>2. base[p] = Load(file)
    BY <2>1 DEF InStep, CommandAlone
  <2> QED
    BY <2>1, <2>2, SavedFacts DEF SavedBy, Load
<1>9. ASSUME NEW p \in Operators, Write(p)
      PROVE  mishaps' = mishaps /\ SavedRegistry = base[p] /\ SavedRegistry' = snap[p]
  <2>1. pc[p] = "write" /\ file = Torn /\ file' = snap[p] /\ mishaps' = mishaps
    BY <1>9 DEF Write, InStep, CommandAlone, history
  <2>2. snap[p] # Torn
    BY TornAssumption DEF TypeOK
  <2> QED
    BY <2>1, <2>2, SavedFacts DEF SavedBy
<1>10. ASSUME NEW p \in Operators, Crash(p)
       PROVE  Same \/ (SavedRegistry' = {} /\ "torn" \in mishaps')
  <2>1. /\ file' = file /\ pc'[p] = "idle"
        /\ mishaps' = mishaps \cup {"killed"} \cup (IF pc[p] = "write" THEN {"torn"} ELSE {})
    BY <1>10, ReturnFacts DEF Crash, stores
  <2>2. CASE pc[p] = "write"
    <3>1. file = Torn
      BY <2>2 DEF InStep, CommandAlone
    <3> QED
      BY <2>1, <2>2, <3>1, SavedFacts DEF SavedBy
  <2>3. CASE pc[p] # "write"
    BY <1>4, <2>1, <2>3
  <2> QED
    BY <2>2, <2>3
<1>11. ASSUME NEW p \in Operators,
              \/ AutoBind(p) \/ Answer(p) \/ Bind(p) \/ NullBindings(p)
              \/ \E type \in CredTypes, h \in Hosts :
                   UnlinkCheck(p, type, h) \/ \E i \in Ids : LinkCheck(p, type, h, i)
              \/ \E type \in CredTypes, target \in Targets : RemoveList(p, type, target)
       PROVE  Same
  <2>1. file' = file /\ pc'[p] # "write"
    BY <1>11, GentleSteps
  <2>2. pc[p] # "write" /\ mishaps' = mishaps
    BY <1>11 DEF AutoBind, Answer, Bind, NullBindings, UnlinkCheck, LinkCheck, RemoveList, history
  <2> QED
    BY <1>4, <2>1, <2>2
<1> DEFINE Lost == /\ SavedRegistry' = {} /\ "torn" \in mishaps'
                   /\ \E p \in Operators : Crash(p)
           Saved == \E p \in Operators :
                      /\ Write(p) /\ mishaps' = mishaps
                      /\ SavedRegistry = base[p] /\ SavedRegistry' = snap[p]
<1>12. ASSUME NEW p \in Operators, Crash(p) PROVE Same \/ Lost
  BY <1>10, <1>12
<1>13. ASSUME NEW p \in Operators, Write(p) PROVE Saved
  BY <1>9, <1>13
<1> HIDE DEF Same, Lost, Saved
<1>14. ASSUME NEW p \in Operators,
              \/ AutoBind(p) \/ Answer(p) \/ Bind(p) \/ NullBindings(p) \/ Crash(p)
              \/ \E type \in CredTypes, h \in Hosts :
                   UnlinkCheck(p, type, h) \/ \E i \in Ids : LinkCheck(p, type, h, i)
              \/ \E type \in CredTypes, target \in Targets : RemoveList(p, type, target)
       PROVE  Same \/ Lost
  BY <1>11, <1>12, <1>14
<1>15. Same \/ Lost \/ Saved
  <2>1. CASE Next /\ \E p \in Operators :
                \/ \E k \in Key, auth \in Kinds : AddStore(p, k, auth)
                \/ Register(p) \/ Truncate(p) \/ Write(p) \/ DeleteSecret(p) \/ Unregister(p)
    BY <2>1, <1>5, <1>6, <1>7, <1>8, <1>13
  <2>2. CASE \E p \in Operators :
                \/ AutoBind(p) \/ Answer(p) \/ Bind(p) \/ NullBindings(p) \/ Crash(p)
                \/ \E type \in CredTypes, h \in Hosts :
                     UnlinkCheck(p, type, h) \/ \E i \in Ids : LinkCheck(p, type, h, i)
                \/ \E type \in CredTypes, target \in Targets : RemoveList(p, type, target)
    BY <2>2, <1>14
  <2> QED
    BY <1>2, <1>3, <2>1, <2>2, StepKinds
<1> QED
  BY <1>15 DEF Same, Lost, Saved

\* Between the load and the save of a command, the entries it works on are of the type.
LEMMA BaseFacts ==
  ASSUME TypeOK, InStep, NEW p \in Operators, Write(p)
  PROVE  /\ base[p] \subseteq Entry
         /\ Adding(p) \/ (Removing(p) /\ cmd[p].type \in CredTypes /\ cmd[p].target \in Targets)
<1>1. pc[p] = "write"
  BY DEF Write
<1>2. Adding(p) \/ Removing(p)
  BY <1>1 DEF InStep, CommandAlone
<1>3. Removing(p) => cmd[p].type \in CredTypes /\ cmd[p].target \in Targets
  BY DEF InStep, CommandAlone, Removing
<1> QED
  BY <1>2, <1>3 DEF TypeOK

LEMMA RegistryChanges ==
  ASSUME TypeOK, Sound, Alone, InStep, [Next]_vars
  PROVE  [Accounts!Change]_<<SavedRegistry, "torn" \in mishaps>>
<1>1. CASE SavedRegistry' = SavedRegistry /\ ("torn" \in mishaps' <=> "torn" \in mishaps)
  <2>1. ("torn" \in mishaps') = ("torn" \in mishaps)
    BY <1>1
  <2> QED
    BY <1>1, <2>1
<1>2. CASE SavedRegistry' = {} /\ "torn" \in mishaps'
  <2>1. ("torn" \in mishaps') = TRUE
    BY <1>2
  <2> QED
    BY <1>2, <2>1 DEF Accounts!Change, Accounts!Lose
<1>3. ASSUME NEW p \in Operators, Write(p), mishaps' = mishaps,
             SavedRegistry = base[p], SavedRegistry' = snap[p]
      PROVE  Accounts!Change
  <2>0. UNCHANGED ("torn" \in mishaps)
    BY <1>3
  <2>1. CASE Adding(p)
    <3>1. PICK e \in Entry : (\A f \in base[p] : f.id # e.id) /\ snap[p] = Registered(base[p], e)
      BY <2>1 DEF Adding
    <3>2. Accounts!Put(e)
      BY <1>3, <2>0, <3>1 DEF Accounts!Put, Accounts!Registered, Registered
    <3> QED
      BY <3>2 DEF Accounts!Change, Accounts!Entry, Accounts!Key, Accounts!Kinds, Accounts!Targets,
         Entry, Key, Kinds, Targets
  <2>2. CASE Removing(p) /\ cmd[p].type \in CredTypes /\ cmd[p].target \in Targets
    <3>1. Accounts!Drop(cmd[p].type, cmd[p].target)
      BY <1>3, <2>0, <2>2 DEF Removing, Accounts!Drop, Accounts!EntriesFor, Accounts!Unregistered,
         EntriesFor, Unregistered
    <3> QED
      BY <2>2, <3>1 DEF Accounts!Change, Accounts!Targets, Targets
  <2> QED
    BY <1>3, <2>1, <2>2, BaseFacts
<1> QED
  BY <1>1, <1>2, <1>3, SavedMoves

-----------------------------------------------------------------------------
(* Keyring and registry agree.                                             *)

\* The agreement is that of the one command that runs.
LEMMA OneAgreement ==
  ASSUME Alone, NEW p \in Operators
  PROVE  /\ InAgreement <=> ("killed" \notin mishaps => AgreesAt(p))
         /\ InAgreement' <=> ("killed" \notin mishaps' => AgreesAt(p)')
<1>1. \A q \in Operators : q = p
  BY DEF Alone
<1>2. Quiet <=> pc[p] = "idle"
  BY <1>1 DEF Quiet
<1>3. Quiet' <=> pc'[p] = "idle"
  BY <1>1 DEF Quiet
<1>4. InAgreement <=> ("killed" \notin mishaps => AgreesAt(p))
  BY <1>1, <1>2 DEF InAgreement, AgreesAt
<1>5. InAgreement' <=> ("killed" \notin mishaps' => AgreesAt(p)')
  BY <1>1, <1>3 DEF InAgreement, AgreesAt
<1> QED
  BY <1>4, <1>5

LEMMA AgreesAddStore ==
  ASSUME TypeOK, Alone, InAgreement, NEW p \in Operators, NEW k \in Key, NEW auth \in Kinds,
         AddStore(p, k, auth)
  PROVE  InAgreement'
<1>1. /\ pc[p] = "idle" /\ pc'[p] = "register" /\ file' = file /\ mishaps' = mishaps
      /\ keyring' = [keyring EXCEPT ![k] = auth]
      /\ cmd'[p] = [NoCommand EXCEPT !.verb = "add", !.type = k.type, !.user = k.user,
                                     !.target = k.target, !.auth = auth]
  BY DEF AddStore, TypeOK, history
<1>2. KeyOf(cmd'[p]) = k /\ cmd'[p].auth = auth
  BY <1>1 DEF KeyOf, NoCommand, Key
<1>3. keyring'[k] = auth /\ \A l \in Key \ {k} : keyring'[l] = keyring[l]
  BY <1>1 DEF TypeOK
<1>4. \A e \in Load(file) : e.key \in Key
  BY LoadFacts DEF Entry
<1>5. ASSUME "killed" \notin mishaps PROVE AgreesAt(p)'
  <2>1. Agrees(Load(file))
    BY <1>1, <1>5, OneAgreement DEF AgreesAt
  <2>2. AgreesBut(Load(file), k)'
    BY <1>1, <1>3, <1>4, <2>1 DEF Agrees, AgreesBut, Load
  <2> QED
    BY <1>1, <1>2, <1>3, <2>2 DEF AgreesAt, KeyOf
<1> QED
  BY <1>1, <1>5, OneAgreement

LEMMA AgreesRegister ==
  ASSUME TypeOK, Sound, Alone, InAgreement, NEW p \in Operators, Register(p)
  PROVE  InAgreement'
<1>1. PICK e \in Entry :
        /\ e.key = KeyOf(cmd[p]) /\ e.auth = cmd[p].auth
        /\ snap'[p] = Registered(Load(file), e)
        /\ pc'[p] = "truncate"
        /\ UNCHANGED <<stores, mishaps>>
  BY RegisterEffect
<1>2. pc[p] = "register" /\ keyring' = keyring
  BY <1>1 DEF Register, stores
<1>3. ASSUME "killed" \notin mishaps PROVE AgreesAt(p)'
  <2>1. keyring[e.key] = e.auth /\ AgreesBut(Load(file), e.key)
    BY <1>1, <1>2, <1>3, OneAgreement DEF AgreesAt
  <2>2. e \in snap'[p] /\ \A f \in Load(file) : f.key # e.key => f \in snap'[p]
    BY <1>1 DEF Registered
  <2>3. \A f \in snap'[p] : f = e \/ (f \in Load(file) /\ f.key # e.key)
    BY <1>1 DEF Registered
  <2>4. \A f \in snap'[p] : keyring'[f.key] = f.auth
    BY <1>2, <2>1, <2>3 DEF AgreesBut
  <2>5. "kept" \notin mishaps' =>
          \A k \in Key : keyring'[k] # None => \E f \in snap'[p] : f.key = k
    BY <1>1, <1>2, <2>1, <2>2 DEF AgreesBut
  <2> QED
    BY <1>1, <2>4, <2>5 DEF AgreesAt, Agrees
<1> QED
  BY <1>1, <1>3, OneAgreement

LEMMA AgreesSave ==
  ASSUME TypeOK, Alone, InAgreement, NEW p \in Operators, Truncate(p) \/ Write(p)
  PROVE  InAgreement'
<1>1. CASE Truncate(p)
  <2>1. /\ pc[p] = "truncate" /\ pc'[p] = "write" /\ UNCHANGED <<keyring, snap, mishaps>>
    BY <1>1 DEF Truncate, TypeOK, history
  <2> QED
    BY <2>1, OneAgreement DEF AgreesAt, Agrees
<1>2. CASE Write(p)
  <2>1. /\ pc[p] = "write" /\ file' = snap[p] /\ UNCHANGED <<keyring, mishaps>>
        /\ pc'[p] \in {"idle", "autobind", "null"}
    BY <1>2, ReturnFacts DEF Write, TypeOK, history
  <2>2. Load(file)' = snap[p]
    BY <2>1, TornAssumption DEF TypeOK, Load
  <2>3. ASSUME "killed" \notin mishaps PROVE Agrees(Load(file))'
    <3>1. Agrees(snap[p])
      BY <2>1, <2>3, OneAgreement DEF AgreesAt
    <3> QED
      BY <2>1, <2>2, <3>1 DEF Agrees
  <2> QED
    BY <2>1, <2>3, OneAgreement DEF AgreesAt
<1> QED
  BY <1>1, <1>2

LEMMA AgreesRemove ==
  ASSUME TypeOK, Alone, InAgreement, NEW p \in Operators, NEW type \in CredTypes,
         NEW target \in Targets, RemoveList(p, type, target)
  PROVE  InAgreement'
<1>1. /\ pc[p] = "idle" /\ pc'[p] = "delete" /\ listed'[p] = todo'[p]
      /\ UNCHANGED <<keyring, file, mishaps>>
  BY DEF RemoveList, TypeOK, stores
<1>2. Load(file)' \ (listed'[p] \ todo'[p]) = Load(file)
  BY <1>1 DEF Load
<1>3. ASSUME "killed" \notin mishaps PROVE Agrees(Load(file) \ (listed[p] \ todo[p]))'
  <2>1. Agrees(Load(file))
    BY <1>1, <1>3, OneAgreement DEF AgreesAt
  <2> QED
    BY <1>1, <1>2, <2>1 DEF Agrees
<1> QED
  BY <1>1, <1>3, OneAgreement DEF AgreesAt

LEMMA AgreesDelete ==
  ASSUME TypeOK, Sound, Alone, InStep, InAgreement, NEW p \in Operators, DeleteSecret(p)
  PROVE  InAgreement'
<1>1. PICK e \in todo[p] :
        /\ \/ keyring' = [keyring EXCEPT ![e.key] = None] /\ UNCHANGED mishaps
           \/ keyring' = keyring /\ mishaps' = mishaps \cup {"kept"}
        /\ todo'[p] = todo[p] \ {e}
        /\ pc[p] = "delete" /\ pc'[p] \in {"unregister", "delete"}
        /\ UNCHANGED <<file, rows, cmd, base, snap, listed, call, issued, dying, replaced>>
  BY DeleteEffect
<1>2. e \in Load(file) /\ e \in listed[p]
  BY <1>1 DEF InStep, CommandAlone, EntriesFor
<1>3. Load(file) \subseteq Entry /\ KeysOnce(Load(file))
  BY LoadFacts DEF Sound, ListsKeyedOnce
<1> DEFINE S == Load(file) \ (listed[p] \ todo[p])
           T == S \ {e}
<1>4. (Load(file) \ (listed[p] \ todo[p]))' = T
  BY <1>1, <1>2 DEF Load
<1>5. ASSUME "killed" \notin mishaps
      PROVE  /\ \A f \in T : keyring'[f.key] = f.auth
             /\ "kept" \notin mishaps' =>
                  \A k \in Key : keyring'[k] # None => \E f \in T : f.key = k
  <2>1. Agrees(S)
    BY <1>1, <1>5, OneAgreement DEF AgreesAt
  <2>2. \A f \in T : f.key # e.key /\ f.key \in Key
    BY <1>2, <1>3 DEF KeysOnce, Entry
  <2>3. CASE keyring' = [keyring EXCEPT ![e.key] = None] /\ UNCHANGED mishaps
    <3>1. \A k \in Key : keyring'[k] = IF k = e.key THEN None ELSE keyring[k]
      BY <2>3 DEF TypeOK
    <3>2. \A f \in T : keyring'[f.key] = f.auth
      BY <2>1, <2>2, <3>1 DEF Agrees
    <3>3. ASSUME "kept" \notin mishaps', NEW k \in Key, keyring'[k] # None
          PROVE  \E f \in T : f.key = k
      <4>1. k # e.key /\ keyring[k] # None
        BY <3>1, <3>3
      <4>2. PICK f \in S : f.key = k
        BY <2>1, <2>3, <3>3, <4>1 DEF Agrees
      <4> QED
        BY <4>1, <4>2
    <3> QED
      BY <3>2, <3>3
  <2>4. CASE keyring' = keyring /\ mishaps' = mishaps \cup {"kept"}
    BY <2>1, <2>4 DEF Agrees
  <2> QED
    BY <1>1, <2>3, <2>4
<1>6. "killed" \notin mishaps' => "killed" \notin mishaps
  BY <1>1
<1> HIDE DEF T
<1>7. "killed" \notin mishaps => Agrees(Load(file) \ (listed[p] \ todo[p]))'
  BY <1>4, <1>5 DEF Agrees
<1> QED
  BY <1>1, <1>6, <1>7, OneAgreement DEF AgreesAt

LEMMA AgreesUnregister ==
  ASSUME TypeOK, Alone, InStep, InAgreement, NEW p \in Operators, Unregister(p)
  PROVE  InAgreement'
<1>1. /\ pc[p] = "unregister" /\ pc'[p] = "truncate"
      /\ snap'[p] = Unregistered(Load(file), cmd[p].type, cmd[p].target)
      /\ UNCHANGED <<keyring, mishaps>>
  BY DEF Unregister, TypeOK, stores, history
<1>2. listed[p] = EntriesFor(Load(file), cmd[p].type, cmd[p].target) /\ todo[p] = {}
  BY <1>1 DEF InStep, CommandAlone
<1>3. snap'[p] = Load(file) \ (listed[p] \ todo[p])
  BY <1>1, <1>2 DEF Unregistered, EntriesFor
<1>4. ASSUME "killed" \notin mishaps PROVE Agrees(snap[p])'
  <2>1. Agrees(snap'[p])
    BY <1>1, <1>3, <1>4, OneAgreement DEF AgreesAt
  <2> QED
    BY <1>1, <2>1 DEF Agrees
<1> QED
  BY <1>1, <1>4, OneAgreement DEF AgreesAt

\* A command that neither writes nor removes leaves the agreement as it was.
LEMMA AgreesBinding ==
  ASSUME TypeOK, Alone, InAgreement, NEW p \in Operators,
         \/ AutoBind(p) \/ Answer(p) \/ Bind(p) \/ NullBindings(p)
         \/ \E type \in CredTypes, h \in Hosts :
              UnlinkCheck(p, type, h) \/ \E i \in Ids : LinkCheck(p, type, h, i)
  PROVE  InAgreement'
<1>1. UNCHANGED <<keyring, file>> /\ pc'[p] \in {"idle", "prompt", "bind", "null"}
  <2>1. UNCHANGED <<keyring, file>> /\ pc'[p] \in {"idle", "prompt", "bind", "null", "delete"}
    BY GentleSteps
  <2>2. pc'[p] # "delete"
    <3>1. CASE Return(p)
      BY <3>1, ReturnFacts
    <3>2. CASE ~ Return(p)
      BY <3>2 DEF AutoBind, Answer, Bind, NullBindings, UnlinkCheck, LinkCheck, TypeOK
    <3> QED
      BY <3>1, <3>2
  <2> QED
    BY <2>1, <2>2
<1>2. pc[p] \in {"idle", "autobind", "prompt", "bind", "null"} /\ mishaps' = mishaps
  BY DEF AutoBind, Answer, Bind, NullBindings, UnlinkCheck, LinkCheck, history
<1>3. ASSUME "killed" \notin mishaps PROVE Agrees(Load(file))'
  <2>1. Agrees(Load(file))
    BY <1>2, <1>3, OneAgreement DEF AgreesAt
  <2> QED
    BY <1>1, <1>2, <2>1 DEF Agrees, Load
<1> QED
  BY <1>1, <1>2, <1>3, OneAgreement DEF AgreesAt

LEMMA AgreementSteps == IInv /\ Alone /\ InStep /\ InAgreement /\ [Next]_vars => InAgreement'
<1> SUFFICES ASSUME TypeOK, Sound, Alone, InStep, InAgreement, [Next]_vars
             PROVE  InAgreement'
  BY DEF IInv
<1>1. ASSUME UNCHANGED <<keyring, file, local>>, mishaps' \in {mishaps, mishaps \cup {"bound"}}
      PROVE  InAgreement'
  BY <1>1 DEF InAgreement, AgreesAt, Agrees, AgreesBut, Quiet, Load, KeyOf, local
<1>2. CASE UNCHANGED vars
  BY <1>1, <1>2 DEF vars, stores, history
<1>3. CASE (\E d \in Discoveries : Discover(d)) \/ \E r \in RowIds : RemoveDevice(r)
  BY <1>1, <1>3, OtherSteps
<1>4. ASSUME NEW p \in Operators, Crash(p) PROVE InAgreement'
  BY <1>4 DEF Crash, InAgreement
<1>5. ASSUME NEW p \in Operators,
             \/ AutoBind(p) \/ Answer(p) \/ Bind(p) \/ NullBindings(p) \/ Crash(p)
             \/ \E type \in CredTypes, h \in Hosts :
                  UnlinkCheck(p, type, h) \/ \E i \in Ids : LinkCheck(p, type, h, i)
             \/ \E type \in CredTypes, target \in Targets : RemoveList(p, type, target)
      PROVE  InAgreement'
  BY <1>4, <1>5, AgreesBinding, AgreesRemove
<1>6. ASSUME NEW p \in Operators, NEW k \in Key, NEW auth \in Kinds, AddStore(p, k, auth)
      PROVE  InAgreement'
  BY <1>6, AgreesAddStore
<1>7. ASSUME NEW p \in Operators,
             Register(p) \/ Truncate(p) \/ Write(p) \/ DeleteSecret(p) \/ Unregister(p)
      PROVE  InAgreement'
  BY <1>7, AgreesRegister, AgreesSave, AgreesDelete, AgreesUnregister
<1> QED
  BY <1>2, <1>3, <1>5, <1>6, <1>7, StepKinds

-----------------------------------------------------------------------------
(* Where the UUIDs in rows, calls and commands come from.                  *)

\* History only grows.
LEMMA HistoryGrows ==
  ASSUME [Next]_vars
  PROVE  dying \subseteq dying' /\ replaced \subseteq replaced' /\ mishaps \subseteq mishaps'
<1>1. CASE UNCHANGED vars
  BY <1>1 DEF vars, history
<1>2. CASE (\E d \in Discoveries : Discover(d)) \/ \E r \in RowIds : RemoveDevice(r)
  BY <1>2 DEF Discover, DiscoverResolve, DiscoverSucceed, DiscoverFail, DiscoverBind,
     DiscoverAbort, RemoveDevice, history
<1>3. ASSUME NEW p \in Operators,
             \/ AutoBind(p) \/ Answer(p) \/ Bind(p) \/ NullBindings(p) \/ Crash(p)
             \/ \E type \in CredTypes, h \in Hosts :
                  UnlinkCheck(p, type, h) \/ \E i \in Ids : LinkCheck(p, type, h, i)
             \/ \E type \in CredTypes, target \in Targets : RemoveList(p, type, target)
      PROVE  dying \subseteq dying' /\ replaced \subseteq replaced' /\ mishaps \subseteq mishaps'
  BY <1>3 DEF AutoBind, Answer, Bind, NullBindings, Crash, UnlinkCheck, LinkCheck, RemoveList,
     history
<1>4. ASSUME NEW p \in Operators, NEW k \in Key, NEW auth \in Kinds, AddStore(p, k, auth)
      PROVE  dying \subseteq dying' /\ replaced \subseteq replaced' /\ mishaps \subseteq mishaps'
  BY <1>4 DEF AddStore, history
<1>5. ASSUME NEW p \in Operators,
             Register(p) \/ Truncate(p) \/ Write(p) \/ DeleteSecret(p) \/ Unregister(p)
      PROVE  dying \subseteq dying' /\ replaced \subseteq replaced' /\ mishaps \subseteq mishaps'
  BY <1>5 DEF Register, Truncate, Write, DeleteSecret, Unregister, history
<1> QED
  BY <1>1, <1>2, <1>3, <1>4, <1>5, StepKinds

\* What is in the file was saved.
LEMMA LoadedIsSaved == Load(file) \subseteq SavedRegistry
  BY DEF Load, SavedRegistry

\* A discovery takes UUIDs from the registry only.
LEMMA ResolutionUses ==
  ASSUME NEW h \in Hosts, NEW user \in Users \cup {None}, NEW password \in BOOLEAN
  PROVE  LET u == Resolution(h, user, password).used
         IN  u = None \/ \E e \in Load(file) : e.id = u
<1> DEFINE m      == Matching(h)
           c      == Candidates(h, user)
           lookup == IF password THEN user # None \/ \E e \in c : c = {e}
                                 ELSE \E e \in c : c = {e} /\ HasSecret(e)
           found  == IF \E e \in c : c = {e} THEN (CHOOSE e \in c : c = {e}).id ELSE None
           row    == CHOOSE r \in m : TRUE
           bound  == rows[row].cred["ssh"]
           tier0  == \E e \in Load(file) : e.id = bound /\ e.key.type = "ssh" /\ HasSecret(e)
           result(ok, used, dial) ==
             [at |-> "dialing", ident |-> h, dial |-> dial, ok |-> ok,
              used |-> IF ok THEN used ELSE None, row |-> None]
<1>1. Resolution(h, user, password)
        = IF m = {} THEN result(lookup, found, h)
          ELSE IF m # {row} THEN result(FALSE, None, h)
          ELSE IF bound # None THEN result(tier0, bound, rows[row].ip)
          ELSE result(lookup, None, rows[row].ip)
  BY DEF Resolution
<1>2. found = None \/ \E e \in Load(file) : e.id = found
  <2>1. CASE \E e \in c : c = {e}
    <3>1. PICK e \in c : c = {e}
      BY <2>1
    <3>2. found = e.id
      BY <3>1
    <3>3. e \in Load(file)
      BY <3>1 DEF Candidates, EntriesFor
    <3> QED
      BY <3>2, <3>3
  <2> QED
    BY <2>1
<1>3. \A ok, used, dial : result(ok, used, dial).used = IF ok THEN used ELSE None
  OBVIOUS
<1>4. tier0 => \E e \in Load(file) : e.id = bound
  OBVIOUS
<1>5. \A ok, dial : LET u == result(ok, None, dial).used IN u = None
  BY <1>3
<1>6. LET u == result(lookup, found, h).used IN u = None \/ \E e \in Load(file) : e.id = u
  BY <1>2, <1>3
<1>7. LET u == result(tier0, bound, rows[row].ip).used
      IN  u = None \/ \E e \in Load(file) : e.id = u
  BY <1>3, <1>4
<1> HIDE DEF found, lookup, tier0, bound, row, m, c
<1> QED
  BY <1>1, <1>5, <1>6, <1>7

LEMMA CallMoves ==
  ASSUME TypeOK, Sound, [Next]_vars, NEW d \in Discoveries
  PROVE  \/ call'[d].used \in {None, call[d].used}
         \/ \E e \in Load(file) : e.id = call'[d].used
<1>1. CASE call' = call
  BY <1>1
<1>2. ASSUME NEW c \in Discoveries, Discover(c)
      PROVE  \/ call'[d].used \in {None, call[d].used}
             \/ \E e \in Load(file) : e.id = call'[d].used
  <2>1. ASSUME NEW h \in Hosts, NEW user \in Users \cup {None}, NEW password \in BOOLEAN,
               DiscoverResolve(c, h, user, password)
        PROVE  \/ call'[d].used \in {None, call[d].used}
               \/ \E e \in Load(file) : e.id = call'[d].used
    <3>1. call'[d] = IF d = c THEN Resolution(h, user, password) ELSE call[d]
      BY <2>1 DEF DiscoverResolve, TypeOK
    <3> QED
      BY <3>1, ResolutionUses
  <2>2. CASE DiscoverSucceed(c) \/ DiscoverFail(c)
    <3>1. PICK h \in Hosts, ip \in Hosts : Upsert(c, h, ip)
      BY <2>2, AnsweredFacts DEF Sound
    <3>2. call'[c].used \in {None, call[c].used} /\ \A e \in Discoveries \ {c} : call'[e] = call[e]
      BY <3>1, UpsertFacts
    <3> QED
      BY <3>2
  <2>3. CASE DiscoverBind(c) \/ DiscoverAbort(c)
    BY <2>3 DEF DiscoverBind, DiscoverAbort, TypeOK, NoCall
  <2> QED
    BY <1>2, <2>1, <2>2, <2>3 DEF Discover
<1>3. ASSUME Next, ~ \E c \in Discoveries : Discover(c) PROVE call' = call
  <2>1. ASSUME NEW r \in RowIds, RemoveDevice(r) PROVE call' = call
    BY <2>1 DEF RemoveDevice
  <2>2. ASSUME NEW p \in Operators,
               \/ AutoBind(p) \/ Answer(p) \/ Bind(p) \/ NullBindings(p) \/ Crash(p)
               \/ \E type \in CredTypes, h \in Hosts :
                    UnlinkCheck(p, type, h) \/ \E i \in Ids : LinkCheck(p, type, h, i)
               \/ \E type \in CredTypes, target \in Targets : RemoveList(p, type, target)
        PROVE  call' = call
    BY <2>2 DEF AutoBind, Answer, Bind, NullBindings, Crash, UnlinkCheck, LinkCheck, RemoveList
  <2>3. ASSUME NEW p \in Operators, NEW k \in Key, NEW auth \in Kinds, AddStore(p, k, auth)
        PROVE  call' = call
    BY <2>3 DEF AddStore
  <2>4. ASSUME NEW p \in Operators,
               Register(p) \/ Truncate(p) \/ Write(p) \/ DeleteSecret(p) \/ Unregister(p)
        PROVE  call' = call
    BY <2>4 DEF Register, Truncate, Write, DeleteSecret, Unregister
  <2> QED
    BY <1>3, <2>1, <2>2, <2>3, <2>4, StepKinds
<1> QED
  BY <1>1, <1>2, <1>3 DEF vars

\* A binding is kept or cleared, or a command or a discovery writes its UUID.
LEMMA RowMoves ==
  ASSUME TypeOK, Sound, [Next]_vars, NEW r \in RowIds, NEW t \in CredTypes,
         rows'[r] \notin {NoRow, Gone}
  PROVE  \/ r \in Present /\ rows'[r].cred[t] = rows[r].cred[t]
         \/ rows'[r].cred[t] = None
         \/ \E p \in Operators : Bind(p) /\ rows'[r].cred[t] = cmd[p].id
         \/ \E d \in Discoveries : DiscoverBind(d) /\ rows'[r].cred[t] = call[d].used
<1> DEFINE Kept == r \in Present /\ rows'[r].cred[t] = rows[r].cred[t]
           Free == rows'[r].cred[t] = None
<1>1. CASE rows' = rows
  BY <1>1 DEF Present
<1>2. ASSUME NEW p \in Operators, Bind(p)
      PROVE  Kept \/ rows'[r].cred[t] = cmd[p].id
  <2>1. CASE UNCHANGED rows
    BY <2>1 DEF Present
  <2>2. CASE \E s \in Present : rows' = [rows EXCEPT ![s].cred[cmd[p].type] = cmd[p].id]
    <3>1. PICK s \in Present : rows' = [rows EXCEPT ![s].cred[cmd[p].type] = cmd[p].id]
      BY <2>2
    <3>2. s \in RowIds /\ rows[s] \in Row
      BY DEF Present, TypeOK
    <3>3. CASE r = s
      <4>1. rows'[r].cred[t] = IF t = cmd[p].type THEN cmd[p].id ELSE rows[r].cred[t]
        BY <3>1, <3>2, <3>3 DEF TypeOK, Row
      <4> QED
        BY <3>3, <4>1
    <3>4. CASE r # s
      BY <3>1, <3>4 DEF TypeOK, Present
    <3> QED
      BY <3>3, <3>4
  <2> QED
    BY <1>2, <2>1, <2>2 DEF Bind, Named
<1>3. ASSUME NEW p \in Operators, NullBindings(p) PROVE Kept \/ Free
  <2>1. rows'[r] = rows[r] \/ (r \in Present /\ rows'[r] = [rows[r] EXCEPT !.cred[cmd[p].type] = None])
    BY <1>3 DEF NullBindings
  <2>2. CASE rows'[r] = rows[r]
    BY <2>2 DEF Present
  <2>3. CASE r \in Present /\ rows'[r] = [rows[r] EXCEPT !.cred[cmd[p].type] = None]
    <3>1. rows[r] \in Row
      BY <2>3 DEF Present, TypeOK
    <3> QED
      BY <2>3, <3>1 DEF Row
  <2> QED
    BY <2>1, <2>2, <2>3
<1>4. ASSUME NEW d \in Discoveries, DiscoverSucceed(d) \/ DiscoverFail(d) PROVE Kept \/ Free
  <2>1. PICK h \in Hosts, ip \in Hosts : Upsert(d, h, ip)
    BY <1>4, AnsweredFacts DEF Sound
  <2> QED
    BY <2>1, UpsertFacts
<1>5. ASSUME NEW d \in Discoveries, DiscoverBind(d)
      PROVE  Kept \/ rows'[r].cred[t] = call[d].used
  <2>1. CASE call[d].row \in Present
    <3> DEFINE s == call[d].row
    <3>1. s \in RowIds /\ rows[s] \in Row
      BY <2>1 DEF Present, TypeOK
    <3>2. rows' = [rows EXCEPT ![s].cred["ssh"] = call[d].used]
      BY <1>5, <2>1 DEF DiscoverBind
    <3>3. CASE r = s
      <4>1. rows'[r].cred[t] = IF t = "ssh" THEN call[d].used ELSE rows[r].cred[t]
        BY <3>1, <3>2, <3>3 DEF TypeOK, Row
      <4> QED
        BY <2>1, <3>3, <4>1
    <3>4. CASE r # s
      BY <3>2, <3>4 DEF TypeOK, Present
    <3> QED
      BY <3>3, <3>4
  <2>2. CASE call[d].row \notin Present
    BY <1>5, <2>2 DEF DiscoverBind, Present
  <2> QED
    BY <2>1, <2>2
<1>6. ASSUME NEW s \in RowIds, RemoveDevice(s) PROVE Kept
  BY <1>6 DEF RemoveDevice, TypeOK, Present
<1>7. ASSUME Next,
             ~ \E p \in Operators : Bind(p) \/ NullBindings(p),
             ~ \E d \in Discoveries : DiscoverSucceed(d) \/ DiscoverFail(d) \/ DiscoverBind(d),
             ~ \E s \in RowIds : RemoveDevice(s)
      PROVE  rows' = rows
  BY <1>7, StepKinds DEF Discover, DiscoverResolve, DiscoverAbort, AddStore, Register, Truncate,
     Write, DeleteSecret, Unregister, AutoBind, Answer, Crash, UnlinkCheck, LinkCheck, RemoveList,
     stores
<1> QED
  BY <1>1, <1>2, <1>3, <1>4, <1>5, <1>6, <1>7 DEF vars, stores

\* The UUID of a command that is about to bind: one it added, or one it found.
LEMMA IdMoves ==
  ASSUME TypeOK, Alone, [Next]_vars, NEW p \in Operators,
         pc'[p] \in {"autobind", "prompt", "bind"}
  PROVE  \/ pc[p] \in {"autobind", "prompt", "bind"} /\ cmd'[p].id = cmd[p].id
         \/ cmd'[p].id = None
         \/ \E e \in Load(file) : e.id = cmd'[p].id
         \/ Write(p) /\ cmd[p].verb = "add" /\ cmd'[p].id = cmd[p].id
<1>1. CASE UNCHANGED local
  BY <1>1 DEF local
<1>2. CASE AutoBind(p) \/ Answer(p)
  <2>1. ~ Return(p)
    BY ReturnFacts
  <2> QED
    BY <1>2, <2>1, BindingMoves
<1>3. ASSUME NEW type \in CredTypes, NEW h \in Hosts, UnlinkCheck(p, type, h)
      PROVE  cmd'[p].id = None
  BY <1>3 DEF UnlinkCheck, TypeOK, NoCommand
<1>4. ASSUME NEW type \in CredTypes, NEW h \in Hosts, NEW i \in Ids, LinkCheck(p, type, h, i)
      PROVE  \E e \in Load(file) : e.id = cmd'[p].id
  BY <1>4 DEF LinkCheck, TypeOK, NoCommand
<1>5. ASSUME Write(p) PROVE cmd[p].verb = "add" /\ cmd'[p].id = cmd[p].id
  <2>1. ~ Return(p)
    BY ReturnFacts
  <2> QED
    BY <1>5, <2>1 DEF Write, TypeOK
<1>6. CASE (\E d \in Discoveries : Discover(d)) \/ \E r \in RowIds : RemoveDevice(r)
  BY <1>1, <1>6, OtherSteps
<1>7. ~ (Bind(p) \/ Crash(p))
  BY ReturnFacts DEF Bind, Crash
<1>8. CASE NullBindings(p)
  <2>1. ~ Return(p) /\ pc[p] = "null"
    BY <1>8, ReturnFacts DEF NullBindings
  <2> QED
    BY <1>8, <2>1 DEF NullBindings
<1>9. ~ \E k \in Key, auth \in Kinds : AddStore(p, k, auth)
  BY DEF AddStore, TypeOK
<1>10. ~ (Register(p) \/ Truncate(p) \/ DeleteSecret(p) \/ Unregister(p))
  BY DEF Register, Truncate, DeleteSecret, Unregister, TypeOK
<1>11. ~ \E type \in CredTypes, target \in Targets : RemoveList(p, type, target)
  BY DEF RemoveList, TypeOK
<1>12. \A q \in Operators : q = p
  BY DEF Alone
<1>13. CASE Next
  BY <1>2, <1>3, <1>4, <1>5, <1>6, <1>7, <1>8, <1>9, <1>10, <1>11, <1>12, <1>13, StepKinds
<1> QED
  BY <1>1, <1>13 DEF vars

\* The UUID an add binds is in the list it has saved.
LEMMA SavedId ==
  ASSUME TypeOK, Alone, InStep, NEW p \in Operators, Write(p), cmd[p].verb = "add"
  PROVE  \E e \in SavedRegistry' : e.id = cmd[p].id
<1>1. pc[p] = "write" /\ file' = snap[p]
  BY DEF Write
<1>2. Adding(p)
  BY <1>1 DEF InStep, CommandAlone, Removing
<1>3. \E e \in snap[p] : e.id = cmd[p].id
  BY <1>2 DEF Adding, Registered
<1>4. SavedRegistry' = snap[p]
  BY <1>1, TornAssumption DEF TypeOK, SavedRegistry
<1> QED
  BY <1>3, <1>4

\* Unless the file is lost, no UUID becomes unknown.
LEMMA KnownStays ==
  ASSUME TypeOK, Sound, Alone, InStep, [Next]_vars, "torn" \notin mishaps'
  PROVE  KnownIds \subseteq KnownIds'
<1>1. dying \subseteq dying' /\ replaced \subseteq replaced'
  BY HistoryGrows
<1>2. CASE SavedRegistry' = SavedRegistry
  BY <1>1, <1>2 DEF KnownIds
<1>3. ASSUME NEW p \in Operators, Write(p), SavedRegistry = base[p], SavedRegistry' = snap[p]
      PROVE  KnownIds \subseteq KnownIds'
  <2> SUFFICES ASSUME NEW f \in base[p]
               PROVE  f \in snap[p] \/ f.id \in dying \/ f.id \in replaced
    BY <1>1, <1>3 DEF KnownIds
  <2>1. CASE Adding(p)
    BY <2>1 DEF Adding, Registered
  <2>2. CASE Removing(p)
    <3>1. f \in snap[p] \/ f \in listed[p]
      BY <2>2 DEF Removing, Unregistered, EntriesFor
    <3> QED
      BY <3>1 DEF InStep, CommandAlone
  <2> QED
    BY <1>3, <2>1, <2>2, BaseFacts
<1> QED
  BY <1>2, <1>3, SavedMoves

LEMMA KnownSteps == IInv /\ Alone /\ InStep /\ EveryIdKnown /\ [Next]_vars => EveryIdKnown'
<1> SUFFICES ASSUME TypeOK, Sound, Alone, InStep, EveryIdKnown, [Next]_vars,
                    "torn" \notin mishaps'
             PROVE  /\ \A r \in Present', t \in CredTypes : rows'[r].cred[t] \in KnownIds'
                    /\ \A d \in Discoveries : call'[d].used \in KnownIds'
                    /\ \A p \in Operators : pc'[p] \in {"autobind", "prompt", "bind"}
                                              => cmd'[p].id \in KnownIds'
  BY DEF IInv, EveryIdKnown
<1>1. "torn" \notin mishaps /\ KnownIds \subseteq KnownIds'
  BY HistoryGrows, KnownStays
<1>2. \A e \in Load(file) : e.id \in KnownIds
  BY LoadedIsSaved DEF KnownIds
<1>3. None \in KnownIds
  BY DEF KnownIds
<1>4. ASSUME NEW r \in Present', NEW t \in CredTypes PROVE rows'[r].cred[t] \in KnownIds
  <2>1. r \in RowIds /\ rows'[r] \notin {NoRow, Gone}
    BY DEF Present
  <2>2. CASE r \in Present /\ rows'[r].cred[t] = rows[r].cred[t]
    BY <1>1, <2>2 DEF EveryIdKnown
  <2>3. CASE \E p \in Operators : Bind(p) /\ rows'[r].cred[t] = cmd[p].id
    BY <1>1, <2>3 DEF EveryIdKnown, Bind
  <2>4. CASE \E d \in Discoveries : DiscoverBind(d) /\ rows'[r].cred[t] = call[d].used
    BY <1>1, <2>4 DEF EveryIdKnown
  <2> QED
    BY <1>3, <2>1, <2>2, <2>3, <2>4, RowMoves
<1>5. ASSUME NEW d \in Discoveries PROVE call'[d].used \in KnownIds
  BY <1>1, <1>2, <1>3, CallMoves DEF EveryIdKnown
<1>6. ASSUME NEW p \in Operators, pc'[p] \in {"autobind", "prompt", "bind"}
      PROVE  cmd'[p].id \in KnownIds'
  <2>1. CASE Write(p) /\ cmd[p].verb = "add" /\ cmd'[p].id = cmd[p].id
    BY <2>1, SavedId DEF KnownIds
  <2>2. CASE ~ (Write(p) /\ cmd[p].verb = "add" /\ cmd'[p].id = cmd[p].id)
    BY <1>1, <1>2, <1>3, <1>6, <2>2, IdMoves DEF EveryIdKnown
  <2> QED
    BY <2>1, <2>2
<1> QED
  BY <1>1, <1>4, <1>5, <1>6

-----------------------------------------------------------------------------
(* What a remove takes out of the registry it takes out of the rows.       *)

\* As long as nothing is killed, an account goes out of the registry because it
\* was replaced, or to be cleared from the rows at once.
LEMMA Turnover ==
  ASSUME TypeOK, Sound, Alone, InStep, [Next]_vars, "killed" \notin mishaps', NEW i \in CurrentIds
  PROVE  i \in CurrentIds' \/ BeingCleared(i)'
<1>1. replaced \subseteq replaced'
  BY HistoryGrows
<1>2. CASE SavedRegistry' = SavedRegistry
  BY <1>1, <1>2 DEF CurrentIds
<1>3. ASSUME NEW p \in Operators, Write(p), SavedRegistry = base[p], SavedRegistry' = snap[p]
      PROVE  i \in CurrentIds' \/ BeingCleared(i)'
  <2>1. CASE i = None \/ i \in replaced
    BY <1>1, <2>1 DEF CurrentIds
  <2>2. ASSUME NEW f \in base[p], f.id = i PROVE i \in CurrentIds' \/ BeingCleared(i)'
    <3>1. CASE f \in snap[p]
      BY <1>3, <2>2, <3>1 DEF CurrentIds
    <3>2. CASE f \notin snap[p] /\ Adding(p)
      <4>1. f.id \in replaced
        BY <3>2 DEF Adding, Registered
      <4> QED
        BY <1>1, <2>2, <4>1 DEF CurrentIds
    <3>3. CASE f \notin snap[p] /\ Removing(p)
      <4>1. f \in listed[p] /\ cmd[p].verb = "remove"
        BY <3>3 DEF Removing, Unregistered, EntriesFor
      <4>2. pc'[p] = "null" /\ todo'[p] = listed[p]
        BY <1>3, <4>1 DEF Write, TypeOK
      <4> QED
        BY <2>2, <4>1, <4>2 DEF BeingCleared
    <3> QED
      BY <1>3, <3>1, <3>2, <3>3, BaseFacts
  <2> QED
    BY <1>3, <2>1, <2>2 DEF CurrentIds
<1>4. CASE \E p \in Operators : Crash(p)
  BY <1>4 DEF Crash
<1> QED
  BY <1>2, <1>3, <1>4, SavedMoves

\* Only null_bindings_for_credential_id takes a UUID off the list.
LEMMA StillCleared ==
  ASSUME TypeOK, Alone, [Next]_vars, "killed" \notin mishaps',
         ~ \E p \in Operators : NullBindings(p), NEW i, BeingCleared(i)
  PROVE  BeingCleared(i)'
<1>1. PICK p \in Operators : pc[p] = "null" /\ \E e \in todo[p] : e.id = i
  BY DEF BeingCleared
<1>2. CASE UNCHANGED local
  BY <1>1, <1>2 DEF BeingCleared, local
<1>3. \A q \in Operators : q = p
  BY DEF Alone
<1>4. ~ \E q \in Operators : AutoBind(q) \/ Answer(q) \/ Bind(q) \/ NullBindings(q) \/ Crash(q)
  BY <1>1, <1>3 DEF AutoBind, Answer, Bind, Crash
<1>5. ~ \E q \in Operators, type \in CredTypes :
          \/ \E h \in Hosts : UnlinkCheck(q, type, h) \/ \E j \in Ids : LinkCheck(q, type, h, j)
          \/ \E target \in Targets : RemoveList(q, type, target)
  BY <1>1, <1>3 DEF UnlinkCheck, LinkCheck, RemoveList
<1>6. ~ \E q \in Operators :
          \/ \E k \in Key, auth \in Kinds : AddStore(q, k, auth)
          \/ Register(q) \/ Truncate(q) \/ Write(q) \/ DeleteSecret(q) \/ Unregister(q)
  BY <1>1, <1>3 DEF AddStore, Register, Truncate, Write, DeleteSecret, Unregister
<1>7. CASE Next
  <2>1. (\E d \in Discoveries : Discover(d)) \/ \E r \in RowIds : RemoveDevice(r)
    BY <1>4, <1>5, <1>6, <1>7, StepKinds
  <2> QED
    BY <1>2, <2>1, OtherSteps
<1> QED
  BY <1>2, <1>7 DEF vars

\* A cleared UUID is in no row, and the others stay on the list.
LEMMA Cleared ==
  ASSUME TypeOK, Sound, Alone, InStep, NEW p \in Operators, NullBindings(p),
         NEW r \in Present', NEW t \in CredTypes, rows'[r].cred[t] # None
  PROVE  /\ r \in Present /\ rows'[r].cred[t] = rows[r].cred[t]
         /\ BeingCleared(rows[r].cred[t]) => BeingCleared(rows[r].cred[t])'
<1>1. PICK e \in todo[p] :
        /\ rows' = [s \in RowIds |->
                      IF s \in Present /\ rows[s].cred[cmd[p].type] = e.id
                      THEN [rows[s] EXCEPT !.cred[cmd[p].type] = None]
                      ELSE rows[s]]
        /\ IF todo[p] = {e}
             THEN Return(p)
             ELSE todo' = [todo EXCEPT ![p] = @ \ {e}] /\ UNCHANGED <<pc, cmd, base, snap, listed>>
  BY DEF NullBindings
<1>2. pc[p] = "null" /\ r \in RowIds /\ rows'[r] \notin {NoRow, Gone}
  BY DEF NullBindings, Present
<1>3. e \in issued /\ e.key.type = cmd[p].type
  BY <1>1, <1>2 DEF InStep, CommandAlone
<1>4. r \in Present /\ rows[r] \in Row
  BY <1>1, <1>2 DEF Present, TypeOK
<1>5. rows'[r].cred[t] = IF rows[r].cred[cmd[p].type] = e.id /\ t = cmd[p].type THEN None
                         ELSE rows[r].cred[t]
  BY <1>1, <1>2, <1>4 DEF Row
<1>6. rows'[r].cred[t] = rows[r].cred[t] /\ ~ (rows[r].cred[t] = e.id /\ t = cmd[p].type)
  BY <1>5
<1>7. rows[r].cred[t] # e.id
  <2>1. PICK g \in issued : g.id = rows[r].cred[t] /\ g.key.type = t
    BY <1>4, <1>6 DEF Sound, BindingTypeSafe
  <2> QED
    BY <1>3, <1>6, <2>1 DEF Sound, IssuedOnce
<1>8. ASSUME BeingCleared(rows[r].cred[t]) PROVE BeingCleared(rows[r].cred[t])'
  <2>1. \A q \in Operators : q = p
    BY DEF Alone
  <2>2. PICK f \in todo[p] : f.id = rows[r].cred[t]
    BY <1>8, <2>1 DEF BeingCleared
  <2>3. f # e
    BY <1>7, <2>2
  <2>4. pc'[p] = "null" /\ f \in todo'[p]
    BY <1>1, <1>2, <2>2, <2>3 DEF TypeOK
  <2>5. \E q \in Operators : pc'[q] = "null" /\ \E g \in todo'[q] : g.id = rows'[r].cred[t]
    BY <1>6, <2>2, <2>4
  <2> QED
    BY <2>5 DEF BeingCleared
<1> QED
  BY <1>4, <1>6, <1>8

LEMMA RotatedSteps == IInv /\ Alone /\ InStep /\ Rotated /\ [Next]_vars => Rotated'
<1> SUFFICES ASSUME TypeOK, Sound, Alone, InStep, Rotated, [Next]_vars,
                    mishaps' \cap {"killed", "bound"} = {}
             PROVE  /\ \A r \in Present', t \in CredTypes :
                         \/ rows'[r].cred[t] \in CurrentIds'
                         \/ BeingCleared(rows[r].cred[t])'
                    /\ \A p \in Operators : pc'[p] \in {"autobind", "prompt", "bind"}
                                              => cmd'[p].id \in CurrentIds'
  BY DEF IInv, Rotated
<1>1. "killed" \notin mishaps' /\ mishaps \cap {"killed", "bound"} = {}
  BY HistoryGrows
<1>2. \A e \in Load(file) : e.id \in CurrentIds
  BY LoadedIsSaved DEF CurrentIds
<1>3. None \in CurrentIds /\ None \in CurrentIds'
  BY DEF CurrentIds
<1>4. \A p, q \in Operators : p = q
  BY DEF Alone
<1>5. ASSUME NEW r \in Present', NEW t \in CredTypes
      PROVE  rows'[r].cred[t] \in CurrentIds' \/ BeingCleared(rows[r].cred[t])'
  <2>1. PICK i : i = rows'[r].cred[t]
    OBVIOUS
  <2>2. r \in RowIds /\ rows'[r] \notin {NoRow, Gone}
    BY DEF Present
  <2>3. CASE \E p \in Operators : NullBindings(p)
    <3>1. CASE i # None
      <4>1. /\ r \in Present /\ i = rows[r].cred[t]
            /\ BeingCleared(rows[r].cred[t]) => BeingCleared(rows[r].cred[t])'
        BY <2>1, <2>3, <3>1, Cleared
      <4>2. i \in CurrentIds \/ BeingCleared(rows[r].cred[t])
        BY <1>1, <4>1 DEF Rotated
      <4>3. CASE i \in CurrentIds
        <5>1. i \in CurrentIds' \/ BeingCleared(i)'
          BY <1>1, <4>3, Turnover
        <5> QED
          BY <2>1, <5>1 DEF BeingCleared
      <4> QED
        BY <2>1, <4>1, <4>2, <4>3
    <3> QED
      BY <1>3, <2>1, <3>1
  <2>4. CASE ~ \E p \in Operators : NullBindings(p)
    <3>1. i \in CurrentIds \/ BeingCleared(i)
      <4>1. CASE r \in Present /\ i = rows[r].cred[t]
        BY <1>1, <4>1 DEF Rotated, BeingCleared
      <4>2. CASE \E p \in Operators : Bind(p) /\ i = cmd[p].id
        BY <1>1, <4>2 DEF Rotated, Bind
      <4>3. ~ \E d \in Discoveries : DiscoverBind(d)
        BY DEF DiscoverBind
      <4> QED
        BY <1>3, <2>1, <2>2, <4>1, <4>2, <4>3, RowMoves
    <3>2. i \in CurrentIds' \/ BeingCleared(i)'
      BY <1>1, <2>4, <3>1, Turnover, StillCleared
    <3> QED
      BY <2>1, <3>2 DEF BeingCleared
  <2> QED
    BY <2>3, <2>4
<1>6. ASSUME NEW p \in Operators, pc'[p] \in {"autobind", "prompt", "bind"}
      PROVE  cmd'[p].id \in CurrentIds'
  <2>1. CASE Write(p) /\ cmd[p].verb = "add" /\ cmd'[p].id = cmd[p].id
    BY <2>1, SavedId DEF CurrentIds
  <2>2. CASE ~ (Write(p) /\ cmd[p].verb = "add" /\ cmd'[p].id = cmd[p].id)
    <3>1. PICK i : i = cmd'[p].id
      OBVIOUS
    <3>2. i \in CurrentIds
      BY <1>1, <1>2, <1>3, <1>6, <2>2, <3>1, IdMoves DEF Rotated
    <3>3. ~ BeingCleared(i)'
      BY <1>4, <1>6 DEF BeingCleared
    <3> QED
      BY <1>1, <3>1, <3>2, <3>3, Turnover
  <2> QED
    BY <2>1, <2>2
<1> QED
  BY <1>5, <1>6

-----------------------------------------------------------------------------
(* The row an add is about to bind.                                        *)

Settled(r) ==
  /\ r \in Present
  /\ rows'[r].host = rows[r].host
  /\ \A t \in CredTypes : rows'[r].cred[t] \in {rows[r].cred[t], None}

\* A row inserted under a name that no row had, with no binding.
Newcomer(r) ==
  /\ Named(rows'[r].host) = {}
  /\ \A t \in CredTypes : rows'[r].cred[t] = None
  /\ \A s \in RowIds \ {r} : rows'[s] = rows[s]

\* Rows keep their names, and only Bind and DiscoverBind make bindings.
LEMMA NamesMove ==
  ASSUME TypeOK, Sound, [Next]_vars, NEW r \in Present',
         ~ \E p \in Operators : Bind(p), ~ \E d \in Discoveries : DiscoverBind(d)
  PROVE  Settled(r) \/ Newcomer(r)
<1>0. r \in RowIds /\ rows'[r] \notin {NoRow, Gone}
  BY DEF Present
<1>1. CASE rows'[r] = rows[r]
  BY <1>0, <1>1 DEF Settled, Present
<1>2. ASSUME NEW p \in Operators, NullBindings(p) PROVE Settled(r)
  <2>1. rows'[r] = rows[r] \/ (r \in Present /\ rows'[r] = [rows[r] EXCEPT !.cred[cmd[p].type] = None])
    BY <1>0, <1>2 DEF NullBindings
  <2>2. CASE r \in Present /\ rows'[r] = [rows[r] EXCEPT !.cred[cmd[p].type] = None]
    <3>1. rows[r] \in Row
      BY <2>2 DEF Present, TypeOK
    <3> QED
      BY <2>2, <3>1 DEF Settled, Row
  <2> QED
    BY <1>0, <2>1, <2>2 DEF Settled, Present
<1>3. ASSUME NEW d \in Discoveries, DiscoverSucceed(d) \/ DiscoverFail(d)
      PROVE  Settled(r) \/ Newcomer(r)
  <2>1. PICK h \in Hosts, ip \in Hosts : Upsert(d, h, ip)
    BY <1>3, AnsweredFacts DEF Sound
  <2>2. PICK s \in RowIds :
          \/ /\ s \in Named(h)
             /\ rows' = [rows EXCEPT ![s].ip = ip]
          \/ /\ Named(h) = {}
             /\ rows[s] = NoRow
             /\ rows' = [rows EXCEPT ![s] = Unbound(h, ip)]
    BY <2>1 DEF Upsert
  <2>3. CASE s \in Named(h) /\ rows' = [rows EXCEPT ![s].ip = ip]
    <3>1. s \in Present /\ rows[s] \in Row
      BY <2>3 DEF Named, Present, TypeOK
    <3>2. rows'[s].host = rows[s].host /\ rows'[s].cred = rows[s].cred
      BY <2>3, <3>1 DEF Row, TypeOK
    <3>3. r # s => rows'[r] = rows[r]
      BY <1>0, <2>3 DEF TypeOK
    <3> QED
      BY <1>0, <3>1, <3>2, <3>3 DEF Settled, Present
  <2>4. CASE Named(h) = {} /\ rows' = [rows EXCEPT ![s] = Unbound(h, ip)]
    <3>1. CASE r = s
      <4>1. rows'[r] = Unbound(h, ip) /\ \A u \in RowIds \ {r} : rows'[u] = rows[u]
        BY <2>4, <3>1 DEF TypeOK
      <4> QED
        BY <2>4, <4>1 DEF Newcomer, Unbound
    <3>2. CASE r # s
      BY <1>0, <2>4, <3>2 DEF TypeOK, Settled, Present
    <3> QED
      BY <3>1, <3>2
  <2> QED
    BY <2>2, <2>3, <2>4
<1>4. ASSUME NEW s \in RowIds, RemoveDevice(s) PROVE rows'[r] = rows[r]
  BY <1>0, <1>4 DEF RemoveDevice, TypeOK
<1>5. ASSUME Next,
             ~ \E p \in Operators : NullBindings(p),
             ~ \E d \in Discoveries : DiscoverSucceed(d) \/ DiscoverFail(d),
             ~ \E s \in RowIds : RemoveDevice(s)
      PROVE  rows' = rows
  <2>1. ASSUME NEW d \in Discoveries, Discover(d) PROVE rows' = rows
    BY <1>5, <2>1 DEF Discover, DiscoverResolve, DiscoverAbort, stores
  <2>2. ASSUME NEW p \in Operators,
               \/ AutoBind(p) \/ Answer(p) \/ Bind(p) \/ NullBindings(p) \/ Crash(p)
               \/ \E type \in CredTypes, h \in Hosts :
                    UnlinkCheck(p, type, h) \/ \E i \in Ids : LinkCheck(p, type, h, i)
               \/ \E type \in CredTypes, target \in Targets : RemoveList(p, type, target)
        PROVE  rows' = rows
    BY <1>5, <2>2 DEF AutoBind, Answer, Crash, UnlinkCheck, LinkCheck, RemoveList, stores
  <2>3. ASSUME NEW p \in Operators, NEW k \in Key, NEW auth \in Kinds, AddStore(p, k, auth)
        PROVE  rows' = rows
    BY <2>3 DEF AddStore
  <2>4. ASSUME NEW p \in Operators,
               Register(p) \/ Truncate(p) \/ Write(p) \/ DeleteSecret(p) \/ Unregister(p)
        PROVE  rows' = rows
    BY <2>4 DEF Register, Truncate, Write, DeleteSecret, Unregister, stores
  <2> QED
    BY <1>5, <2>1, <2>2, <2>3, <2>4, StepKinds
<1> QED
  BY <1>1, <1>2, <1>3, <1>4, <1>5 DEF vars, stores

\* An add comes to bind unasked from its look at the rows.
LEMMA BindArrives ==
  ASSUME TypeOK, Alone, [Next]_vars, NEW p \in Operators,
         pc'[p] = "bind", cmd'[p].verb = "add", ~ cmd'[p].asked
  PROVE  (pc[p] = "bind" /\ cmd'[p] = cmd[p]) \/ AutoBind(p)
<1>1. CASE UNCHANGED local
  BY <1>1 DEF local
<1>2. ~ Answer(p)
  <2>1. ~ Return(p)
    BY ReturnFacts
  <2> QED
    BY <2>1 DEF Answer, TypeOK, Command
<1>3. ASSUME NEW type \in CredTypes, NEW h \in Hosts, UnlinkCheck(p, type, h) PROVE FALSE
  <2>1. cmd'[p].verb = "unlink"
    BY <1>3 DEF UnlinkCheck, TypeOK, NoCommand
  <2> QED
    BY <2>1
<1>4. ASSUME NEW type \in CredTypes, NEW h \in Hosts, NEW i \in Ids, LinkCheck(p, type, h, i)
      PROVE  FALSE
  <2>1. cmd'[p].verb = "link"
    BY <1>4 DEF LinkCheck, TypeOK, NoCommand
  <2> QED
    BY <2>1
<1>5. ~ (Bind(p) \/ Crash(p))
  BY ReturnFacts DEF Bind, Crash
<1>6. ~ Write(p)
  <2>1. ~ Return(p)
    BY ReturnFacts
  <2> QED
    BY <2>1 DEF Write, TypeOK
<1>7. ~ NullBindings(p)
  <2>1. ~ Return(p)
    BY ReturnFacts
  <2> QED
    BY <2>1 DEF NullBindings
<1>8. ~ \E k \in Key, auth \in Kinds : AddStore(p, k, auth)
  BY DEF AddStore, TypeOK
<1>9. ~ (Register(p) \/ Truncate(p) \/ DeleteSecret(p) \/ Unregister(p))
  BY DEF Register, Truncate, DeleteSecret, Unregister, TypeOK
<1>10. ~ \E type \in CredTypes, target \in Targets : RemoveList(p, type, target)
  BY DEF RemoveList, TypeOK
<1>11. CASE (\E d \in Discoveries : Discover(d)) \/ \E r \in RowIds : RemoveDevice(r)
  BY <1>1, <1>11, OtherSteps
<1>12. \A q \in Operators : q = p
  BY DEF Alone
<1>13. CASE Next
  BY <1>2, <1>3, <1>4, <1>5, <1>6, <1>7, <1>8, <1>9, <1>10, <1>11, <1>12, <1>13, StepKinds
<1> QED
  BY <1>1, <1>13 DEF vars

LEMMA NamesakesSteps ==
  ASSUME TypeOK, Sound, NamesakesUnbound, [Next]_vars,
         ~ \E d \in Discoveries : DiscoverBind(d)
  PROVE  NamesakesUnbound'
<1> SUFFICES ASSUME NEW r \in Present', NEW s \in Present', rows'[r].host = rows'[s].host, r # s,
                    NEW t \in CredTypes
             PROVE  rows'[r].cred[t] = None
  BY DEF NamesakesUnbound
<1>1. r \in RowIds /\ s \in RowIds
  BY DEF Present
<1>2. ASSUME NEW p \in Operators, Bind(p) PROVE rows'[r].cred[t] = None
  <2>1. CASE UNCHANGED rows
    BY <2>1 DEF Present, NamesakesUnbound
  <2>2. CASE ~ UNCHANGED rows
    <3>1. PICK u \in Named(cmd[p].host) :
            /\ Named(cmd[p].host) = {u}
            /\ rows' = [rows EXCEPT ![u].cred[cmd[p].type] = cmd[p].id]
      BY <1>2, <2>2 DEF Bind
    <3>2. u \in RowIds /\ u \in Present /\ rows[u] \in Row /\ rows[u].host = cmd[p].host
      BY DEF Named, Present, TypeOK
    <3>3. rows'[u].host = rows[u].host
      BY <3>1, <3>2 DEF TypeOK, Row
    <3>4. \A x \in RowIds \ {u} : rows'[x] = rows[x]
      BY <3>1 DEF TypeOK
    <3>5. r \in Present /\ s \in Present
      BY <1>1, <3>2, <3>4 DEF Present
    <3>6. rows[r].host = rows[s].host
      BY <1>1, <3>3, <3>4
    <3>7. r # u
      BY <3>1, <3>2, <3>5, <3>6 DEF Named
    <3> QED
      BY <1>1, <3>4, <3>5, <3>6, <3>7 DEF NamesakesUnbound
  <2> QED
    BY <2>1, <2>2
<1>3. CASE ~ \E p \in Operators : Bind(p)
  <2>1. (Settled(r) \/ Newcomer(r)) /\ (Settled(s) \/ Newcomer(s))
    BY <1>3, NamesMove
  <2>2. CASE Newcomer(r)
    BY <2>2 DEF Newcomer
  <2>3. CASE Settled(r) /\ Settled(s)
    BY <2>3 DEF Settled, NamesakesUnbound
  <2>4. ~ (Settled(r) /\ Newcomer(s))
    BY <1>1 DEF Settled, Newcomer, Named
  <2> QED
    BY <2>1, <2>2, <2>3, <2>4
<1> QED
  BY <1>2, <1>3

LEMMA BindSteps == IInv /\ Alone /\ InStep /\ AboutToBind /\ [Next]_vars => AboutToBind'
<1> SUFFICES ASSUME TypeOK, Sound, Alone, InStep, AboutToBind, [Next]_vars, "bound" \notin mishaps'
             PROVE  /\ NamesakesUnbound'
                    /\ \A p \in Operators : pc'[p] = "bind" /\ cmd'[p].verb = "add" /\ ~ cmd'[p].asked
                         => \A r \in Present' : rows'[r].host = cmd'[p].host
                                                  => rows'[r].cred[cmd'[p].type] = None
  BY DEF IInv, AboutToBind, Named
<1>1. "bound" \notin mishaps /\ ~ \E d \in Discoveries : DiscoverBind(d)
  BY HistoryGrows DEF DiscoverBind
<1>2. NamesakesUnbound
  BY <1>1 DEF AboutToBind
<1>3. NamesakesUnbound'
  BY <1>1, <1>2, NamesakesSteps
<1>4. ASSUME NEW p \in Operators, pc'[p] = "bind", cmd'[p].verb = "add", ~ cmd'[p].asked,
             NEW r \in Present', rows'[r].host = cmd'[p].host
      PROVE  rows'[r].cred[cmd'[p].type] = None
  <2>1. ASSUME pc[p] = "bind", cmd'[p] = cmd[p] PROVE rows'[r].cred[cmd'[p].type] = None
    <3>1. cmd[p].type \in CredTypes
      BY <1>4, <2>1 DEF InStep, CommandAlone
    <3>2. ~ \E q \in Operators : Bind(q)
      BY <1>4, ReturnFacts DEF Alone, Bind
    <3>3. Settled(r) \/ Newcomer(r)
      BY <1>1, <3>2, NamesMove
    <3>4. CASE Settled(r)
      <4>1. r \in Named(cmd[p].host)
        BY <1>4, <2>1, <3>4 DEF Settled, Named
      <4>2. rows[r].cred[cmd[p].type] = None
        BY <1>1, <1>4, <2>1, <4>1 DEF AboutToBind
      <4> QED
        BY <2>1, <3>1, <3>4, <4>2 DEF Settled
    <3> QED
      BY <2>1, <3>1, <3>3, <3>4 DEF Newcomer
  <2>2. ASSUME AutoBind(p) PROVE rows'[r].cred[cmd'[p].type] = None
    <3>1. ~ Return(p)
      BY <1>4, ReturnFacts
    <3>2. cmd'[p].type = cmd[p].type /\ rows' = rows
      BY <2>2, <3>1, BindingMoves DEF stores
    <3>3. PICK u \in Matching(cmd[p].target) :
            /\ cmd' = [cmd EXCEPT ![p].host = rows[u].host]
            /\ pc' = [pc EXCEPT ![p] =
                        IF Matching(cmd[p].target) = {u} /\ rows[u].cred[cmd[p].type] = None
                        THEN "bind" ELSE "prompt"]
      BY <2>2, <3>1 DEF AutoBind
    <3>4. rows[u].cred[cmd[p].type] = None /\ cmd'[p].host = rows[u].host
      BY <1>4, <3>3 DEF TypeOK, Command
    <3>5. u \in Present /\ r \in Present
      BY <3>2 DEF Matching, Present
    <3>6. cmd[p].type \in CredTypes
      BY <1>4, <2>2 DEF InStep, CommandAlone, AutoBind
    <3> QED
      BY <1>2, <1>4, <3>2, <3>4, <3>5, <3>6 DEF NamesakesUnbound
  <2> QED
    BY <1>4, <2>1, <2>2, BindArrives
<1> QED
  BY <1>3, <1>4

-----------------------------------------------------------------------------
(* The theorems of commands that do not overlap.                           *)

Orderly ==
  InStep /\ SecretsFirst /\ InAgreement /\ EveryIdKnown /\ Rotated /\ AboutToBind

LEMMA OrderlyStarts == Init => Orderly
<1> SUFFICES ASSUME Init PROVE Orderly
  OBVIOUS
<1>1. file # Torn /\ Load(file) = {} /\ SavedRegistry = {}
  BY TornAssumption DEF Init, Load, SavedRegistry
<1>2. InStep
  BY <1>1 DEF Init, InStep, TornHasCause, CommandAlone, NoCommand
<1>3. SecretsFirst
  BY <1>1 DEF Init, SecretsFirst, Secured
<1>4. Agrees(Load(file))
  BY <1>1 DEF Init, Agrees
<1>5. InAgreement
  BY <1>4 DEF Init, InAgreement, AgreesAt
<1>6. ASSUME NEW r \in Present, NEW t \in CredTypes PROVE rows[r].cred[t] = None
  <2>1. rows[r] \in {Unbound(h, ip) : h, ip \in Hosts}
    BY DEF Init, Present
  <2> QED
    BY <2>1 DEF Unbound
<1>7. EveryIdKnown
  BY <1>6 DEF Init, EveryIdKnown, KnownIds, NoCall
<1>8. Rotated
  BY <1>6 DEF Init, Rotated, CurrentIds
<1>9. AboutToBind
  BY <1>6 DEF Init, AboutToBind, NamesakesUnbound
<1> QED
  BY <1>2, <1>3, <1>5, <1>7, <1>8, <1>9 DEF Orderly

LEMMA OrderlySteps == Alone /\ IInv /\ Orderly /\ [Next]_vars => Orderly'
  BY InStepSteps, SecretsSteps, AgreementSteps, KnownSteps, RotatedSteps, BindSteps DEF Orderly

LEMMA StaysOrderly == ASSUME Alone PROVE Spec => [](IInv /\ Orderly)
<1>1. Init => IInv /\ Orderly
  BY Starts, OrderlyStarts
<1>2. IInv /\ Orderly /\ [Next]_vars => (IInv /\ Orderly)'
  BY Steps, OrderlySteps
<1> QED
  BY <1>1, <1>2, PTL DEF Spec

\* Wherever a command is killed, and whatever the keyring refuses to delete, an
\* account that is listed without a secret is one a remove was taking out.
THEOREM SecretsComeFirst ==
  ASSUME Alone PROVE Spec => []SecretlessEntriesWereBeingRemoved
<1>1. Orderly => SecretlessEntriesWereBeingRemoved
  BY DEF Orderly, SecretsFirst, Secured, SecretlessEntriesWereBeingRemoved
<1> QED
  BY <1>1, StaysOrderly, PTL

\* After commands that ran to their end, the keyring holds the secret of every
\* registered account, of the kind registered; and no other secret, if every
\* delete it was asked for succeeded.
THEOREM StoresAgree == ASSUME Alone PROVE Spec => []ConsistentAtRest
<1>1. IInv /\ Orderly => ConsistentAtRest
  BY DEF Orderly, InStep, TornHasCause, InAgreement, Agrees, ConsistentAtRest, Quiet
<1> QED
  BY <1>1, StaysOrderly, PTL

\* A binding to a UUID that is not registered is traced to the remove that
\* found it, the add that replaced it, or the kill that emptied the file.
THEOREM StaleIsExplained == ASSUME Alone PROVE Spec => []StaleHasCause
<1>1. Orderly => StaleHasCause
  BY DEF Orderly, EveryIdKnown, KnownIds, SavedRegistry, Load, StaleHasCause
<1> QED
  BY <1>1, StaysOrderly, PTL

\* After commands that ran to their end, and with no discovery writing a UUID
\* back, remove has left no binding behind: only rotation leaves stale ones.
THEOREM OnlyRotationLeavesStale == ASSUME Alone PROVE Spec => []StaleOnlyByRotation
<1>1. Orderly => StaleOnlyByRotation
  <2> SUFFICES ASSUME Orderly, Quiet, mishaps \cap {"killed", "bound"} = {}
               PROVE  \A r \in Present, t \in CredTypes :
                        rows[r].cred[t] \in {None} \cup {e.id : e \in Load(file)} \cup replaced
    BY DEF StaleOnlyByRotation
  <2>1. file # Torn
    BY DEF Orderly, InStep, TornHasCause, Quiet
  <2>2. \A i : ~ BeingCleared(i)
    BY DEF Quiet, BeingCleared
  <2> QED
    BY <2>1, <2>2 DEF Orderly, Rotated, CurrentIds, SavedRegistry, Load
<1> QED
  BY <1>1, StaysOrderly, PTL

\* An add that nobody answered yes to changes no binding that exists: between
\* its look at the rows and its write, and in the write's own lookup by name,
\* nothing can have bound the row but a discovery.
THEOREM BindingsAreKept == ASSUME Alone PROVE Spec => AutoBindNeverOverwrites
<1>1. IInv /\ Orderly /\ [Next]_vars => [AutoBindKeeps]_vars
  <2> SUFFICES ASSUME TypeOK, Sound, Orderly, Next, "bound" \notin mishaps,
                      NEW p \in Operators, NEW r \in RowIds,
                      pc[p] = "bind", pc'[p] = "idle", cmd[p].verb = "add", ~ cmd[p].asked,
                      r \in Present, rows[r].cred[cmd[p].type] # None
               PROVE  rows'[r] = rows[r]
    BY DEF IInv, AutoBindKeeps, vars
  <2>1. r \notin Named(cmd[p].host)
    BY DEF Orderly, AboutToBind
  <2>2. ASSUME Bind(p) PROVE rows'[r] = rows[r]
    BY <2>1, <2>2 DEF Bind, TypeOK
  <2>3. ASSUME Crash(p) PROVE rows'[r] = rows[r]
    BY <2>3 DEF Crash, stores
  <2>4. pc' # pc
    OBVIOUS
  <2>5. \A q \in Operators : q = p
    BY DEF Alone
  <2>6. ~ ((\E d \in Discoveries : Discover(d)) \/ \E s \in RowIds : RemoveDevice(s))
    BY <2>4, OtherSteps DEF local
  <2>7. ~ \E k \in Key, auth \in Kinds : AddStore(p, k, auth)
    BY DEF AddStore
  <2>8. ~ (Register(p) \/ Truncate(p) \/ Write(p) \/ DeleteSecret(p) \/ Unregister(p))
    BY DEF Register, Truncate, Write, DeleteSecret, Unregister
  <2>9. ~ (AutoBind(p) \/ Answer(p) \/ NullBindings(p))
    BY DEF AutoBind, Answer, NullBindings
  <2>10. ~ \E type \in CredTypes, h \in Hosts :
            UnlinkCheck(p, type, h) \/ \E i \in Ids : LinkCheck(p, type, h, i)
    BY DEF UnlinkCheck, LinkCheck
  <2>11. ~ \E type \in CredTypes, target \in Targets : RemoveList(p, type, target)
    BY DEF RemoveList
  <2> QED
    BY <2>2, <2>3, <2>5, <2>6, <2>7, <2>8, <2>9, <2>10, <2>11, StepKinds
<1> QED
  BY <1>1, StaysOrderly, PTL DEF Spec, AutoBindNeverOverwrites

\* The registry as of its last completed save changes by whole commands - one
\* account put in, or all those of a target and type taken out - or is lost to
\* a kill between open and write.
THEOREM RegistryIsImplemented == ASSUME Alone PROVE Spec => ImplementsAccountRegistry
<1>1. Init => Accounts!Empty
  BY TornAssumption DEF Init, SavedRegistry, Accounts!Empty
<1>2. IInv /\ Orderly /\ [Next]_vars => [Accounts!Change]_<<SavedRegistry, "torn" \in mishaps>>
  BY RegistryChanges DEF IInv, Orderly
<1> QED
  BY <1>1, <1>2, StaysOrderly, PTL DEF Spec, ImplementsAccountRegistry, Accounts!RegistrySpec
=============================================================================
