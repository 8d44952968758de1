------------------------ MODULE ShellSessionsProofs ------------------------
(***************************************************************************)
(* The session table of the interactive shells, proved for every number of *)
(* sessions and browsers, every timeout and every set of hosts that never  *)
(* answer.  The inductive invariant adds to the properties what is known   *)
(* of a session before it is in the table and after it has left it.        *)
(***************************************************************************)
EXTENDS ShellSessions, TLAPS

\* A shell is started on a connection, and the one that is being closed was told so:
\* an id is never handed out again, so neither comes back into the table.
OneLife ==
  /\ \A s \in Session : connection[s] = "none" => process[s] = "none"
  /\ closing # NoSession => process[closing] = "closed"

IInv == TypeOK /\ TableIsLive /\ ConnectionsOwned /\ OneLife

LEMMA InvInit == Init => IInv
  BY ShellAssumption DEF Init, IInv, TypeOK, TableIsLive, ConnectionsOwned, OneLife

LEMMA UpToType == ASSUME NEW n \in Nat, NEW limit \in Nat PROVE UpTo(n, limit) \in 0..limit
  BY DEF UpTo

LEMMA TouchType == ASSUME TypeOK, NEW s, Touch(s) PROVE idle' \in [Session -> 0..(Timeout + 1)]
  <1>1. 0 \in 0..(Timeout + 1) BY ShellAssumption
  <1>q. QED BY <1>1 DEF TypeOK, Touch

\* create_session, as it goes on or fails.
LEMMA CreateKeeps ==
  ASSUME IInv, NEW s \in Session, Connect(s) \/ StartShell(s) \/ StartFails(s)
  PROVE  IInv'
  <1> USE DEF IInv
  <1>1. CASE Connect(s)
    <2>1. TypeOK' BY <1>1 DEF Connect, TypeOK, web, loop
    <2>2. (TableIsLive /\ ConnectionsOwned /\ OneLife)'
      BY <1>1 DEF Connect, TypeOK, TableIsLive, ConnectionsOwned, OneLife, loop
    <2>q. QED BY <2>1, <2>2
  <1>2. CASE StartShell(s)
    <2>1. TypeOK' BY <1>2, TouchType DEF StartShell, TypeOK, web, loop
    <2>2. closing # s BY <1>2, ShellAssumption DEF StartShell, OneLife
    <2>3. TableIsLive' BY <1>2, <2>2 DEF StartShell, TypeOK, TableIsLive, loop
    <2>4. (ConnectionsOwned /\ OneLife)'
      BY <1>2, <2>2 DEF StartShell, TypeOK, ConnectionsOwned, OneLife, loop
    <2>q. QED BY <2>1, <2>3, <2>4
  <1>3. CASE StartFails(s)
    <2>1. TypeOK' BY <1>3 DEF StartFails, TypeOK, web, loop
    <2>2. s \notin sessions /\ closing # s
      BY <1>3, ShellAssumption DEF StartFails, TableIsLive, OneLife
    <2>3. (TableIsLive /\ ConnectionsOwned /\ OneLife)'
      BY <1>3, <2>2 DEF StartFails, TypeOK, TableIsLive, ConnectionsOwned, OneLife, loop
    <2>q. QED BY <2>1, <2>3
  <1>q. QED BY <1>1, <1>2, <1>3

\* Pages, websockets and the clock: they touch no session's resources.
LEMMA UseKeeps ==
  ASSUME IInv, UNCHANGED <<sessions, resources, closing, expired>>, TypeOK'
  PROVE  IInv'
  BY DEF IInv, TableIsLive, ConnectionsOwned, OneLife, resources

LEMMA ShellEnds == ASSUME IInv, NEW s \in Session, ProcessExits(s) PROVE IInv'
  <1>1. closing # s BY ShellAssumption DEF IInv, ProcessExits, OneLife
  <1>2. TypeOK' BY DEF IInv, ProcessExits, TypeOK, web, loop
  <1>q. QED BY <1>1, <1>2 DEF IInv, ProcessExits, TypeOK, TableIsLive, ConnectionsOwned, OneLife, loop

\* close_session of the next id: the caller is done with the one before it, and what
\* is left of the list is in the table.
LEMMA CloseKeeps ==
  ASSUME IInv, NEW ids \in SUBSET sessions, CloseOne(ids), failed \subseteq failed', failed' \subseteq Session,
         UNCHANGED <<connection, idle, web>>,
         closing # NoSession => connection[closing] # "open" \/ closing \in failed'
  PROVE  IInv'
  <1> USE DEF IInv
  <1>1. CASE ids = {} /\ slept' = 0 /\ closing' = NoSession /\ expired' = {}
             /\ UNCHANGED <<sessions, process>>
    <2>1. TypeOK' BY <1>1, ShellAssumption DEF TypeOK, web
    <2>q. QED BY <1>1, <2>1, ShellAssumption DEF TypeOK, TableIsLive, ConnectionsOwned, OneLife
  <1>2. ASSUME NEW s \in ids, closing' = s, expired' = ids \ {s}, sessions' = sessions \ {s},
               process' = [process EXCEPT ![s] = "closed"], UNCHANGED slept
        PROVE  IInv'
    <2>0. s \in Session /\ s \in sessions BY DEF TypeOK
    <2>1. TypeOK' BY <1>2, <2>0 DEF TypeOK, web
    <2>2. TableIsLive' BY <1>2, <2>0 DEF TypeOK, TableIsLive
    <2>3. ConnectionsOwned'
      <3> SUFFICES ASSUME NEW r \in Session \ failed', connection[r] = "open"
                   PROVE  r \in sessions' \/ r = closing' \/ process'[r] = "none"
        BY DEF ConnectionsOwned
      <3>1. r \in Session \ failed /\ r # closing BY ShellAssumption
      <3>2. r \in sessions \/ process[r] = "none" BY <3>1 DEF ConnectionsOwned
      <3>q. QED BY <1>2, <2>0, <3>2 DEF TypeOK
    <2>4. OneLife' BY <1>2, <2>0 DEF OneLife, TypeOK, TableIsLive
    <2>q. QED BY <2>1, <2>2, <2>3, <2>4
  <1>q. QED BY <1>1, <1>2 DEF CloseOne

\* The cleanup loop.
LEMMA CleanupKeeps == ASSUME IInv, Cleanup PROVE IInv'
  <1> USE DEF IInv
  <1>1. CASE Sweep
    <2>1. {s \in sessions : idle[s] > Timeout} \in SUBSET sessions OBVIOUS
    <2>q. QED BY <1>1, <2>1, CloseKeeps DEF Sweep, TypeOK
  <1>2. CASE ProcessGone
    <2>1. closing \in Session /\ closing \notin sessions
      BY <1>2 DEF ProcessGone, TypeOK, TableIsLive
    <2>2. TypeOK' BY <1>2 DEF ProcessGone, TypeOK, web, loop
    <2>q. QED BY <1>2, <2>1, <2>2
      DEF ProcessGone, TypeOK, TableIsLive, ConnectionsOwned, OneLife, loop
  <1>3. CASE ConnectionGone
    <2>1. expired \in SUBSET sessions BY DEF TableIsLive
    <2>q. QED BY <1>3, <2>1, CloseKeeps DEF ConnectionGone, TypeOK
  <1>4. CASE CloseFails
    <2>1. expired \in SUBSET sessions BY DEF TableIsLive
    <2>2. closing \in Session BY <1>4 DEF CloseFails, TypeOK
    <2>q. QED BY <1>4, <2>1, <2>2, CloseKeeps DEF CloseFails, TypeOK
  <1>q. QED BY <1>1, <1>2, <1>3, <1>4 DEF Cleanup

LEMMA InvNext == ASSUME IInv, [Next]_vars PROVE IInv'
  <1>0. TypeOK BY DEF IInv
  <1>1. CASE Create BY <1>1, CreateKeeps DEF Create
  <1>2. CASE Cleanup BY <1>2, CleanupKeeps
  <1>3. ASSUME NEW s \in Session, LoadPage(s) PROVE IInv'
    <2>1. TypeOK' BY <1>0, <1>3, TouchType DEF LoadPage, TypeOK, resources, web, loop
    <2>q. QED BY <1>3, <2>1, UseKeeps DEF LoadPage, loop
  <1>f. ASSUME NEW c \in Client, NEW s \in Session, FindSession(c, s) PROVE IInv'
    <2>1. TypeOK' BY <1>0, <1>f, TouchType DEF FindSession, TypeOK, resources, web, loop
    <2>q. QED BY <1>f, <2>1, UseKeeps DEF FindSession, loop
  <1>4. ASSUME NEW c \in Client, AttachSocket(c) PROVE IInv'
    <2>1. TypeOK' BY <1>0, <1>4 DEF AttachSocket, TypeOK, resources, web, loop
    <2>q. QED BY <1>4, <2>1, UseKeeps DEF AttachSocket, loop
  <1>5. ASSUME NEW c \in Client, Resize(c) PROVE IInv'
    <2>1. TypeOK' BY <1>0, <1>5, TouchType DEF Resize, TypeOK, resources, web, loop
    <2>q. QED BY <1>5, <2>1, UseKeeps DEF Resize, loop
  <1>6. ASSUME NEW c \in Client, Detach(c) PROVE IInv'
    <2>1. TypeOK' BY <1>0, <1>6 DEF Detach, TypeOK, resources, web, loop
    <2>q. QED BY <1>6, <2>1, UseKeeps DEF Detach, loop
  <1>7. CASE Tick
    <2>1. idle' \in [Session -> 0..(Timeout + 1)] /\ slept' \in 0..Period
      <3>1. /\ \A s \in Session : idle[s] + 1 \in Nat
            /\ slept + 1 \in Nat /\ Timeout + 1 \in Nat /\ Period \in Nat
        BY <1>0, ShellAssumption DEF TypeOK
      <3>q. QED BY <1>0, <1>7, <3>1, UpToType DEF Tick, TypeOK
    <2>2. TypeOK' BY <1>0, <1>7, <2>1 DEF Tick, TypeOK, resources, web
    <2>q. QED BY <1>7, <2>2, UseKeeps DEF Tick
  <1>8. CASE UNCHANGED vars
    <2>1. TypeOK' BY <1>0, <1>8 DEF vars, TypeOK, resources, web, loop
    <2>q. QED BY <1>8, <2>1, UseKeeps DEF vars, loop
  <1>q. QED BY <1>1, <1>2, <1>3, <1>f, <1>4, <1>5, <1>6, <1>7, <1>8, ShellEnds
    DEF Next, Use, SocketEof

THEOREM Invariance == Spec => []IInv
  BY InvInit, InvNext, PTL DEF Spec

\* Every variable keeps its type.
THEOREM TypeCorrect == Spec => []TypeOK
  <1>1. IInv => TypeOK BY DEF IInv
  <1>q. QED BY <1>1, Invariance, PTL

\* A session that a page or a websocket finds in the table has a connection that
\* nobody has closed, whatever is being cleaned up meanwhile.
THEOREM TableStaysLive == Spec => []TableIsLive
  <1>1. IInv => TableIsLive BY DEF IInv
  <1>q. QED BY <1>1, Invariance, PTL

\* Unless a start or a close raised, no open connection is left to nobody.
THEOREM ConnectionsStayOwned == Spec => []ConnectionsOwned
  <1>1. IInv => ConnectionsOwned BY DEF IInv
  <1>q. QED BY <1>1, Invariance, PTL
=============================================================================
