--------------------------- MODULE ShellSessions ---------------------------
(***************************************************************************)
(* Interactive shells: the session table of ShellSessionManager            *)
(* (shell_session.py), its cleanup loop, and the browser pages and         *)
(* websockets of http_app.py that use a session.                           *)
(*                                                                         *)
(* One event loop: a step is what runs between two awaits.  A websocket    *)
(* keeps the session object it looked up when it connected, so it can      *)
(* outlive the entry of the table.  The order in which expired sessions    *)
(* are closed is left open: it is that of insertion in the dict, and no    *)
(* property depends on it.  Time is kept as ages that saturate one past    *)
(* the threshold they are compared with, so runs are unbounded.            *)
(***************************************************************************)
EXTENDS Naturals

CONSTANTS
  Session,   \* the session ids token_urlsafe may hand out
  Client,    \* the browser websockets
  Commanded, \* sessions started with an initial_command
  Hung,      \* sessions whose host never answers a close
  Timeout,   \* SESSION_TIMEOUT
  Period,    \* the cleanup loop's sleep
  Failures,  \* may create_process, or a wait in close_session, raise
  NoSession  \* the value of "no session"

ASSUME ShellAssumption ==
  /\ Commanded \subseteq Session /\ Hung \subseteq Session
  /\ Timeout \in Nat /\ Period \in Nat \ {0}
  /\ Failures \in BOOLEAN /\ NoSession \notin Session

VARIABLES
  sessions,    \* the keys of the dict self.sessions
  connection,  \* Session -> its SSH connection
  process,     \* Session -> its remote shell
  failed,      \* sessions whose create_process, or close, raised (history)
  idle,        \* Session -> time since last_activity
  accepting,   \* Client -> the session found for it while accept is awaited
  sockets,     \* Client -> the session its websocket is attached to
  slept,       \* how long the cleanup loop has slept
  closing,     \* the session close_session is waiting for, or NoSession
  expired      \* what is left of the list of expired ids

resources == <<connection, process, failed>>
web       == <<accepting, sockets>>
loop      == <<slept, closing, expired>>
vars      == <<sessions, resources, idle, web, loop>>

UpTo(n, limit) == IF n < limit THEN n ELSE limit

TypeOK ==
  /\ sessions \subseteq Session
  /\ connection \in [Session -> {"none", "open", "closed"}]
  /\ process \in [Session -> {"none", "open", "exited", "closed", "failed"}]
  /\ failed \subseteq Session
  /\ idle \in [Session -> 0..(Timeout + 1)]
  /\ accepting \in [Client -> Session \cup {NoSession}]
  /\ sockets \in [Client -> Session \cup {NoSession}]
  /\ slept \in 0..Period
  /\ closing \in Session \cup {NoSession}
  /\ expired \subseteq Session

Init ==
  /\ sessions = {}
  /\ connection = [s \in Session |-> "none"]
  /\ process = [s \in Session |-> "none"]
  /\ failed = {}
  /\ idle = [s \in Session |-> 0]
  /\ accepting = [c \in Client |-> NoSession]
  /\ sockets = [c \in Client |-> NoSession]
  /\ slept = 0
  /\ closing = NoSession
  /\ expired = {}

-----------------------------------------------------------------------------
\* get_session(s): last_activity becomes now.
Touch(s) == idle' = [idle EXCEPT ![s] = 0]

\* create_session up to ssh_connect's return.
Connect(s) ==
  /\ connection[s] = "none"
  /\ connection' = [connection EXCEPT ![s] = "open"]
  /\ UNCHANGED <<sessions, process, failed, idle, web, loop>>

\* create_process returned: the rest of create_session.
StartShell(s) ==
  /\ connection[s] = "open" /\ process[s] = "none"
  /\ process' = [process EXCEPT ![s] = "open"]
  /\ sessions' = sessions \cup {s}
  /\ Touch(s)
  /\ UNCHANGED <<connection, failed, web, loop>>

\* create_process raised: the exception leaves create_session, which holds the
\* only reference to the connection and does not close it.
StartFails(s) ==
  /\ Failures
  /\ connection[s] = "open" /\ process[s] = "none"
  /\ process' = [process EXCEPT ![s] = "failed"]
  /\ failed' = failed \cup {s}
  /\ UNCHANGED <<sessions, connection, idle, web, loop>>

\* The user's shell ends by itself (exit, or the host closes it).
ProcessExits(s) ==
  /\ process[s] = "open"
  /\ process' = [process EXCEPT ![s] = "exited"]
  /\ UNCHANGED <<sessions, connection, failed, idle, web, loop>>

-----------------------------------------------------------------------------
\* handle_shell_page: serves the page of a session of the table.
LoadPage(s) ==
  /\ s \in sessions
  /\ Touch(s)
  /\ UNCHANGED <<sessions, resources, web, loop>>

\* handle_shell_websocket up to the await of accept.
FindSession(c, s) ==
  /\ accepting[c] = NoSession /\ sockets[c] = NoSession /\ s \in sessions
  /\ Touch(s)
  /\ accepting' = [accepting EXCEPT ![c] = s]
  /\ UNCHANGED <<sessions, resources, sockets, loop>>

\* From there to its loop, in the table or not.  The initial command goes to stdin on
\* every connect; on a shell that is gone that write raises and ends the handler, as
\* accept does when the browser has gone.
AttachSocket(c) ==
  /\ accepting[c] # NoSession
  /\ accepting' = [accepting EXCEPT ![c] = NoSession]
  /\ \/ UNCHANGED sockets
     \/ /\ accepting[c] \in Commanded => process[accepting[c]] = "open"
        /\ sockets' = [sockets EXCEPT ![c] = accepting[c]]
  /\ UNCHANGED <<sessions, resources, idle, loop>>

\* A "resize" message: resize_terminal looks the session up in the table.  (An
\* "input" message writes to the session object's stdin and looks nothing up: it
\* changes no state here, last_activity included.)
Resize(c) ==
  /\ sockets[c] # NoSession
  /\ sockets[c] \in sessions
  /\ Touch(sockets[c])
  /\ UNCHANGED <<sessions, resources, web, loop>>

\* The browser goes away, or input meets a shell that is gone.
Detach(c) ==
  /\ sockets[c] # NoSession
  /\ sockets' = [sockets EXCEPT ![c] = NoSession]
  /\ UNCHANGED <<sessions, resources, idle, accepting, loop>>

\* read_output meets the end of stdout and closes the websocket.
SocketEof(c) ==
  /\ sockets[c] # NoSession
  /\ process[sockets[c]] # "open"
  /\ Detach(c)

-----------------------------------------------------------------------------
\* MUTANT: the session is looked up, not popped.
CloseOneKept(ids) ==
  \/ /\ ids = {}
     /\ slept' = 0 /\ closing' = NoSession /\ expired' = {}
     /\ UNCHANGED <<sessions, process>>
  \/ \E s \in ids :
       /\ closing' = s /\ expired' = ids \ {s}
       /\ process' = [process EXCEPT ![s] = "closed"]
       /\ UNCHANGED <<sessions, slept>>

\* close_session of one of ids up to its first await, ids being what is left of the
\* expired list; when nothing is left the loop goes back to sleep.
CloseOne(ids) ==
  \/ /\ ids = {}
     /\ slept' = 0 /\ closing' = NoSession /\ expired' = {}
     /\ UNCHANGED <<sessions, process>>
  \/ \E s \in ids :
       /\ closing' = s /\ expired' = ids \ {s}
       /\ sessions' = sessions \ {s}
       /\ process' = [process EXCEPT ![s] = "closed"]
       /\ UNCHANGED slept

\* MUTANT: only sessions whose shell has ended are cleaned up.
SweepExited ==
  /\ slept = Period /\ closing = NoSession
  /\ CloseOne({s \in sessions : idle[s] > Timeout /\ process[s] = "exited"})
  /\ UNCHANGED <<connection, failed, idle, web>>

\* _cleanup_expired_sessions: lists the expired ids and starts closing them.
Sweep ==
  /\ slept = Period /\ closing = NoSession
  /\ CloseOne({s \in sessions : idle[s] > Timeout})
  /\ UNCHANGED <<connection, failed, idle, web>>

\* MUTANT: the process is waited for, the connection forgotten.
ProcessGoneOnly ==
  /\ closing # NoSession /\ connection[closing] = "open" /\ closing \notin Hung
  /\ CloseOne(expired)
  /\ UNCHANGED <<connection, failed, idle, web>>

\* process.wait() returned: the connection is closed too.
ProcessGone ==
  /\ closing # NoSession /\ connection[closing] = "open" /\ closing \notin Hung
  /\ connection' = [connection EXCEPT ![closing] = "closed"]
  /\ UNCHANGED <<sessions, process, failed, idle, web, loop>>

\* wait_closed() returned: on to the next expired id.
ConnectionGone ==
  /\ closing # NoSession /\ connection[closing] = "closed"
  /\ CloseOne(expired)
  /\ UNCHANGED <<connection, failed, idle, web>>

\* A wait raises and close_session logs it: what it had not closed stays open.
CloseFails ==
  /\ Failures /\ closing # NoSession
  /\ failed' = failed \cup {closing}
  /\ CloseOne(expired)
  /\ UNCHANGED <<connection, idle, web>>

\* Time passes.
Tick ==
  /\ idle' = [s \in Session |-> UpTo(idle[s] + 1, Timeout + 1)]
  /\ slept' = IF closing = NoSession THEN UpTo(slept + 1, Period) ELSE slept
  /\ UNCHANGED <<sessions, resources, web, closing, expired>>

-----------------------------------------------------------------------------
Create == \E s \in Session : Connect(s) \/ StartShell(s) \/ StartFails(s)

Use ==
  \/ \E s \in Session : LoadPage(s) \/ ProcessExits(s)
  \/ \E c \in Client, s \in Session : FindSession(c, s)
  \/ \E c \in Client : AttachSocket(c) \/ Resize(c) \/ Detach(c) \/ SocketEof(c)

Cleanup == Sweep \/ ProcessGone \/ ConnectionGone \/ CloseFails

Next == Create \/ Use \/ Cleanup \/ Tick

Spec == Init /\ [][Next]_vars

\* Time passes, the event loop runs what is ready, and hosts that are not hung
\* answer.  Users owe nothing.
Fairness ==
  /\ WF_vars(Tick)
  /\ WF_vars(Sweep) /\ WF_vars(ProcessGone) /\ WF_vars(ConnectionGone)

FairSpec == Spec /\ Fairness

-----------------------------------------------------------------------------
\* Every SSH connection that is open has an owner that will close it: the table,
\* the close_session that took it out, or the create_session that is opening it.
\* (An exception in create_process or in a close drops the last reference.)
ConnectionsOwned ==
  \A s \in Session \ failed : connection[s] = "open" =>
    s \in sessions \/ s = closing \/ process[s] = "none"

\* A session of the table has a connection nobody has closed, and the session
\* being closed has left it for good, while those queued behind it have not.
TableIsLive ==
  /\ \A s \in sessions : connection[s] = "open" /\ process[s] \in {"open", "exited"}
  /\ closing \notin sessions
  /\ expired \subseteq sessions

\* An abandoned session is cleaned up: it leaves the table, unless it is used.
IdleSessionsClose ==
  \A s \in Session : (s \in sessions) ~> (s \notin sessions \/ idle[s] = 0)
=============================================================================
