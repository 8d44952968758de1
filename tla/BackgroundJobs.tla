-------------------------- MODULE BackgroundJobs --------------------------
(***************************************************************************)
(* The in-process registry of background jobs (background_jobs.py) and the *)
(* asyncio tasks that run them.                                            *)
(*                                                                         *)
(* Everything runs on one event loop, so a step is what happens between    *)
(* two awaits.  A job lives in two places that change at different times:  *)
(* its entry in the dict _jobs, which clients poll, and its asyncio task.  *)
(* A task that is cancelled before its first tick never runs _run; its     *)
(* done callback, a later step of the loop, ends the entry instead.        *)
(***************************************************************************)
EXTENDS Naturals, FiniteSets

CONSTANTS
  MaxJobs,       \* BOUND: jobs ever started
  MaxFinished,   \* _MAX_FINISHED
  MaxBuffer,     \* _MAX_BUFFER_CHARS
  MaxChunk,      \* BOUND: characters in one chunk of output
  MaxCaptured,   \* BOUND: bytes a job may emit in its life
  MaxWidth,      \* the bytes of UTF-8's longest character
  StallSeconds,  \* _STALL_SECONDS
  MaxClock       \* BOUND: how long the server runs

ASSUME BoundsAssumption ==
  /\ MaxJobs \in Nat /\ MaxFinished \in Nat /\ MaxBuffer \in Nat /\ MaxChunk \in Nat
  /\ MaxCaptured \in Nat /\ MaxWidth \in Nat \ {0}
  /\ StallSeconds \in Nat \ {0} /\ MaxClock \in Nat

VARIABLES
  next,        \* the next value of _counter
  status,      \* Jobs -> the entry's status, or "absent" when it has no entry
  task,        \* Jobs -> the state of its asyncio task
  asked,       \* Jobs -> task.cancel() was called and not delivered yet
  hooked,      \* Jobs -> the done callback has not run yet
  captured,    \* Jobs -> _bytes_captured, in bytes of UTF-8
  stdout,      \* Jobs -> the length of _stdout_buffer, in characters
  stderr,      \* Jobs -> the length of _stderr_buffer, in characters
  clock,       \* datetime.now(), in seconds
  started,     \* Jobs -> _started_ts
  lastOutput   \* Jobs -> _last_output_ts, or Never

lifecycle == <<next, status, task, asked, hooked>>
output    == <<captured, stdout, stderr, lastOutput>>
vars      == <<lifecycle, output, clock, started>>

Jobs == 1..MaxJobs

Ended == {"completed", "failed", "cancelled"}

\* _last_output_ts of a job that has emitted nothing: after every clock value.
Never == MaxClock + 1

TypeOK ==
  /\ next \in 1..(MaxJobs + 1)
  /\ status \in [Jobs -> Ended \cup {"absent", "running"}]
  /\ task \in [Jobs -> {"none", "ready", "body", "done"}]
  /\ asked \in [Jobs -> BOOLEAN]
  /\ hooked \in [Jobs -> BOOLEAN]
  /\ captured \in [Jobs -> Nat]
  /\ stdout \in [Jobs -> 0..MaxBuffer]
  /\ stderr \in [Jobs -> 0..MaxBuffer]
  /\ clock \in 0..MaxClock
  /\ started \in [Jobs -> 0..MaxClock]
  /\ lastOutput \in [Jobs -> 0..Never]

Init ==
  /\ next = 1
  /\ status = [j \in Jobs |-> "absent"]
  /\ task = [j \in Jobs |-> "none"]
  /\ asked = [j \in Jobs |-> FALSE]
  /\ hooked = [j \in Jobs |-> FALSE]
  /\ captured = [j \in Jobs |-> 0]
  /\ stdout = [j \in Jobs |-> 0]
  /\ stderr = [j \in Jobs |-> 0]
  /\ clock = 0
  /\ started = [j \in Jobs |-> 0]
  /\ lastOutput = [j \in Jobs |-> Never]

Finished(st) == {j \in Jobs : st[j] \in Ended}

\* MUTANT: an entry is dropped whatever its status.
PrunedAny(st) ==
  [j \in Jobs |-> IF Cardinality({k \in Jobs : k >= j /\ st[k] # "absent"}) > MaxFinished
                  THEN "absent" ELSE st[j]]

\* MUTANT: the newest finished entries go.
PrunedNewest(st) ==
  [j \in Jobs |-> IF j \in Finished(st) /\ Cardinality({k \in Finished(st) : k <= j}) > MaxFinished
                  THEN "absent" ELSE st[j]]

\* _prune: of the finished entries, the MaxFinished started last stay.
Pruned(st) ==
  [j \in Jobs |-> IF j \in Finished(st) /\ Cardinality({k \in Finished(st) : k >= j}) > MaxFinished
                  THEN "absent" ELSE st[j]]

\* MUTANT: no done callback.
RegisterUnhooked ==
  /\ next <= MaxJobs
  /\ next' = next + 1
  /\ status' = Pruned([status EXCEPT ![next] = "running"])
  /\ task' = [task EXCEPT ![next] = "ready"]
  /\ started' = [started EXCEPT ![next] = clock]
  /\ UNCHANGED <<asked, hooked, output, clock>>

\* start_job and start_job_with_id: the task is created, the entry listed, the
\* callback added, and the registry pruned, all before the caller goes on.
Register ==
  /\ next <= MaxJobs
  /\ next' = next + 1
  /\ status' = Pruned([status EXCEPT ![next] = "running"])
  /\ task' = [task EXCEPT ![next] = "ready"]
  /\ hooked' = [hooked EXCEPT ![next] = TRUE]
  /\ started' = [started EXCEPT ![next] = clock]
  /\ UNCHANGED <<asked, output, clock>>

\* cancel_job, when it returns True.  On a task that is already done it
\* returns False and changes nothing.
CancelJob(j) ==
  /\ status[j] = "running"
  /\ task[j] # "done"
  /\ asked' = [asked EXCEPT ![j] = TRUE]
  /\ UNCHANGED <<next, status, task, hooked, output, clock, started>>

\* The loop's first step of the task: _run begins, or a cancellation that came
\* before it ends the task without running a line of it.
FirstTick(j) ==
  /\ task[j] = "ready"
  /\ task' = [task EXCEPT ![j] = IF asked[j] THEN "done" ELSE "body"]
  /\ asked' = [asked EXCEPT ![j] = FALSE]
  /\ UNCHANGED <<next, status, hooked, output, clock, started>>

\* The tail of _run: the coroutine returned, raised, or let a cancellation
\* through.  One that was asked to stop may still return or raise, because its
\* clean-up awaits too and its error wrapper turns exceptions into results.
BodyEnds(j) ==
  /\ task[j] = "body"
  /\ \E how \in Ended :
       /\ how = "cancelled" => asked[j]
       /\ status' = [status EXCEPT ![j] = how]
  /\ task' = [task EXCEPT ![j] = "done"]
  /\ asked' = [asked EXCEPT ![j] = FALSE]
  /\ UNCHANGED <<next, hooked, output, clock, started>>

\* MUTANT: every entry whose task is done becomes cancelled.
FinalizeAll(j) ==
  /\ hooked[j]
  /\ task[j] = "done"
  /\ hooked' = [hooked EXCEPT ![j] = FALSE]
  /\ status' = [status EXCEPT ![j] = IF @ = "absent" THEN @ ELSE "cancelled"]
  /\ UNCHANGED <<next, task, asked, output, clock, started>>

\* _finalize, the done callback: it ends an entry that _run did not.
Finalize(j) ==
  /\ hooked[j]
  /\ task[j] = "done"
  /\ hooked' = [hooked EXCEPT ![j] = FALSE]
  /\ status' = [status EXCEPT ![j] = IF @ = "running" THEN "cancelled" ELSE @]
  /\ UNCHANGED <<next, task, asked, output, clock, started>>

Least(a, b) == IF a < b THEN a ELSE b

\* MUTANT: a buffer that overflows starts again with the chunk.
AppendedAnew(old, n) == IF old + n <= MaxBuffer THEN old + n ELSE Least(n, MaxBuffer)

\* The length of (buffer + chunk)[-_MAX_BUFFER_CHARS:].
Appended(old, n) == Least(old + n, MaxBuffer)

\* update_job_output: an entry that is gone or over ignores the chunk.  What is
\* counted is the chunk in UTF-8, where a character takes one byte or more.
UpdateJobOutput(j, out, err, bytes) ==
  /\ status[j] = "running"
  /\ out + err > 0
  /\ bytes \in (out + err)..(MaxWidth * (out + err))
  /\ captured[j] + bytes <= MaxCaptured
  /\ captured' = [captured EXCEPT ![j] = @ + bytes]
  /\ lastOutput' = [lastOutput EXCEPT ![j] = clock]
  /\ stdout' = [stdout EXCEPT ![j] = Appended(@, out)]
  /\ stderr' = [stderr EXCEPT ![j] = Appended(@, err)]
  /\ UNCHANGED <<lifecycle, clock, started>>

Tick ==
  /\ clock < MaxClock
  /\ clock' = clock + 1
  /\ UNCHANGED <<lifecycle, output, started>>

LoopStep(j) == FirstTick(j) \/ BodyEnds(j) \/ Finalize(j)

Next ==
  \/ Register
  \/ \E j \in Jobs : CancelJob(j) \/ LoopStep(j)
  \/ \E j \in Jobs, out, err \in 0..MaxChunk, bytes \in 0..MaxCaptured :
       UpdateJobOutput(j, out, err, bytes)
  \/ Tick

Spec == Init /\ [][Next]_vars

\* The loop runs every ready callback, and the SSH command a job waits for is
\* bounded by the one hour timeout its handler sets.
FairSpec == Spec /\ \A j \in Jobs : WF_vars(LoopStep(j))

-----------------------------------------------------------------------------
(* What get_background_job reports.                                        *)

Running(j) == status[j] = "running"

\* Seconds without output; a job that never emitted is judged on its age.
Quiet(j) == clock - (IF lastOutput[j] = Never THEN started[j] ELSE lastOutput[j])

\* MUTANT: a job is still growing in the second it stalls.
OutputIsGrowingLate(j) ==
  Running(j) /\ lastOutput[j] # Never /\ Quiet(j) <= StallSeconds

OutputIsGrowing(j) == Running(j) /\ lastOutput[j] # Never /\ Quiet(j) < StallSeconds

StallWarning(j) == Running(j) /\ Quiet(j) >= StallSeconds

-----------------------------------------------------------------------------
(* Properties.                                                             *)

\* _run finds its entry (it indexes _jobs without a check), and an entry that
\* says "running" has a task, or a callback still to come, that will end it.
RunningIsBacked ==
  \A j \in Jobs :
    /\ task[j] \in {"ready", "body"} => Running(j)
    /\ Running(j) => task[j] \in {"ready", "body"} \/ (task[j] = "done" /\ hooked[j])

\* A job that emitted output and still runs is growing or stalled, never both;
\* one that has emitted nothing is not said to grow.
SignalsAgree ==
  \A j \in Jobs :
    /\ ~ (OutputIsGrowing(j) /\ StallWarning(j))
    /\ Running(j) /\ captured[j] > 0 => OutputIsGrowing(j) \/ StallWarning(j)
    /\ OutputIsGrowing(j) => captured[j] > 0

\* The two streams are trimmed apart and counted together: the counter never
\* falls behind what the buffers hold, a buffer keeps at most MaxBuffer characters,
\* and while neither has reached that limit everything counted is still in them
\* (at MaxWidth bytes a character or fewer), so that trimming loses nothing that fits.
OutputAccounted ==
  \A j \in Jobs :
    /\ stdout[j] <= MaxBuffer
    /\ stderr[j] <= MaxBuffer
    /\ stdout[j] + stderr[j] <= captured[j]
    /\ stdout[j] < MaxBuffer /\ stderr[j] < MaxBuffer =>
         captured[j] <= MaxWidth * (stdout[j] + stderr[j])

\* Starting a job leaves at most MaxFinished finished entries, forgets none
\* while there is room, and forgets only jobs started before every finished one
\* it keeps.
RetentionByStart ==
  [][next' # next =>
       LET gone == Finished(status) \ Finished(status')
           kept == Finished(status')
       IN  /\ Cardinality(kept) <= MaxFinished
           /\ gone # {} => Cardinality(kept) = MaxFinished
           /\ \A g \in gone, k \in kept : g < k]_vars

\* What the registry shows of a job, as a phase of its life.
Phase == [j \in Jobs |-> IF j >= next THEN "new"
                         ELSE IF status[j] = "absent" THEN "forgotten" ELSE status[j]]

Life == INSTANCE JobLifecycle WITH phase <- Phase

\* Each job goes through its life once, in order: a finished job keeps its
\* outcome whatever callback, cancel or output comes later, and no running job
\* is forgotten.
ImplementsJobLifecycle == Life!LifecycleSpec

\* Every job that is started ends, cancelled before its first tick or not.
JobsEnd == \A j \in Jobs : Running(j) ~> ~Running(j)
=============================================================================
