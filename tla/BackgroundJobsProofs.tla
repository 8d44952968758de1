----------------------- MODULE BackgroundJobsProofs -----------------------
(***************************************************************************)
(* The registry of background jobs, proved for every number of jobs and    *)
(* every limit.  The inductive invariant says where a job is: what is true *)
(* of its task, its callback and its entry together.  What pruning forgets *)
(* is a matter of counting finished entries in the order of their numbers. *)
(***************************************************************************)
EXTENDS BackgroundJobs, Integers, FiniteSetTheorems, TLAPS

\* A job not started yet has no entry and no task.
NotStarted == \A j \in Jobs : j >= next => status[j] = "absent" /\ task[j] = "none"

\* The callback of a task that is not done is still to come.
Hooked == \A j \in Jobs : task[j] \in {"ready", "body"} => hooked[j]

\* A job has emitted output exactly when its last output has a time.
OutputTimed == \A j \in Jobs : captured[j] > 0 <=> lastOutput[j] # Never

IInv ==
  /\ TypeOK
  /\ NotStarted
  /\ Hooked
  /\ RunningIsBacked
  /\ OutputTimed
  /\ OutputAccounted

\* _prune forgets finished entries and nothing else.
LEMMA PrunedFacts ==
  ASSUME NEW st \in [Jobs -> Ended \cup {"absent", "running"}], NEW j \in Jobs
  PROVE  /\ Pruned(st) \in [Jobs -> Ended \cup {"absent", "running"}]
         /\ Pruned(st)[j] = st[j] \/ (st[j] \in Ended /\ Pruned(st)[j] = "absent")
  BY DEF Pruned, Finished

\* The length of a trimmed buffer.
LEMMA AppendedFacts ==
  ASSUME NEW old \in 0..MaxBuffer, NEW n \in Nat
  PROVE  /\ Appended(old, n) \in 0..MaxBuffer
         /\ Appended(old, n) <= old + n
         /\ Appended(old, n) < MaxBuffer => Appended(old, n) = old + n
  BY BoundsAssumption DEF Appended, Least

\* The registry starts empty.
LEMMA Starts == Init => IInv
  BY BoundsAssumption
  DEF Init, IInv, TypeOK, NotStarted, Hooked, RunningIsBacked, OutputTimed,
      OutputAccounted, Running, Jobs, Ended, Never

\* register: only the new job gets an entry, only finished ones lose theirs.
LEMMA RegisterKeeps == IInv /\ Register => IInv'
<1> SUFFICES ASSUME IInv, Register PROVE IInv'
  OBVIOUS
<1> DEFINE st == [status EXCEPT ![next] = "running"]
<1> USE DEF IInv
<1>0. next \in Jobs /\ next \in Nat
  BY BoundsAssumption DEF TypeOK, Register, Jobs
<1>1. st \in [Jobs -> Ended \cup {"absent", "running"}]
  BY <1>0 DEF TypeOK
<1>2. status' = Pruned(st)
  BY DEF Register
<1>3. \A j \in Jobs : \/ status'[j] = st[j]
                      \/ st[j] \in Ended /\ status'[j] = "absent"
  BY <1>1, <1>2, PrunedFacts
<1>4. \A j \in Jobs : j # next => st[j] = status[j] /\ task'[j] = task[j] /\ hooked'[j] = hooked[j]
  BY <1>0 DEF TypeOK, Register
<1>5. st[next] = "running" /\ task'[next] = "ready" /\ hooked'[next] = TRUE
  BY <1>0 DEF TypeOK, Register
<1>6. TypeOK'
  <2>1. status' \in [Jobs -> Ended \cup {"absent", "running"}]
    BY <1>1, <1>2, PrunedFacts, <1>0
  <2>2. next' \in 1..(MaxJobs + 1)
    BY BoundsAssumption DEF TypeOK, Register
  <2> QED
    BY <1>0, <2>1, <2>2, BoundsAssumption DEF TypeOK, Register, output
<1>7. NotStarted'
  <2> SUFFICES ASSUME NEW j \in Jobs, j >= next'
               PROVE  status'[j] = "absent" /\ task'[j] = "none"
    BY DEF NotStarted
  <2>1. j >= next /\ j # next
    BY <1>0 DEF Register, Jobs
  <2> QED
    BY <2>1, <1>3, <1>4 DEF NotStarted, Ended
<1>8. Hooked'
  BY <1>4, <1>5 DEF Hooked
<1>9. RunningIsBacked'
  <2> SUFFICES ASSUME NEW j \in Jobs
               PROVE  /\ task'[j] \in {"ready", "body"} => status'[j] = "running"
                      /\ status'[j] = "running" =>
                           task'[j] \in {"ready", "body"} \/ (task'[j] = "done" /\ hooked'[j])
    BY DEF RunningIsBacked, Running
  <2>1. CASE j = next
    BY <2>1, <1>3, <1>5 DEF Ended
  <2>2. CASE j # next
    BY <2>2, <1>3, <1>4 DEF RunningIsBacked, Running, Ended
  <2> QED
    BY <2>1, <2>2
<1>10. OutputTimed' /\ OutputAccounted'
  BY DEF OutputTimed, OutputAccounted, Register, output
<1> QED
  BY <1>6, <1>7, <1>8, <1>9, <1>10

LEMMA Distributes ==
  ASSUME NEW w \in Nat, NEW a \in Nat, NEW b \in Nat
  PROVE  w * (a + b) = w * a + w * b
OBVIOUS

\* update_job_output: the counter grows by the bytes of the chunk, the
\* buffers by at most its characters.
LEMMA OutputKeeps ==
  ASSUME IInv, NEW j \in Jobs, NEW out \in 0..MaxChunk, NEW err \in 0..MaxChunk,
         NEW bytes \in 0..MaxCaptured, UpdateJobOutput(j, out, err, bytes)
  PROVE  IInv'
<1> USE DEF IInv
<1>1. /\ out \in Nat /\ err \in Nat /\ clock < Never /\ clock \in Nat
      /\ bytes \in Nat /\ out + err > 0 /\ MaxWidth \in Nat
      /\ bytes >= out + err /\ bytes <= MaxWidth * (out + err)
  <2>1. MaxWidth \in Nat /\ out \in Nat /\ err \in Nat /\ bytes \in Nat
    BY BoundsAssumption
  <2>2. MaxWidth * (out + err) \in Nat
    BY <2>1
  <2> QED
    BY <2>1, <2>2, BoundsAssumption DEF TypeOK, Never, UpdateJobOutput
<1>2. stdout[j] \in 0..MaxBuffer /\ stderr[j] \in 0..MaxBuffer /\ captured[j] \in Nat
  BY DEF TypeOK
<1>3. TypeOK'
  <2>1. captured' \in [Jobs -> Nat]
    BY <1>1, <1>2 DEF TypeOK, UpdateJobOutput
  <2>2. stdout' \in [Jobs -> 0..MaxBuffer] /\ stderr' \in [Jobs -> 0..MaxBuffer]
    BY <1>1, <1>2, AppendedFacts DEF TypeOK, UpdateJobOutput
  <2>3. lastOutput' \in [Jobs -> 0..Never]
    BY BoundsAssumption DEF TypeOK, UpdateJobOutput, Never
  <2> QED
    BY <2>1, <2>2, <2>3 DEF TypeOK, UpdateJobOutput, lifecycle
<1>4. NotStarted' /\ Hooked' /\ RunningIsBacked'
  BY DEF NotStarted, Hooked, RunningIsBacked, Running, UpdateJobOutput, lifecycle
<1>5. OutputTimed'
  <2> SUFFICES ASSUME NEW k \in Jobs
               PROVE  captured'[k] > 0 <=> lastOutput'[k] # Never
    BY DEF OutputTimed, Never, UpdateJobOutput
  <2>1. CASE k = j
    BY <1>1, <1>2, <2>1, BoundsAssumption DEF TypeOK, UpdateJobOutput, Never
  <2>2. CASE k # j
    BY <2>2 DEF TypeOK, UpdateJobOutput, OutputTimed
  <2> QED
    BY <2>1, <2>2
<1>6. OutputAccounted'
  <2> SUFFICES ASSUME NEW k \in Jobs
               PROVE  /\ stdout'[k] <= MaxBuffer
                      /\ stderr'[k] <= MaxBuffer
                      /\ stdout'[k] + stderr'[k] <= captured'[k]
                      /\ stdout'[k] < MaxBuffer /\ stderr'[k] < MaxBuffer
                           => captured'[k] <= MaxWidth * (stdout'[k] + stderr'[k])
    BY DEF OutputAccounted
  <2>1. CASE k = j
    <3>1. /\ stdout'[j] = Appended(stdout[j], out)
          /\ stderr'[j] = Appended(stderr[j], err)
          /\ captured'[j] = captured[j] + bytes
      BY DEF TypeOK, UpdateJobOutput
    <3>2. /\ Appended(stdout[j], out) \in 0..MaxBuffer
          /\ Appended(stdout[j], out) <= stdout[j] + out
          /\ Appended(stdout[j], out) < MaxBuffer => Appended(stdout[j], out) = stdout[j] + out
      BY <1>1, <1>2, AppendedFacts
    <3>3. /\ Appended(stderr[j], err) \in 0..MaxBuffer
          /\ Appended(stderr[j], err) <= stderr[j] + err
          /\ Appended(stderr[j], err) < MaxBuffer => Appended(stderr[j], err) = stderr[j] + err
      BY <1>1, <1>2, AppendedFacts
    <3>4. /\ stdout[j] + stderr[j] <= captured[j]
          /\ stdout[j] < MaxBuffer /\ stderr[j] < MaxBuffer
               => captured[j] <= MaxWidth * (stdout[j] + stderr[j])
      BY DEF OutputAccounted
    <3>5. stdout'[j] + stderr'[j] <= captured'[j]
      BY <3>1, <3>2, <3>3, <3>4, <1>1, <1>2, BoundsAssumption
    <3>6. ASSUME stdout'[j] < MaxBuffer, stderr'[j] < MaxBuffer
          PROVE  captured'[j] <= MaxWidth * (stdout'[j] + stderr'[j])
      <4>1. /\ stdout'[j] = stdout[j] + out /\ stderr'[j] = stderr[j] + err
            /\ stdout[j] < MaxBuffer /\ stderr[j] < MaxBuffer
        BY <3>1, <3>2, <3>3, <3>6, <1>1, <1>2, BoundsAssumption
      <4>2. captured[j] <= MaxWidth * (stdout[j] + stderr[j])
        BY <4>1, <3>4
      <4>3. MaxWidth * (stdout'[j] + stderr'[j])
              = MaxWidth * (stdout[j] + stderr[j]) + MaxWidth * (out + err)
        <5>1. stdout'[j] + stderr'[j] = (stdout[j] + stderr[j]) + (out + err)
          BY <4>1, <1>1, <1>2
        <5> QED
          BY <5>1, <1>1, <1>2, Distributes
      <4>4. MaxWidth * (stdout[j] + stderr[j]) \in Nat /\ MaxWidth * (out + err) \in Nat
        BY <1>1, <1>2
      <4> QED
        BY <4>2, <4>3, <4>4, <3>1, <1>1, <1>2
    <3> QED
      BY <2>1, <3>1, <3>2, <3>3, <3>5, <3>6, <1>1, <1>2, BoundsAssumption
  <2>2. CASE k # j
    BY <2>2 DEF TypeOK, UpdateJobOutput, OutputAccounted
  <2> QED
    BY <2>1, <2>2
<1> QED
  BY <1>3, <1>4, <1>5, <1>6

\* The steps of the event loop, a cancel, a tick of the clock.
LEMMA LoopKeeps ==
  ASSUME IInv, NEW j \in Jobs, CancelJob(j) \/ LoopStep(j)
  PROVE  IInv'
<1> USE DEF IInv
<1>1. CASE CancelJob(j)
  BY <1>1 DEF CancelJob, TypeOK, NotStarted, Hooked, RunningIsBacked, Running,
     OutputTimed, OutputAccounted, output
<1>2. CASE FirstTick(j)
  <2>1. TypeOK'
    BY <1>2 DEF FirstTick, TypeOK, output
  <2>2. NotStarted' /\ Hooked' /\ RunningIsBacked'
    BY <1>2 DEF FirstTick, TypeOK, NotStarted, Hooked, RunningIsBacked, Running
  <2>3. OutputTimed' /\ OutputAccounted'
    BY <1>2 DEF FirstTick, OutputTimed, OutputAccounted, output
  <2> QED
    BY <2>1, <2>2, <2>3
<1>3. CASE BodyEnds(j)
  <2>1. TypeOK'
    BY <1>3 DEF BodyEnds, TypeOK, output
  <2>2. NotStarted' /\ Hooked' /\ RunningIsBacked'
    BY <1>3 DEF BodyEnds, TypeOK, NotStarted, Hooked, RunningIsBacked, Running, Ended
  <2>3. OutputTimed' /\ OutputAccounted'
    BY <1>3 DEF BodyEnds, OutputTimed, OutputAccounted, output
  <2> QED
    BY <2>1, <2>2, <2>3
<1>4. CASE Finalize(j)
  <2>1. TypeOK'
    BY <1>4 DEF Finalize, TypeOK, output, Ended
  <2>2. NotStarted' /\ Hooked' /\ RunningIsBacked'
    BY <1>4 DEF Finalize, TypeOK, NotStarted, Hooked, RunningIsBacked, Running
  <2>3. OutputTimed' /\ OutputAccounted'
    BY <1>4 DEF Finalize, OutputTimed, OutputAccounted, output
  <2> QED
    BY <2>1, <2>2, <2>3
<1> QED
  BY <1>1, <1>2, <1>3, <1>4 DEF LoopStep

LEMMA Steps == IInv /\ [Next]_vars => IInv'
<1> SUFFICES ASSUME IInv, [Next]_vars PROVE IInv'
  OBVIOUS
<1>1. CASE Register
  BY <1>1, RegisterKeeps
<1>2. CASE \E j \in Jobs : CancelJob(j) \/ LoopStep(j)
  BY <1>2, LoopKeeps
<1>3. CASE \E j \in Jobs, out, err \in 0..MaxChunk, bytes \in 0..MaxCaptured :
             UpdateJobOutput(j, out, err, bytes)
  BY <1>3, OutputKeeps
<1>4. CASE Tick
  BY <1>4, BoundsAssumption DEF Tick, IInv, TypeOK, NotStarted, Hooked, RunningIsBacked, Running,
     OutputTimed, OutputAccounted, lifecycle, output
<1>5. CASE UNCHANGED vars
  BY <1>5 DEF vars, IInv, TypeOK, NotStarted, Hooked, RunningIsBacked, Running,
     OutputTimed, OutputAccounted, lifecycle, output
<1> QED
  BY <1>1, <1>2, <1>3, <1>4, <1>5 DEF Next

THEOREM Invariance == Spec => []IInv
  BY Starts, Steps, PTL DEF Spec

\* Every value stays in its type: buffers never exceed _MAX_BUFFER_CHARS.
THEOREM TypeCorrect == Spec => []TypeOK
<1>1. IInv => TypeOK
  BY DEF IInv
<1> QED
  BY <1>1, Invariance, PTL

\* _run always finds its entry, and no entry says "running" with nothing left
\* in the event loop that would end it.
THEOREM RunningJobsAreBacked == Spec => []RunningIsBacked
<1>1. IInv => RunningIsBacked
  BY DEF IInv
<1> QED
  BY <1>1, Invariance, PTL

\* update_job_output loses nothing that fits and counts everything.
THEOREM OutputIsAccounted == Spec => []OutputAccounted
<1>1. IInv => OutputAccounted
  BY DEF IInv
<1> QED
  BY <1>1, Invariance, PTL

\* A running job that emitted output is growing or stalled, and never both.
THEOREM SignalsNeverDisagree == Spec => []SignalsAgree
<1>1. ASSUME IInv PROVE SignalsAgree
  <2> SUFFICES ASSUME NEW j \in Jobs
               PROVE  /\ ~ (OutputIsGrowing(j) /\ StallWarning(j))
                      /\ Running(j) /\ captured[j] > 0 => OutputIsGrowing(j) \/ StallWarning(j)
                      /\ OutputIsGrowing(j) => captured[j] > 0
    BY DEF SignalsAgree
  <2>1. captured[j] > 0 <=> lastOutput[j] # Never
    BY <1>1 DEF IInv, OutputTimed
  <2>2. Quiet(j) \in Int /\ StallSeconds \in Int
    BY <1>1, BoundsAssumption DEF IInv, TypeOK, Quiet, Never
  <2> QED
    BY <2>1, <2>2 DEF OutputIsGrowing, StallWarning
<1> QED
  BY <1>1, Invariance, PTL

\* Every job goes through its life once and in order.
THEOREM ImplementsLifecycle == Spec => ImplementsJobLifecycle
<1>1. Init => Life!AllNew
  BY BoundsAssumption DEF Init, Life!AllNew, Phase, Jobs
<1>2. ASSUME IInv, [Next]_vars PROVE [Life!Advance]_Phase
  <2> USE DEF IInv
  <2>0. SUFFICES ASSUME NEW j \in Jobs
                 PROVE  Phase'[j] = Phase[j] \/ <<Phase[j], Phase'[j]>> \in Life!Legal
    BY DEF Life!Advance
  <2>1. /\ Phase[j] = IF j >= next THEN "new"
                      ELSE IF status[j] = "absent" THEN "forgotten" ELSE status[j]
        /\ Phase'[j] = IF j >= next' THEN "new"
                       ELSE IF status'[j] = "absent" THEN "forgotten" ELSE status'[j]
    BY DEF Phase
  <2>2. CASE Register
    <3> DEFINE st == [status EXCEPT ![next] = "running"]
    <3>1. next \in Jobs /\ next \in Nat /\ next' = next + 1 /\ j \in Nat
      BY <1>2, <2>2, BoundsAssumption DEF TypeOK, Register, Jobs
    <3>2. \/ status'[j] = st[j]
          \/ st[j] \in Ended /\ status'[j] = "absent"
      BY <1>2, <2>2, <3>1, PrunedFacts DEF TypeOK, Register
    <3>3. CASE j = next
      BY <1>2, <2>1, <3>1, <3>2, <3>3 DEF TypeOK, Life!Legal, Ended
    <3>4. CASE j # next
      <4>1. st[j] = status[j] /\ status[j] \in Ended \cup {"absent", "running"}
        BY <1>2, <3>4, <3>1 DEF TypeOK
      <4> QED
        BY <1>2, <2>1, <3>1, <3>2, <3>4, <4>1 DEF Life!Legal, Life!Over, Ended
    <3> QED
      BY <3>3, <3>4
  <2>3. CASE \E k \in Jobs : BodyEnds(k) \/ Finalize(k)
    <3>1. PICK k \in Jobs : BodyEnds(k) \/ Finalize(k)
      BY <2>3
    <3>2. next' = next /\ (j # k => status'[j] = status[j])
      BY <1>2, <3>1 DEF BodyEnds, Finalize, TypeOK
    <3>3. status'[k] = status[k] \/ (status[k] = "running" /\ status'[k] \in Ended)
      BY <1>2, <3>1 DEF BodyEnds, Finalize, TypeOK, RunningIsBacked, Running, Ended
    <3>4. status[k] = "running" => ~ (k >= next)
      BY <1>2 DEF NotStarted
    <3> QED
      BY <2>1, <3>2, <3>3, <3>4 DEF Life!Legal, Life!Over, Ended
  <2>4. CASE UNCHANGED <<next, status>>
    BY <2>1, <2>4
  <2> QED
    BY <1>2, <2>2, <2>3, <2>4
    DEF Next, LoopStep, CancelJob, FirstTick, UpdateJobOutput, Tick, vars, lifecycle
<1> QED
  BY <1>1, <1>2, Invariance, PTL DEF Spec, ImplementsJobLifecycle, Life!LifecycleSpec

-----------------------------------------------------------------------------
(* Retention: what _prune keeps is counted, so it needs facts about finite *)
(* sets of numbers.  Induction over a set comes from the pigeonhole        *)
(* principle of the library.                                               *)

LEMMA SetInduction ==
  ASSUME NEW S, 0 \in S, \A i \in Nat : i \in S => i + 1 \in S
  PROVE  Nat \subseteq S
<1> SUFFICES ASSUME NEW n \in Nat, n \notin S PROVE FALSE
  OBVIOUS
<1> DEFINE A == {i \in 0..n : i \in S}
           f == [i \in A |-> i + 1]
<1>1. IsFiniteSet(A)
  <2>1. IsFiniteSet(0..n)
    BY FS_Interval
  <2>2. A \in SUBSET (0..n)
    OBVIOUS
  <2> HIDE DEF A
  <2> QED
    BY <2>1, <2>2, FS_Subset
<1>2. /\ IsFiniteSet(A \ {0}) /\ Cardinality(A \ {0}) = Cardinality(A) - 1
      /\ Cardinality(A) \in Nat
  <2>1. 0 \in A
    OBVIOUS
  <2> HIDE DEF A
  <2> QED
    BY <1>1, <2>1, FS_RemoveElement, FS_CardinalityType
<1>3. f \in [A -> A \ {0}]
  <2> SUFFICES ASSUME NEW i \in A PROVE i + 1 \in A \ {0}
    OBVIOUS
  <2>1. i # n
    OBVIOUS
  <2> QED
    BY <2>1
<1>4. \A x, y \in A : x # y => f[x] # f[y]
  OBVIOUS
<1> HIDE DEF A, f
<1> QED
  BY <1>1, <1>2, <1>3, <1>4, FS_PigeonHole

\* A set of numbers with an upper bound has a greatest element.
LEMMA Greatest ==
  ASSUME NEW n \in Nat, NEW S \in SUBSET (1..n), S # {}
  PROVE  \E g \in S : \A k \in S : k <= g
<1> SUFFICES ASSUME \A g \in S : \E k \in S : ~(k <= g) PROVE FALSE
  OBVIOUS
<1> DEFINE T == {i \in Nat : \A k \in S : k <= n - i}
<1>1. 0 \in T
  OBVIOUS
<1>2. ASSUME NEW i \in Nat, i \in T PROVE i + 1 \in T
  <2>1. n - i \notin S
    BY <1>2
  <2>2. \A k \in S : k <= n - i /\ k # n - i
    BY <1>2, <2>1
  <2> QED
    BY <2>2
<1>3. n \in T
  <2> HIDE DEF T
  <2> QED
    BY <1>1, <1>2, SetInduction
<1>4. PICK k \in S : k \in 1..n
  OBVIOUS
<1> QED
  BY <1>3, <1>4

LEMMA Lowest ==
  ASSUME NEW n \in Nat, NEW S \in SUBSET (1..n), S # {}
  PROVE  \E l \in S : \A k \in S : l <= k
<1> SUFFICES ASSUME \A l \in S : \E k \in S : ~(l <= k) PROVE FALSE
  OBVIOUS
<1> DEFINE T == {i \in Nat : \A k \in S : i < k}
<1>1. 0 \in T
  OBVIOUS
<1>2. ASSUME NEW i \in Nat, i \in T PROVE i + 1 \in T
  <2>1. i + 1 \notin S
    BY <1>2
  <2>2. \A k \in S : i < k /\ k # i + 1
    BY <1>2, <2>1
  <2> QED
    BY <2>2
<1>3. n \in T
  <2> HIDE DEF T
  <2> QED
    BY <1>1, <1>2, SetInduction
<1>4. PICK k \in S : k \in 1..n
  OBVIOUS
<1> QED
  BY <1>3, <1>4

\* The finished jobs from j on.
From(F, j) == {k \in F : k >= j}

\* What _prune keeps of a set of finished jobs: at most MaxFinished, exactly as many
\* when it forgets any, and the latest.
LEMMA KeptFacts ==
  ASSUME NEW F \in SUBSET Jobs
  PROVE  LET kept == {j \in F : ~(Cardinality(From(F, j)) > MaxFinished)} IN
         /\ Cardinality(kept) <= MaxFinished
         /\ F \ kept # {} => Cardinality(kept) = MaxFinished
         /\ \A g \in F \ kept, k \in kept : g < k
<1> DEFINE kept == {j \in F : ~(Cardinality(From(F, j)) > MaxFinished)}
<1>0. Jobs \subseteq Nat /\ IsFiniteSet(F) /\ IsFiniteSet(kept)
  <2>1. IsFiniteSet(Jobs) /\ Jobs \subseteq Nat
    BY FS_Interval, BoundsAssumption DEF Jobs
  <2> QED
    BY <2>1, FS_Subset
<1>1. \A j \in F : IsFiniteSet(From(F, j)) /\ Cardinality(From(F, j)) \in Nat
  BY <1>0, FS_Subset, FS_CardinalityType DEF From
<1>2. MaxFinished \in Nat /\ Cardinality(kept) \in Nat
  BY <1>0, FS_CardinalityType, BoundsAssumption
<1>3. \A g \in F \ kept, k \in kept : g < k
  <2> SUFFICES ASSUME NEW g \in F, NEW k \in kept, k <= g
               PROVE  Cardinality(From(F, g)) <= MaxFinished
    BY <1>0, <1>1, <1>2
  <2>1. From(F, g) \subseteq From(F, k)
    <3> SUFFICES ASSUME NEW x \in F, x >= g PROVE x >= k
      BY DEF From
    <3>1. x \in Nat /\ g \in Nat /\ k \in Nat
      BY <1>0
    <3> QED
      BY <3>1
  <2>2. Cardinality(From(F, g)) <= Cardinality(From(F, k))
    BY <2>1, <1>1, FS_Subset
  <2> QED
    BY <2>2, <1>1, <1>2
<1>4. Cardinality(kept) <= MaxFinished
  <2>1. CASE kept = {}
    BY <2>1, <1>2, FS_EmptySet
  <2>2. CASE kept # {}
    <3>1. PICK l \in kept : \A k \in kept : l <= k
      BY <2>2, Lowest, BoundsAssumption DEF Jobs
    <3>2. kept \subseteq From(F, l)
      BY <3>1, <1>0 DEF From
    <3>3. Cardinality(kept) <= Cardinality(From(F, l))
      BY <3>2, <1>1, FS_Subset
    <3> QED
      BY <3>3, <1>1, <1>2
  <2> QED
    BY <2>1, <2>2
<1>5. ASSUME F \ kept # {} PROVE Cardinality(kept) = MaxFinished
  <2>1. PICK g \in F \ kept : \A k \in F \ kept : k <= g
    BY <1>5, Greatest, BoundsAssumption DEF Jobs
  <2>2. From(F, g) = kept \cup {g} /\ g \notin kept
    <3>1. ASSUME NEW x \in F PROVE x >= g <=> x \in kept \/ x = g
      <4>1. x \in Nat /\ g \in Nat /\ (x \notin kept => x <= g) /\ (x \in kept => g < x)
        BY <1>0, <2>1, <1>3
      <4> QED
        BY <4>1
    <3> QED
      BY <3>1 DEF From
  <2>3. Cardinality(From(F, g)) = Cardinality(kept) + 1
    BY <2>2, <1>0, FS_AddElement
  <2>4. Cardinality(From(F, g)) > MaxFinished
    BY <2>1
  <2> QED
    BY <2>3, <2>4, <1>2, <1>4
<1> QED
  BY <1>3, <1>4, <1>5

\* Starting a job forgets finished entries only beyond MaxFinished, oldest first.
THEOREM OldestAreForgotten == Spec => RetentionByStart
<1> DEFINE gone == Finished(status) \ Finished(status')
           kept == Finished(status')
           Retains == /\ Cardinality(kept) <= MaxFinished
                      /\ gone # {} => Cardinality(kept) = MaxFinished
                      /\ \A g \in gone, k \in kept : g < k
<1>1. ASSUME IInv, [Next]_vars, next' # next PROVE Retains
  <2> DEFINE st == [status EXCEPT ![next] = "running"]
             F == Finished(status)
  <2>1. Register
    BY <1>1 DEF Next, LoopStep, CancelJob, FirstTick, BodyEnds, Finalize, UpdateJobOutput,
       Tick, vars, lifecycle
  <2>2. next \in Jobs /\ status \in [Jobs -> Ended \cup {"absent", "running"}]
    BY <1>1, <2>1, BoundsAssumption DEF IInv, TypeOK, Register, Jobs
  <2>e. status[next] \notin Ended
    BY <1>1, <2>2 DEF IInv, NotStarted, TypeOK, Ended, Jobs
  <2>3. Finished(st) = F
    BY <2>2, <2>e DEF Finished, Ended
  <2>4. status' = [j \in Jobs |-> IF j \in F /\ Cardinality(From(F, j)) > MaxFinished
                                  THEN "absent" ELSE st[j]]
    <3>1. status' = Pruned(st)
      BY <2>1 DEF Register
    <3> HIDE DEF st, F
    <3> QED
      BY <3>1, <2>3 DEF Pruned, From
  <2>5. Finished(status') = {j \in F : ~(Cardinality(From(F, j)) > MaxFinished)}
    <3>1. \A j \in Jobs : st[j] \in Ended <=> j \in F
      BY <2>3 DEF Finished
    <3>2. "absent" \notin Ended /\ F \in SUBSET Jobs
      BY DEF Ended, Finished
    <3> HIDE DEF st, F
    <3> QED
      BY <2>4, <3>1, <3>2 DEF Finished
  <2>6. F \in SUBSET Jobs
    BY DEF Finished
  <2> HIDE DEF F
  <2> QED
    BY <2>5, <2>6, KeptFacts DEF F
<1>2. IInv /\ [Next]_vars => [next' # next => Retains]_vars
  BY <1>1
<1> QED
  BY <1>2, Invariance, PTL DEF Spec, RetentionByStart
=============================================================================
