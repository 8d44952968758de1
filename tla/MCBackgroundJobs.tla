-------------------------- MODULE MCBackgroundJobs --------------------------
(***************************************************************************)
(* BackgroundJobs for TLC.  Jobs meet one another only in the retention of *)
(* finished entries, and a job meets the clock only in what its poll       *)
(* reports.  So either one job runs, with output and a clock, or several   *)
(* do, of which none emits anything and for which no time passes.          *)
(***************************************************************************)
EXTENDS BackgroundJobs

Silent == clock = 0 /\ \A j \in Jobs : captured[j] = 0

MCNext == Next /\ (next' <= 2 \/ Silent')

MCSpec ==
  /\ Init /\ [][MCNext]_vars
  /\ \A j \in Jobs : WF_vars(LoopStep(j))
=============================================================================
