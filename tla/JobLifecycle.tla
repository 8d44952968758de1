--------------------------- MODULE JobLifecycle ---------------------------
(***************************************************************************)
(* What a client that polls a background job may rely on: a job is new,    *)
(* then running, then over in exactly one way, and then forgotten.  It     *)
(* never goes back, and nothing forgets it while it runs.  BackgroundJobs  *)
(* implements it.                                                          *)
(***************************************************************************)
CONSTANT Jobs

VARIABLE phase

Over == {"completed", "failed", "cancelled"}

Legal == {<<"new", "running">>}
         \cup {<<"running", o>> : o \in Over}
         \cup {<<o, "forgotten">> : o \in Over}

AllNew == phase = [j \in Jobs |-> "new"]

Advance == \A j \in Jobs : phase'[j] = phase[j] \/ <<phase[j], phase'[j]>> \in Legal

LifecycleSpec == AllNew /\ [][Advance]_phase
=============================================================================
