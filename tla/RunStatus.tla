------------------------------ MODULE RunStatus ------------------------------
(***************************************************************************)
(* The statuses of a run and the moves between them that the run store     *)
(* accepts (pkg/domain/run.go and setStatus of                             *)
(* pkg/domain/run/db/postgres/run.go).                                     *)
(***************************************************************************)

KnitRunStatus ==
    {"deactivated", "waiting", "ready", "starting", "running",
     "completing", "aborting", "done", "failed", "invalidated"}

\* A finished run has written its last result: only Retry or Delete move it.
Finished == {"done", "failed"}

\* The switch of setStatus on the current status, without its first two
\* cases: a finished or invalidated run is refused whatever is asked of it,
\* and asking for the current status changes nothing but a timer.
NextStatuses ==
    [s \in KnitRunStatus |->
        CASE s = "deactivated" -> {"waiting", "aborting"}
          [] s = "waiting"     -> {"deactivated", "ready", "aborting"}
          [] s = "ready"       -> {"starting", "running", "aborting", "completing"}
          [] s = "starting"    -> {"running", "aborting", "completing"}
          [] s = "running"     -> {"aborting", "completing"}
          [] s = "completing"  -> {"done"}
          [] s = "aborting"    -> {"failed"}
          [] OTHER             -> {}]

\* What finish() turns a stopping run into.
FinishedStatus(s) == IF s = "completing" THEN "done" ELSE "failed"
=============================================================================
