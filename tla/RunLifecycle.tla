----------------------------- MODULE RunLifecycle ----------------------------
(***************************************************************************)
(* What the life of a run promises to everything that watches runs, with   *)
(* no word about transactions, loops or the cluster: RunStore (the         *)
(* database) and RunLoops (the loops at work on it) both implement it.     *)
(***************************************************************************)
EXTENDS RunStatus

CONSTANT Run

VARIABLES
    status, \* [Run -> a status, "none" before the run, "gone" after]
    worker  \* the runs a worker may exist for

Init == status = [r \in Run |-> "none"] /\ worker = {}

\* A run begins: it waits, its worker named; uploads and imports run at once.
Begin(r) ==
    /\ status[r] = "none"
    /\ \/ status'[r] \in {"waiting", "deactivated"} /\ r \in worker'
       \/ status'[r] = "running" /\ r \notin worker'

Advance(r) ==
    /\ status[r] \in KnitRunStatus
    /\ status'[r] \in NextStatuses[status[r]] \ Finished
    /\ r \in worker' <=> r \in worker

\* A stopping run gives its worker up, and then it is finished.
CleanUp(r) ==
    /\ status[r] \in {"completing", "aborting"} /\ status'[r] = status[r]
    /\ r \notin worker'

Finish(r) ==
    /\ status[r] \in {"completing", "aborting"} /\ r \notin worker
    /\ status'[r] = FinishedStatus(status[r]) /\ r \notin worker'

Retry(r) ==
    /\ status[r] \in Finished /\ r \notin worker
    /\ status'[r] = "waiting" /\ r \in worker'

\* A run is discarded when no worker of it is left, and then it may be
\* forgotten.
Discard(r) ==
    /\ status[r] \in Finished \cup {"waiting", "deactivated", "invalidated"}
    /\ r \notin worker
    /\ status'[r] \in {"invalidated", "gone"} /\ r \notin worker'

Stay(r) == status'[r] = status[r] /\ (r \in worker' <=> r \in worker)

\* Several runs may move at once.
Next ==
    \A r \in Run :
        Begin(r) \/ Advance(r) \/ CleanUp(r) \/ Finish(r) \/ Retry(r) \/ Discard(r) \/ Stay(r)

Spec == Init /\ [][Next]_<<status, worker>>
=============================================================================
