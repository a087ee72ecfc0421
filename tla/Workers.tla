------------------------------- MODULE Workers -------------------------------
(***************************************************************************)
(* What knitfab asks of Kubernetes for the worker of a run and hears of    *)
(* it: its pod and where it is placed, and the status of its Job.          *)
(***************************************************************************)
EXTENDS WorkerSpec, WorkloadStatus

WorkersBehavior == WorkerBehavior /\ WorkloadBehavior

\* Whatever a run mounts, its outputs and log have one writer each, and it is
\* placed where its on_node lets it (metasource.go).  Its Job is stuck if and
\* only if the newest event of a controller of one of its pods warns, and has
\* ended as Kubernetes says, with the exit code of one of its containers (Status
\* of Jobs and pods).
WorkersAreReal == OneWriter /\ PlacedAsAsked /\ StuckIffWarned /\ EndIsReal
=============================================================================
