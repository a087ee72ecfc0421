-------------------------------- MODULE Plans ----------------------------------
(***************************************************************************)
(* Plans: what users may ask for, and how plans are stored and told of.    *)
(***************************************************************************)
EXTENDS PlanSpec, PlanStore

PlansBehavior == RequestsBehavior /\ Spec

\* No two plans are the same or have mounts in each other, those who feed a plan are
\* those it is fed by, and a search finds all that have what it asks for (plan.go:
\* Validate, EquivPlan, Register, Find and the queries of neighbours).
PlansAreSound == MountsApart /\ NoTwins /\ TypeOK /\ UpstreamsMirror /\ FindsKnown
=============================================================================
