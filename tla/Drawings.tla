------------------------------- MODULE Drawings --------------------------------
(***************************************************************************)
(* The two graphs that the client draws, of runs and data and of plans.    *)
(***************************************************************************)
EXTENDS Lineage, PlanGraph

DrawingsBehavior == LineageBehavior /\ PlanGraphBehavior

\* A graph that the client draws has what was asked for, each arrow once and none that
\* is not there, while runs and plans come and go (knit data lineage, knit plan graph).
DrawnAsAsked == FindsWhatIsAsked /\ EveryArrowOnce /\ FindsPlansAsked /\ EveryFeedOnce
=============================================================================
