------------------------------ MODULE PlanGraph -----------------------------
(***************************************************************************)
(* `knit plan graph`: from one plan up, and then down, one request to the  *)
(* server per plan, while plans are registered.  An arrow goes from an     *)
(* output or the log of a plan to an input of another.                     *)
(***************************************************************************)
EXTENDS KnitGraph, FiniteSets

CONSTANTS
    PlanNode,
    Rank,      \* [plan -> a number], as plans feed no plan that feeds them
    Pipelines, \* sets of arrows: what feeds what, once all are registered
    MaxNew     \* bound: plans registered while the client traces

VARIABLES
    feeds, registered, atStart, \* the pipeline; the plans now, and at first
    wanted,                     \* root, up, down and number
    planGraph,
    toldOf,      \* [plan -> the arrows the server told of it]
    stage,       \* "start", "up", "down", "printed"
    left,        \* rounds left
    leaves, grown \* the plans to go on from, now and in the next round

planServer == <<feeds, registered, atStart, wanted>>
planWalk == <<planGraph, toldOf, stage, left, leaves, grown>>
planGraphVars == <<planServer, planWalk>>

\* Register refuses circles.
PlanGraphAssumption ==
    /\ DepthAssumption /\ MaxNew \in Nat /\ Rank \in [PlanNode -> Nat]
    /\ \A h \in Pipelines : \A a \in h : a.from \in PlanNode /\ a.to \in PlanNode /\ Rank[a.from] < Rank[a.to]

Stated(p) == {a \in feeds : p \in {a.from, a.to} /\ {a.from, a.to} \subseteq registered}

\* Neither flag is both; a flag that is given leaves the other one false.
PlanGraphInit ==
    /\ feeds \in Pipelines /\ registered \in SUBSET PlanNode /\ atStart = registered
    /\ wanted \in [root : registered, up : BOOLEAN, down : BOOLEAN, number : Depths] /\ (wanted.up \/ wanted.down)
    /\ planGraph = EmptyGraph(feeds) /\ toldOf = [p \in PlanNode |-> {}]
    /\ stage = "start" /\ left = wanted.number /\ leaves = {} /\ grown = {}

\* Register: what it puts out may be taken by plans that are there, and the other way.
NewPlan(p) ==
    /\ stage # "printed" /\ p \notin registered
    /\ Cardinality(registered \ atStart) < MaxNew
    /\ registered' = registered \cup {p} /\ UNCHANGED <<feeds, atStart, wanted, planWalk>>

GetPlan(p) ==
    /\ planGraph' = AddNode(planGraph, p, Stated(p)) /\ toldOf' = [toldOf EXCEPT ![p] = Stated(p)]

\* The plan asked for.
MakeGraph ==
    /\ stage = "start" /\ GetPlan(wanted.root) /\ leaves' = {wanted.root}
    /\ stage' = (IF wanted.up THEN "up" ELSE "down") /\ UNCHANGED <<planServer, left, grown>>

\* next
Neighbours(p) ==
    IF stage = "up" THEN {a.from : a \in {a \in toldOf[p] : a.to = p}}
    ELSE {a.to : a \in {a \in toldOf[p] : a.from = p}}

\* Mutant: the last round is left out.
Goes_Short == left = Infinity \/ left > 1
Goes == left = Infinity \/ left > 0

\* traverse: a plan next to a leaf, which is not in the graph.
Grow(p) ==
    /\ stage \in {"up", "down"} /\ Goes /\ p \notin planGraph.nodes
    /\ \E leaf \in leaves : p \in Neighbours(leaf)
    /\ GetPlan(p) /\ grown' = grown \cup {p} /\ UNCHANGED <<planServer, stage, left, leaves>>

\* traverse: the next round, the other direction or the output.
Round ==
    /\ stage \in {"up", "down"}
    /\ ~ Goes \/ \A leaf \in leaves : Neighbours(leaf) \subseteq planGraph.nodes
    /\ grown' = {} /\ UNCHANGED <<planServer, planGraph, toldOf>>
    /\ IF Goes /\ grown # {}
       THEN leaves' = grown /\ left' = (IF left = Infinity THEN left ELSE left - 1) /\ UNCHANGED stage
       ELSE IF stage = "up" /\ wanted.down
            THEN stage' = "down" /\ leaves' = {wanted.root} /\ left' = wanted.number
            ELSE stage' = "printed" /\ UNCHANGED <<leaves, left>>

MakesGraph == MakeGraph \/ Round \/ \E p \in PlanNode : Grow(p)

PlanGraphNext == MakesGraph \/ \E p \in PlanNode : NewPlan(p)

PlanGraphBehavior == PlanGraphInit /\ [][PlanGraphNext]_planGraphVars

-----------------------------------------------------------------------------
\* One step up or down a pipeline of some of the plans.
Steps(up, plans) ==
    [p \in PlanNode |->
        {q \in plans : p \in plans /\ \E a \in feeds : {a.from, a.to} = {p, q} /\ (IF up THEN a.to ELSE a.from) = p}]

AskedPlans(plans) ==
    {wanted.root} \cup UNION {Asked(Steps(up, plans), wanted.root, wanted.number) :
                                 up \in {u \in BOOLEAN : IF u THEN wanted.up ELSE wanted.down}}

\* What is printed are the plans asked for, whatever is registered in the meantime:
\* those that are asked for of the plans that were there from the first all, and
\* no plan that is too far (MakeGraph, traverse).
FindsPlansAsked ==
    stage = "printed" => AskedPlans(atStart) \subseteq planGraph.nodes /\ planGraph.nodes \subseteq AskedPlans(PlanNode)

\* An arrow of plans that were there from the first is drawn when both are in the
\* graph; no arrow is drawn twice, or without its ends (AddPlanNode).
EveryFeedOnce ==
    \A a \in feeds :
        LET found == {a.from, a.to} \subseteq planGraph.nodes
        IN  /\ planGraph.edges[a] > 0 => planGraph.edges[a] = 1 /\ found
            /\ found /\ {a.from, a.to} \subseteq atStart => planGraph.edges[a] = 1
=============================================================================
