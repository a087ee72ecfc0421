------------------------------ MODULE KnitGraph -----------------------------
(***************************************************************************)
(* The graph that `knit data lineage` and `knit plan graph` print: nodes   *)
(* come in any order, each with what the server said of its arrows, and an *)
(* arrow is drawn when its second end comes.  Until then the first end has *)
(* left a thunk for it.  Arrows are records with the nodes "from" and "to" *)
(* and a label.                                                            *)
(***************************************************************************)
EXTENDS Integers, Reach

CONSTANTS
    Depths,  \* the --numbers that are asked for; Infinity is "all"
    Infinity

DepthAssumption == Depths \subseteq (Nat \ {0}) \cup {Infinity} /\ Infinity \notin Nat

EmptyGraph(arrows) == [nodes |-> {}, edges |-> [a \in arrows |-> 0], thunks |-> {}]

OtherEnd(a, n) == IF a.from = n THEN a.to ELSE a.from

\* What a new node has to wait for: arrows whose other end is not there yet.
Thunks(g, n, known) ==
    {[waits |-> OtherEnd(a, n), arrow |-> a] : a \in {a \in known : OtherEnd(a, n) \notin g.nodes}}

\* The thunks that the new node n makes run.
Due(g, n) == {t \in g.thunks : t.waits = n}

DrawAll(g, arrows) == [a \in DOMAIN g.edges |-> g.edges[a] + IF a \in arrows THEN 1 ELSE 0]

\* Mutant: what is waited for already is forgotten for the new thunks.
AddNode_Overwrites(g, n, known) ==
    [nodes  |-> g.nodes \cup {n},
     edges  |-> DrawAll(g, {t.arrow : t \in Due(g, n)}),
     thunks |-> {t \in g.thunks \ Due(g, n) : \A u \in Thunks(g, n, known) : u.waits # t.waits}
                \cup Thunks(g, n, known)]

\* AddDataNode, AddRunNode and AddPlanNode: n comes with the arrows known of it.
AddNode(g, n, known) ==
    [nodes  |-> g.nodes \cup {n},
     edges  |-> DrawAll(g, {t.arrow : t \in Due(g, n)}),
     thunks |-> (g.thunks \ Due(g, n)) \cup Thunks(g, n, known)]

-----------------------------------------------------------------------------
(* What is asked for, of a lineage or a pipeline that stands still *)

Asked(steps, root, n) == IF n = Infinity THEN Reached(steps, root) ELSE Within(steps, root)[n]
=============================================================================
