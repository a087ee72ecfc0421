------------------------------- MODULE Lineage ------------------------------
(***************************************************************************)
(* `knit data lineage`: breadth first over data and runs, one request to   *)
(* the server per node, while the server goes on: runs that nobody depends *)
(* on are deleted, with what they have put out, and new ones are made.     *)
(***************************************************************************)
EXTENDS KnitGraph

CONSTANTS
    DataNode, RunNode,
    Age,       \* [node -> when it came, if it does]
    Lineages,  \* sets of arrows: what the server may hold, all in all
    MaxChanges \* bound: changes of the server while the client traces

VARIABLES
    arrows,   \* the lineage, with the runs that are still to come
    there,    \* the runs the server has
    atFirst,  \* ... and those it had when the client began
    changes,
    ask,      \* what the user asked for: root, up, down and number
    graph,
    said,     \* [node of the graph -> the arrows the server told of it]
    phase,    \* "up", "down", then "printed" or "error"
    depth, layer, next, \* the data to go on from, now and in the next round
    runs, fetch         \* the runs of the data gone on from, the data of the run

server == <<arrows, there, atFirst, changes, ask>>
walk == <<graph, said, phase, depth, layer, next, runs, fetch>>
lineageVars == <<server, walk>>

\* Each data is put out by one run, after what that run takes.
LineageAssumption ==
    /\ DepthAssumption /\ DataNode \cap RunNode = {} /\ MaxChanges \in Nat
    /\ Age \in [DataNode \cup RunNode -> Nat]
    /\ \A h \in Lineages :
           /\ \A a \in h :
                  /\ \/ a.from \in DataNode /\ a.to \in RunNode
                     \/ a.from \in RunNode /\ a.to \in DataNode
                  /\ Age[a.from] < Age[a.to]
           /\ \A d \in DataNode : \E r \in RunNode : {a.from : a \in {a \in h : a.to = d}} = {r}

Taken(r) == {a.from : a \in {a \in arrows : a.to = r}}
Made(r) == {a.to : a \in {a \in arrows : a.from = r}}
MadeBy(d) == CHOOSE r \in RunNode : d \in Made(r)
Exists(n) == IF n \in RunNode THEN n \in there ELSE MadeBy(n) \in there

\* What the server tells of a node: the arrows to what is there.
Told(n) == {a \in arrows : n \in {a.from, a.to} /\ Exists(a.from) /\ Exists(a.to)}

\* Without --upstream and --downstream it is both; upstream comes first.
LineageInit ==
    /\ arrows \in Lineages
    /\ there \in {s \in SUBSET RunNode : \A r \in s : \A d \in Taken(r) : MadeBy(d) \in s}
    /\ atFirst = there /\ changes = 0
    /\ ask \in [root : {d \in DataNode : Exists(d)}, up : BOOLEAN, down : BOOLEAN, number : Depths]
    /\ ask.up \/ ask.down
    /\ graph = EmptyGraph(arrows) /\ said = [n \in DataNode \cup RunNode |-> {}]
    /\ phase = (IF ask.up THEN "up" ELSE "down")
    /\ depth = 0 /\ layer = {ask.root} /\ next = {} /\ runs = {} /\ fetch = {}

-----------------------------------------------------------------------------
(* The server *)

\* Delete, of a run that no other depends on.
DeleteRun(r) ==
    /\ changes < MaxChanges /\ changes' = changes + 1 /\ phase \in {"up", "down"}
    /\ r \in there /\ \A s \in there : Taken(s) \cap Made(r) = {}
    /\ there' = there \ {r} /\ UNCHANGED <<arrows, atFirst, ask, walk>>

\* New.
Appear(r) ==
    /\ changes < MaxChanges /\ changes' = changes + 1 /\ phase \in {"up", "down"}
    /\ r \notin there /\ r \notin atFirst /\ \A d \in Taken(r) : Exists(d)
    /\ there' = there \cup {r} /\ UNCHANGED <<arrows, atFirst, ask, walk>>

-----------------------------------------------------------------------------
(* The client *)

Tracing == phase \in {"up", "down"}
InGraph(n) == n \in graph.nodes

Get(n) ==
    /\ graph' = AddNode(graph, n, Told(n)) /\ said' = [said EXCEPT ![n] = Told(n)]

Error == phase' = "error" /\ UNCHANGED <<server, graph, said, depth, layer, next, runs, fetch>>

\* The data to go on from after run r: its inputs, or its outputs and its log.
Following(r, told) ==
    IF phase = "up" THEN {a.from : a \in {a \in told : a.to = r}}
    ELSE {a.to : a \in {a \in told : a.from = r}}

\* Mutant: what is in the graph already is not gone on from.
Keep_Fresh(data) == {d \in data : ~ InGraph(d)}
Keep(data) == data

\* TraceUpstreamForSingleNode, TraceDownstreamForSingleNode: getData ...
Visit(d) ==
    /\ Tracing /\ runs = {} /\ fetch = {} /\ d \in layer
    /\ IF Exists(d) \/ InGraph(d)
       THEN LET told == IF InGraph(d) THEN said[d] ELSE Told(d)
            IN  /\ layer' = layer \ {d}
                /\ runs' = IF phase = "up" THEN {a.from : a \in {a \in told : a.to = d}}
                           ELSE {a.to : a \in {a \in told : a.from = d}}
                /\ IF InGraph(d) THEN UNCHANGED <<graph, said>> ELSE Get(d)
                /\ UNCHANGED <<server, phase, depth, next, fetch>>
       ELSE Error

\* ... GetRun for the runs it comes from, or goes to ...
VisitRun(r) ==
    /\ Tracing /\ r \in runs /\ fetch = {}
    /\ \/ /\ InGraph(r) /\ runs' = runs \ {r} /\ UNCHANGED <<server, graph, said, phase, depth, layer, next, fetch>>
       \/ /\ ~ InGraph(r) /\ Exists(r) /\ runs' = runs \ {r} /\ Get(r)
          /\ fetch' = ({a.from : a \in Told(r)} \cup {a.to : a \in Told(r)}) \ {r}
          /\ next' = next \cup Keep(Following(r, Told(r)))
          /\ UNCHANGED <<server, phase, depth, layer>>
       \/ ~ InGraph(r) /\ ~ Exists(r) /\ Error

\* ... and getData for the inputs, the outputs and the log of the run.
Fetch(d) ==
    /\ Tracing /\ d \in fetch
    /\ \/ InGraph(d) /\ fetch' = fetch \ {d} /\ UNCHANGED <<server, graph, said, phase, depth, layer, next, runs>>
       \/ ~ InGraph(d) /\ Exists(d) /\ fetch' = fetch \ {d} /\ Get(d)
          /\ UNCHANGED <<server, phase, depth, layer, next, runs>>
       \/ ~ InGraph(d) /\ ~ Exists(d) /\ Error

Deeper == ask.number = Infinity \/ depth + 1 < ask.number

\* The next round, the other direction, or the output.
NextLayer ==
    /\ Tracing /\ layer = {} /\ runs = {} /\ fetch = {} /\ next' = {}
    /\ IF Deeper /\ next # {}
       THEN layer' = next /\ depth' = depth + 1 /\ UNCHANGED phase
       ELSE IF phase = "up" /\ ask.down
            THEN phase' = "down" /\ layer' = {ask.root} /\ depth' = 0
            ELSE phase' = "printed" /\ UNCHANGED <<layer, depth>>
    /\ UNCHANGED <<server, graph, said, runs, fetch>>

Trace == NextLayer \/ (\E d \in DataNode : Visit(d) \/ Fetch(d)) \/ \E r \in RunNode : VisitRun(r)

LineageNext == Trace \/ \E r \in RunNode : DeleteRun(r) \/ Appear(r)

LineageBehavior == LineageInit /\ [][LineageNext]_lineageVars

-----------------------------------------------------------------------------
(* What is asked for, in a lineage that stands still *)

\* The runs of data, and from one data to those of the next round.
RunsOf(up, d) == {r \in RunNode : IF up THEN d \in Made(r) ELSE d \in Taken(r)}
Rounds(up) == [d \in DataNode |-> UNION {IF up THEN Taken(r) ELSE Made(r) : r \in RunsOf(up, d)}]

\* The first round has the runs of the root.
RunsWithin(up) ==
    LET n == IF ask.number = Infinity THEN Infinity ELSE ask.number - 1
    IN  UNION {RunsOf(up, d) : d \in Asked(Rounds(up), ask.root, n)}

AskedRuns ==
    (IF ask.up THEN RunsWithin(TRUE) ELSE {}) \cup (IF ask.down THEN RunsWithin(FALSE) ELSE {})

\* What is printed has the runs that were asked for and no others, with what they
\* take and put out, whatever order the rounds went in; those that come or go in the
\* meantime, or not.  (Task, TraceUpStream, TraceDownStream)
FindsWhatIsAsked ==
    phase = "printed" =>
        /\ graph.nodes \cap RunNode \subseteq AskedRuns
        /\ AskedRuns \cap atFirst \cap there \subseteq graph.nodes
        /\ \A r \in graph.nodes \cap RunNode : Taken(r) \cup Made(r) \subseteq graph.nodes

\* An arrow of a run that was there from the first is drawn when both ends are in the
\* graph, in whichever order they were found and whatever else comes or goes; and no
\* arrow is drawn twice, or without its ends (AddDataNode, AddRunNode).
EveryArrowOnce ==
    \A a \in arrows :
        LET found == {a.from, a.to} \subseteq graph.nodes
        IN  /\ graph.edges[a] > 0 => graph.edges[a] = 1 /\ found
            /\ found /\ {a.from, a.to} \cap RunNode \subseteq atFirst => graph.edges[a] = 1
=============================================================================
