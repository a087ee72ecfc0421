----------------------------- MODULE WorkerSpec -----------------------------
(***************************************************************************)
(* From a run to the pod of its worker: which volumes its containers see   *)
(* and may write, and on which nodes it may run.  What Kubernetes makes of *)
(* a pod is modelled from how the code uses it.                            *)
(***************************************************************************)
EXTENDS Naturals, Sequences, FiniteSets, SequencesExt

CONSTANTS
    Data,  \* data that may be assigned
    Key,   \* keys of labels and taints
    Value,
    Tasks, \* runs that may be asked for, see TaskType
    Nodes  \* nodes the cluster may have, see NodeType

VARIABLES
    task,  \* a run: its assignments and its plan's on_node
    node,  \* a node of the cluster
    built, \* what was built from the run
    at     \* "run", "refused" (malformed), "built", "rejected" (by Kubernetes), "pending", "placed"

workerVars == <<task, node, built, at>>

Nil == "nil"

OnNode == [mode : {"may", "prefer", "must"}, key : Key, value : Value]
Taint == [key : Key, value : Value, effect : {"NoSchedule", "PreferNoSchedule"}]

\* What a run reads is older than what it makes; the database lets nothing else of a
\* run be ruled out.
TaskType(t) ==
    /\ t = [inputs |-> t.inputs, outputs |-> t.outputs, log |-> t.log, onNode |-> t.onNode]
    /\ t.inputs \in Seq(Data) /\ t.outputs \in Seq(Data) /\ t.log \in Data \cup {Nil}
    /\ t.onNode \in SUBSET OnNode
    /\ ToSet(t.inputs) \cap (ToSet(t.outputs) \cup {t.log}) = {}
NodeType(n) == n.labels \in [Key -> Value \cup {Nil}] /\ n.taints \in SUBSET Taint

WorkerSpecAssumption ==
    /\ Nil \notin Data \cup Value
    /\ \A t \in Tasks : TaskType(t)
    /\ \A n \in Nodes : NodeType(n)

NoPod == [volumes |-> <<>>, mounts |-> {}, tolerations |-> {}, required |-> {}, preferred |-> {}]

WorkerInit == task \in Tasks /\ node \in Nodes /\ built = NoPod /\ at = "run"

-----------------------------------------------------------------------------
(* New *)

Log == IF task.log = Nil THEN <<>> ELSE <<task.log>>

\* Data that is made twice.  Mutant: the log is not counted.
Conflicted_NoLog == ~IsInjective(task.outputs)
Conflicted == ~IsInjective(task.outputs \o Log)

-----------------------------------------------------------------------------
(* Build *)

MountsOf(container, data, ro) == {[container |-> container, volume |-> d, ro |-> ro] : d \in ToSet(data)}

\* The init containers see outputs and log read-only, which is enough to make the
\* directories; only the nurse writes the log.
AllMounts ==
    UNION {MountsOf("main", task.inputs, TRUE), MountsOf("main", task.outputs, FALSE),
           MountsOf("init-main", task.outputs, TRUE),
           MountsOf("init-log", Log, TRUE), MountsOf("nurse", Log, FALSE)}

Tolerates(o, effect) == [key |-> o.key, value |-> o.value, effect |-> effect]

\* Mutant: a node that is preferred is not tolerated.
Tolerations_Picky ==
    UNION {{Tolerates(o, "NoSchedule"), Tolerates(o, "PreferNoSchedule")} : o \in {x \in task.onNode : x.mode = "must"}}
Tolerations ==
    {Tolerates(o, "NoSchedule") : o \in task.onNode}
    \cup {Tolerates(o, "PreferNoSchedule") : o \in {x \in task.onNode : x.mode # "may"}}

\* One term: every key has to match, with one of its values.
Affinity(mode) ==
    LET of == {o \in task.onNode : o.mode = mode}
    IN {[key |-> k, values |-> {o.value : o \in {x \in of : x.key = k}}] : k \in {o.key : o \in of}}
Required == Affinity("must")

Built == [volumes |-> task.inputs \o task.outputs \o Log, mounts |-> AllMounts,
          tolerations |-> Tolerations, required |-> Required, preferred |-> Affinity("prefer")]

Build ==
    /\ at = "run"
    /\ IF Conflicted THEN at' = "refused" /\ UNCHANGED built
       ELSE at' = "built" /\ built' = Built
    /\ UNCHANGED <<task, node>>

-----------------------------------------------------------------------------
(* Kubernetes *)

\* The names of volumes are unique in a pod.
Valid == IsInjective(built.volumes) /\ \A m \in built.mounts : m.volume \in ToSet(built.volumes)

Submit ==
    /\ at = "built" /\ at' = IF Valid THEN "pending" ELSE "rejected"
    /\ UNCHANGED <<task, node, built>>

Fits ==
    /\ \A t \in node.taints : t.effect = "NoSchedule" => t \in built.tolerations
    /\ \A term \in built.required : node.labels[term.key] \in term.values

Place == at = "pending" /\ Fits /\ at' = "placed" /\ UNCHANGED <<task, node, built>>

WorkerNext == Build \/ Submit \/ Place

WorkerBehavior == WorkerInit /\ [][WorkerNext]_workerVars

-----------------------------------------------------------------------------
(* Properties *)

\* What a run makes has one container to write it and is not what it reads, though
\* nothing but New keeps the outputs apart (metasource.go:199, counter).
OneWriter ==
    at \in {"built", "pending", "placed"} =>
        LET written == {m \in built.mounts : ~m.ro}
        IN /\ Cardinality(written) = Len(task.outputs) + Len(Log)
           /\ \A m, n \in written : m.volume = n.volume => m = n
           /\ \A m \in written : m.volume \notin ToSet(task.inputs)

\* A worker is placed exactly where on_node lets it: taints are allowed by name, all
\* modes alike, and of each key that it must have, one value
\* (template/command.go:630, plan.go:124).
PlacedAsAsked ==
    at = "pending" =>
        (Fits <=> /\ \A t \in node.taints :
                         t.effect = "NoSchedule" => \E o \in task.onNode : o.key = t.key /\ o.value = t.value
                  /\ \A o \in task.onNode : o.mode = "must" =>
                         \E p \in task.onNode : p.mode = "must" /\ p.key = o.key /\ node.labels[o.key] = p.value)

\* plan.go:150, of "must": "this plan can not run on node without label".
MustIsMust == at = "placed" => \A o \in task.onNode : o.mode = "must" => node.labels[o.key] = o.value

\* worker.go:52: Spawn is to "spawn new Worker and start to Run", once New has found
\* nothing malformed.
WorkersAreValid == at # "rejected"
=============================================================================
