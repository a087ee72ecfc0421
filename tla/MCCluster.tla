------------------------------ MODULE MCCluster ------------------------------
(***************************************************************************)
(* What is asked of Kubernetes, for TLC: volumes, promises of objects,     *)
(* workers and where they are placed, the status of Jobs, and the volume   *)
(* expander.  These share no state, so each behaviour is one of one part.  *)
(***************************************************************************)
EXTENDS Provisioning, ClusterPromise, VolumeExpander, Workers, TLC

CONSTANTS
    kubelet, \* a controller that reports events
    x3, n1   \* a pod and its namespace

OutputsTwo == [r \in Run |-> 2]
Symmetric == Permutations(Vol)

\* A claim written by one pod after another and read by a third.
OneNamespace == [x \in Pod \cup Claim |-> n1]
TwoWriteOneReads == [p \in Pod |-> [c \in Claim |-> IF p = x3 THEN {"ro"} ELSE {"rw"}]]

-----------------------------------------------------------------------------
(* Runs with many mounts, and runs with many labels to be placed by; nodes *)
(* with every label and one taint                                          *)

Lists(S, n) == UNION {[1..k -> S] : k \in 0..n}

TasksOfTwo ==
    {t \in [inputs : Lists(Data, 2), outputs : Lists(Data, 2), log : Data \cup {Nil}, onNode : {{}}] :
        ToSet(t.inputs) \cap (ToSet(t.outputs) \cup {t.log}) = {}}
    \cup [inputs : {<<>>}, outputs : {<<>>}, log : {Nil}, onNode : {s \in SUBSET OnNode : Cardinality(s) <= 3}]
AnyNode == [labels : [Key -> Value \cup {Nil}], taints : {s \in SUBSET Taint : Cardinality(s) <= 1}]
Bare == [labels |-> [k \in Key |-> Nil], taints |-> {}]

-----------------------------------------------------------------------------
(* Jobs that differ in the events of one pod, and Jobs that differ in their *)
(* conditions and in two pods with a warning or none                        *)

Reported == [ctl : Controller, type : {"Normal", "Warning"}, time : 1..2, series : 0..2, last : 0..2]
Warned == [ctl |-> kubelet, type |-> "Warning", time |-> 1, series |-> NoTime, last |-> NoTime]
Conditions ==
    {<<>>} \cup {<<[type |-> t, true |-> b]>> : t \in Ended \cup {"Suspended"}, b \in BOOLEAN}
    \cup {<<[type |-> "Failed", true |-> FALSE], [type |-> t, true |-> TRUE]>> : t \in Ended}
Phases == {"Pending", "Running", "Succeeded", "Failed"}
Codes == Lists({0, 1, 137}, 2)
FirstPod ==
    [phase : Phases, scheduled : {"True", "False", "-"}, exits : Codes, listed : BOOLEAN, events : {<<>>, <<Warned>>}]
SecondPod == [phase : Phases, scheduled : {"True"}, exits : Codes, listed : {TRUE}, events : {<<>>}]
Watched ==
    [phase : {"Pending"}, scheduled : {"True"}, exits : {<<>>}, listed : {TRUE}, events : Lists(Reported, 2)]
JobsOfTwo ==
    [conditions : {<<>>}, pods : [1..1 -> Watched]] \cup [conditions : Conditions, pods : FirstPod \X SecondPod]

-----------------------------------------------------------------------------

VARIABLE part  \* what moves

Part == {"volumes", "promise", "status", "worker", "expander"}

ASSUME ClusterAssumption ==
    /\ ClusterPromiseAssumption /\ VolumeExpanderAssumption
    /\ WorkloadStatusAssumption /\ WorkerSpecAssumption

PartInit ==
    /\ part \in Part
    /\ Init /\ ExpanderInit
    /\ IF part = "promise" THEN PromiseInit
       ELSE obj = Nothing /\ call = NoCall /\ done = FALSE /\ late = FALSE /\ lost = 0
    /\ IF part = "status" THEN WorkloadInit ELSE job = <<>> /\ seen = Unseen
    /\ IF part = "worker" THEN WorkerInit /\ (task.onNode = {} => node = Bare)
       ELSE task = <<>> /\ node = Bare /\ built = NoPod /\ at = "run"

VolumesMove ==
    part = "volumes" /\ Next /\ UNCHANGED <<part, promiseVars, workloadVars, workerVars, expanderVars>>
PromiseMoves ==
    part = "promise" /\ PromiseNext /\ UNCHANGED <<part, vars, workloadVars, workerVars, expanderVars>>
StatusMoves ==
    part = "status" /\ WorkloadNext /\ UNCHANGED <<part, vars, promiseVars, workerVars, expanderVars>>
WorkerMoves ==
    part = "worker" /\ WorkerNext /\ UNCHANGED <<part, vars, promiseVars, workloadVars, expanderVars>>
ExpanderMoves ==
    part = "expander" /\ ExpanderNext /\ UNCHANGED <<part, vars, promiseVars, workloadVars, workerVars>>

PartNext == VolumesMove \/ PromiseMoves \/ StatusMoves \/ WorkerMoves \/ ExpanderMoves
PartSpec == PartInit /\ [][PartNext]_<<part, vars, promiseVars, workloadVars, workerVars, expanderVars>>

\* The properties go by the names they have in their modules.
=============================================================================
