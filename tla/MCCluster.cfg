SPECIFICATION PartSpec
CONSTANTS
    Run = {r1}
    Vol = {v1, v2, v3, v4}
    Outputs <- OutputsTwo
    Collector = {g1, g2}
    MaxFaults = 2
    Kinds = {"service", "deployment", "pvc", "job", "pod"}
    MaxLost = 2
    Pod = {x1, x2, x3}
    Claim = {c1}
    Namespace = {n1}
    Of <- OneNamespace
    Modes <- TwoWriteOneReads
    Unmanaged = {}
    Margin = 1
    Delta = 1
    Giga = 2
    MaxUsed = 3
    MaxErrors = 2
    Data = {d1, d2, d3}
    Key = {gpu, disk}
    Value = {yes, no}
    Tasks <- TasksOfTwo
    Nodes <- AnyNode
    Controller = {kubelet, scheduler}
    Jobs <- JobsOfTwo
    kubelet = kubelet
    x3 = x3
    n1 = n1
SYMMETRY Symmetric
\* Promises are over once, a worker is placed once, a Job is looked at once.
CHECK_DEADLOCK FALSE
INVARIANTS
    VolumesStay
    NothingLeaks
    WorkersAreReal
    ExpanderKeepsUp
PROPERTY
    PromisesAreHonest
