SPECIFICATION Spec
CONSTANTS
    initializer = initializer
    manager = manager
    manager2 = manager2
    finisher = finisher
    NoRun = NoRun
    Run = {1}
    Initializer = {initializer}
    Manager = {manager, manager2}
    Finisher = {finisher}
    Rejected = {}
    UserOps = {"activate", "abort", "tearoff", "retry", "delete", "kill"}
    MaxAttempt = 2
    MaxFaults = 1
\* A finished run stays as it is until a user does something.
CHECK_DEADLOCK FALSE
INVARIANTS
    TypeOK
    NoOrphanWorker
PROPERTIES
    ImplementsLifecycle
    SpawnsOnce
