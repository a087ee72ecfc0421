SPECIFICATION Spec
CONSTANTS
    initializer = initializer
    manager = manager
    manager2 = manager2
    finisher = finisher
    NoRun = NoRun
    Run = {1}
    Initializer = {initializer}
    Manager = {manager}
    Finisher = {finisher}
    Rejected = {}
    UserOps = {"retry"}
    MaxAttempt = 2
    MaxFaults = 0
\* A finished run stays as it is until a user does something.
CHECK_DEADLOCK FALSE
INVARIANT
    DoneByOwnWorker
