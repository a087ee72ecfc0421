SPECIFICATION FairJobSpec
CONSTANTS
    initializer = initializer
    manager = manager
    manager2 = manager2
    finisher = finisher
    NoRun = NoRun
    Run = {1, 2}
    Initializer = {initializer}
    Manager = {manager}
    Finisher = {finisher}
    Rejected = {}
    UserOps = {"kill"}
    MaxAttempt = 1
    MaxFaults = 1
\* A finished run stays as it is until a user does something.
CHECK_DEADLOCK FALSE

    
PROPERTY
    EveryRunFinishes
