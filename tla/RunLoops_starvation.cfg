SPECIFICATION FairSpec
CONSTANTS
    initializer = initializer
    manager = manager
    manager2 = manager2
    finisher = finisher
    NoRun = NoRun
    Run = {1, 2, 3}
    Initializer = {initializer}
    Manager = {manager}
    Finisher = {finisher}
    Rejected = {1}
    UserOps = {}
    MaxAttempt = 1
    MaxFaults = 0
\* A finished run stays as it is until a user does something.
CHECK_DEADLOCK FALSE
PROPERTY
    EveryRunMovesOn
