SPECIFICATION PartSpec
CONSTANTS
    u1 = u1
    u2 = u2
    NoRun = NoRun
    URL = {u1, u2}
    Run = {r1}
    BeforeURL <- Two
    AfterURL <- One
    Users = TRUE
    MaxRefusals = 1
    MaxCrashes = 1
    up = up
    p1 = p1
    p2 = p2
    k1 = k1
    k2 = k2
    NoOne = NoOne
    NoKid = NoKid
    w = w
    v1 = v1
    v2 = v2
    g1 = g1
    x1 = x1
    x2 = x2
    c1 = c1
    n1 = n1
    loops = loops
    App = {loops}
    LoadsFirst = {}
    Job = {j2, j3}
    Image <- ImageOf
    Idempotent = {3}
    MaxConf = 1
    MaxFaults = 1
    j2 = j2
    j3 = j3
\* All that begins comes to an end, and then nothing more need happen.
CHECK_DEADLOCK FALSE
INVARIANTS
    HooksAreHeard
PROPERTIES
    ToldOfEachChange
    SchemaIsCurrent
    AskedIsDone
    OwedComes
