SPECIFICATION PartSpec
CONSTANTS
    Provider = {p1, p2}
    NoOne = NoOne
    NoKid = NoKid
    Kid = {k1, k2}
    TTL = 3
    Need = 1
    MaxTime = 3
    u = u
    i = i
    r = r
    Upload = {u}
    Import = {i}
    Reader = {r}
    Source <- OneSource
    LoseEvents = FALSE
    MaxCrashes = 1
    Kinds = {"upload", "save", "extract"}
    Files = 3
    Cap = 2
    MaxNode = 4
    Faults = {"file", "estimate", "break", "damage"}
\* The keychain stops with its clock, a transfer with its result, and the rest
\* when nobody asks for anything more.
CHECK_DEADLOCK FALSE
INVARIANTS
    OneFreshKey
    TokensVerifyAlone
    DataIsSafe
    
    WalksAreRight
PROPERTY
    ImplementsLifecycle
