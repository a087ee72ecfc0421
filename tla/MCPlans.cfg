SPECIFICATION PartSpec
CONSTANTS
    Param <- AllParams
    MaxRequests = 2
    Tag = {"x", "y"}
    Id = {"1", "2"}
    OfData = {}
    Request <- Requests
    MaxPlans = 3
    DataNode <- PiecesOfData
    RunNode <- FourRuns
    Age <- WhenItCame
    Lineages <- AllLineages
    MaxChanges = 1
    PlanNode <- FourPlans
    Rank <- InOrder
    Pipelines <- AllPipelines
    MaxNew = 1
    Depths <- AllDepths
    Infinity <- NoLimit
    Client = {1, 2, 3}
    Row = {"a", "b", "c", "d"}
    Wishes <- LimitsAndNotes
    Run = {"u", "r", "q"}
    KnitId = {"a", "b", "c"}
    UserTag = {"t"}
    Mountpoint <- OneMountpoint
    First <- SoundRows
    Upload = "u"
    MaxWrites = 2
    Tx = {"t1", "t2", "t3"}
    Data = {"d1"}
    Input = {"i1", "i2"}
    Registered = {{}, {"i1"}}
    Mixes = {{"tag", "untag", "finish", "pick", "drop", "agent", "new"}, {"register", "new", "tag", "finish"}}
\* Plans stop at their bound, the others when all is answered or drawn.
CHECK_DEADLOCK FALSE
INVARIANTS
    Acyclic
    PlansAreSound
    SettingsAreWanted
    DrawnAsAsked
    AnswersAreExact
    
