SPECIFICATION Spec
CONSTANTS
    Tools = {"s", "t"}
    Blocks = {"a", "b"}
    Location <- TwoLocations
    Mode <- BothModes
    Graded = {"a", "b"}
    AcceptLate = {"b"}
    Users = {u1}
    MaxPoints = 2
    MaxTime = 2
    Reports <- EdgeReports
    MaxItems = 2
    Operations = {"launch", "create", "update", "destroy", "scores"}
    Workers = {w1, w2}
    Serial = FALSE
    Atomic = FALSE
    MaxRequests = 4
    MaxEdits = 1
    None = None
SYMMETRY Symmetry
INVARIANT TypeOK
PROPERTY ToolsGradeOwnBlock
INVARIANT ScoresAreFractions
CHECK_DEADLOCK FALSE
