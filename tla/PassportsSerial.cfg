SPECIFICATION Spec
CONSTANTS
    Locations = {"a", "b"}
    Ccx = {}
    MainOf <- NoMain
    EndsAlike <- NoEnds
    Family <- PairFamily
    ToolSettings <- Settings2
    KeyTexts <- Texts2
    Stores <- BothStores
    Workers = {w1}
    Legacy = {"a"}
    Present = {"a"}
    Serial = TRUE
    MaxPassports = 4
    MaxEdits = 3
    MaxRequests = 5
    None = None
INVARIANT ViewSettles
INVARIANT BlockFollowsConfig
INVARIANT NoOrphanPassports
INVARIANT NoConfigWithoutBlock
PROPERTY SharedKeysStable
CHECK_DEADLOCK FALSE
