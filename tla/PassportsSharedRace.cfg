SPECIFICATION Spec
CONSTANTS
    Locations = {"a", "b"}
    Ccx = {}
    MainOf <- NoMain
    EndsAlike <- NoEnds
    Family <- PairFamily
    ToolSettings <- Settings2
    KeyTexts <- Texts2
    Stores <- XBlockStore
    Workers = {w1, w2}
    Legacy = {"a"}
    Present = {"a"}
    Serial = FALSE
    MaxPassports = 4
    MaxEdits = 2
    MaxRequests = 3
    None = None
PROPERTY SharedKeysStable
CHECK_DEADLOCK FALSE
