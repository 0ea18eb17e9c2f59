SPECIFICATION Spec
CONSTANTS
    Locations = {"a", "c", "x"}
    Ccx = {"c"}
    MainOf <- CcxMain
    EndsAlike <- RerunEnds
    Family <- RerunFamily
    ToolSettings <- Settings2
    KeyTexts <- Texts2
    Stores <- BothStores
    Workers = {w1}
    Legacy = {}
    Present = {"a", "x"}
    Serial = TRUE
    MaxPassports = 4
    MaxEdits = 2
    MaxRequests = 4
    None = None
PROPERTY SyncStaysInCourse
CHECK_DEADLOCK FALSE
