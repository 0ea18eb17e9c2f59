SPECIFICATION LoneSpec
CONSTANTS
    Locations = {"a", "b", "x", "c"}
    Ccx = {"c"}
    MainOf <- CcxMain
    EndsAlike <- CcxEnds
    Family <- CcxFamily
    ToolSettings <- Settings2
    KeyTexts <- Texts2
    Stores <- BothStores
    Workers = {w1, w2}
    Legacy = {"a"}
    Present = {"a", "x"}
    Serial = FALSE
    MaxPassports = 4
    MaxEdits = 1
    MaxRequests = 3
    None = None
SYMMETRY Symmetry
INVARIANT TypeOK
INVARIANT CredentialsStayInFamily
INVARIANT LoneViewSettles
PROPERTY LoneLinkFollowsBlock
PROPERTY LoneCleanupIsComplete
PROPERTY LoneSaveSynchronises
CHECK_DEADLOCK FALSE
