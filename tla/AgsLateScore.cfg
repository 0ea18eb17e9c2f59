SPECIFICATION Spec
CONSTANTS
    Tools = {"s"}
    Blocks = {"a"}
    Location <- OneLocation
    Mode <- Declarative
    Graded = {"a"}
    AcceptLate = {}
    Users = {u1}
    MaxPoints = 2
    MaxTime = 3
    Reports <- FinalReports
    MaxItems = 2
    Operations = {"launch", "scores"}
    Workers = {w1, w2}
    Serial = FALSE
    Atomic = TRUE
    MaxRequests = 4
    MaxEdits = 0
    None = None
PROPERTY TimestampsAdvance
CHECK_DEADLOCK FALSE
