SPECIFICATION Spec
CONSTANTS
    Tools = {"s"}
    Blocks = {"a"}
    Location <- OneLocation
    Mode <- Declarative
    Graded = {"a"}
    AcceptLate = {}
    Users = {u1, u2}
    MaxPoints = 2
    MaxTime = 3
    Reports <- FinalReports
    MaxItems = 2
    Operations = {"launch", "scores"}
    Workers = {w1}
    Serial = TRUE
    Atomic = TRUE
    MaxRequests = 4
    MaxEdits = 2
    None = None
INVARIANT GradebookFollowsScore
CHECK_DEADLOCK FALSE
