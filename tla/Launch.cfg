SPECIFICATION Spec
CONSTANTS
    Users = {ann, bob}
    Instructors = {ann}
    GlobalStaff = {bob}
    Flows = {f1, f2, f3}
    Selections <- Choices
    MaxBatches = 2
    MaxAttempts = 2
    MaxSessions = 2
    None = None
SYMMETRY Symmetry
CHECK_DEADLOCK FALSE
INVARIANTS
    TypeOK
    LaunchesStayWithUser
    ItemLaunchShowsItem
    LaunchAloneIsAsAsked
    LateAnswerStartsNothing
    SelectionIsOneResponse
