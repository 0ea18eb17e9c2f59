SPECIFICATION Spec
CONSTANTS
    Users = {u1, u2}
    Workers = {w1, w2}
    Full = 1
    MaxWeight = 2
    Secrets = {"s1", "s2"}
    Comments = {"", "c"}
    NoComment = ""
    Settings <- SomeSettings
    Posts <- SomePosts
    MaxTime = 1
    MaxRequests = 2
    MaxEdits = 1
    None = None
SYMMETRY Symmetry
INVARIANT TypeOK
INVARIANT GradeIsDuplicated
INVARIANT LateIsRefused
PROPERTY KeepsGradebook
CHECK_DEADLOCK FALSE
