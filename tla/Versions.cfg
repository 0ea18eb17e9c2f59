SPECIFICATION FairSpec
CONSTANTS
    Flows = {f1, f2}
    Blocks <- SomeBlocks
    Ids = {e1}
    MaxEdits = 2
    None = None
INVARIANT TypeOK
INVARIANT QuietLaunchArrives
PROPERTY FailuresEnd
