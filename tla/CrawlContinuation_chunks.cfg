SPECIFICATION Spec
CONSTANTS
    NumListings = 2
    Chunk = 1
    Refreshers = {}
    Collections <- SecondMissesOne
    MaxRuns = 2
    MaxAttempts = 2
    MaxVersion = 2
    MaxFaults = 1
INVARIANTS
    TypeOK
    WorkIsShown
    WatermarkIsEarned
    WorkOutlivesStages
    StagesInOrder
CHECK_DEADLOCK FALSE
