SPECIFICATION Spec
CONSTANTS
    NumListings = 1
    Chunk = 1
    Refreshers = {repair}
    Collections <- AnyListings
    MaxRuns = 1
    MaxAttempts = 1
    MaxVersion = 3
    MaxFaults = 1
INVARIANT
    NothingForgotten
CHECK_DEADLOCK FALSE
