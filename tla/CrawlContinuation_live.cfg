SPECIFICATION FairSpec
CONSTANTS
    NumListings = 1
    Chunk = 1
    Refreshers = {repair}
    Collections <- AnyListings
    MaxRuns = 1
    MaxAttempts = 2
    MaxVersion = 2
    MaxFaults = 1
PROPERTIES
    RunsSettle
    ObligationsAreServed
CHECK_DEADLOCK FALSE
