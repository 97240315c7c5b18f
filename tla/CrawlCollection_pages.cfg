SPECIFICATION FairSpec
CONSTANTS
    NumPages = 3
    Initial = 1
    Plugins <- TwoPlugins
    MaxLate = 1
    MaxFaults = 1
INVARIANTS
    TypeOK
    CountersAreExact
    ReceiptsFormAChain
    OrdinalsAreDense
    OneRequestPerPermit
    CompleteIsComplete
PROPERTIES
    CollectionEnds
    PublishedOnce
CHECK_DEADLOCK FALSE
