\* One delivery at a time, fair scheduling.
CONSTANTS
    Workers = {w1}
    Formats = {"csv", "complete"}
    MaxJob = 1
    MaxRow = 2
    CsvRows = 1
    TableRows = 2
    Files = 1
    FileParts = 2
    MaxChunks = 1
    MaxCopies = 2
    MaxFaults = 1
SPECIFICATION FairSpec
PROPERTY JobEnds
CHECK_DEADLOCK FALSE
