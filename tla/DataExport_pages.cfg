\* Two deliveries at once, a changing source, one fault.
CONSTANTS
    Workers = {w1, w2}
    Formats = {"csv", "complete"}
    MaxJob = 1
    MaxRow = 2
    CsvRows = 1
    TableRows = 2
    Files = 1
    FileParts = 2
    MaxChunks = 2
    MaxCopies = 2
    MaxFaults = 1
SPECIFICATION Spec
INVARIANTS TypeOK ReadyIsWhole FilesAreNotTorn CursorIsCarried
PROPERTY ImplementsLog
SYMMETRY Symmetry
CHECK_DEADLOCK FALSE
