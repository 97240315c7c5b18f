\* Three listings, two passes that may overlap, an identity whose repair may always
\* throw, one fault.
CONSTANTS
    NumListings = 3
    i1 = i1
    i2 = i2
    Identities = {i1, i2}
    Rows <- FewRows
    FirstRow <- First
    NumPasses = 2
    Poison = {i2}
    MaxRepairs = 1
    LeasePasses = 2
    MaxChanges = 2
    MaxFaults = 1
SPECIFICATION FairSpec
INVARIANTS TypeOK DriftIsQueued
PROPERTY MarksAreServed
CHECK_DEADLOCK FALSE
