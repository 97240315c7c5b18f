\* A run and its recovery, one fault, fair scheduling.
CONSTANTS
    Consumers = {c1}
    Targets = {t1}
    Finalizer = fin
    MaxRun = 2
    MaxJobs = 1
    MaxSource = 1
    MaxDelivery = 1
    MaxWakes = 1
    MaxFaults = 1
    Overrun = FALSE
    NewVersion = FALSE
SPECIFICATION FairSpec
PROPERTY RunCloses
CHECK_DEADLOCK FALSE
