\* Two ticks that may overlap, the sweep and a task that is due on every tick and may
\* always fail; the drain; one listing that changes twice, one fault.
CONSTANTS
    Tasks = {2, 3}
    DueOn <- DueEachTick
    Rare = {}
    Floor <- Floors
    WorkCalls = 40
    Costs = {20}
    NumTicks = 2
    Sweep = 2
    l1 = l1
    Listings = {l1}
    Workers = {1, 2, 3}
    MaxAttempts = 2
    MaxChanges = 2
    MaxFaults = 1
SPECIFICATION FairSpec
INVARIANTS TypeOK FailedIsKept ChangesAreMarked
PROPERTIES TasksAreTried StaleIsServed
CHECK_DEADLOCK FALSE
