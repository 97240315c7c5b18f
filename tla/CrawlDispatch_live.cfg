\* Two generations, one fault, nights in between, fair scheduling.
CONSTANTS
    Workers = {w1}
    MaxGen = 2
    MaxFaults = 1
    Pages = 1
    Details = 0
    Batch = 1
    Switches = {"quiet"}
SPECIFICATION FairSpec
PROPERTY ReservationIsServed
CHECK_DEADLOCK FALSE
