\* Two Worker invocations beside the watchdog, two generations, one fault,
\* a detail target and two rechecks.
CONSTANTS
    Workers = {w1, w2}
    MaxGen = 2
    MaxFaults = 1
    Pages = 1
    Details = 1
    Batch = 2
    Switches = {}
SPECIFICATION Spec
\* Sound: no property names a worker, and none is a liveness property.
SYMMETRY WorkerSymmetry
INVARIANTS
    TypeOK
    GenerationFence
    AcknowledgedKeepsReservation
    PauseGateOrder
PROPERTY ImplementsGenerations
CHECK_DEADLOCK FALSE
