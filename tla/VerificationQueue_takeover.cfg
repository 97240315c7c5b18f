\* Two consumers that may outlive their leases, two targets, two attempts of each
\* kind, a rollout.  No faults: a consumer that never acts again has crashed.
CONSTANTS
    Consumers = {c1, c2}
    Targets = {t1, t2}
    Finalizer = fin
    MaxRun = 1
    MaxJobs = 1
    MaxSource = 2
    MaxDelivery = 2
    MaxWakes = 2
    MaxFaults = 0
    Overrun = TRUE
    NewVersion = TRUE
SPECIFICATION Spec
\* Sound: no property names a consumer or a target, and none is a liveness property.
SYMMETRY Symmetry
INVARIANTS
    TypeOK
    OnePerDomain
PROPERTY ImplementsReview
CHECK_DEADLOCK FALSE
