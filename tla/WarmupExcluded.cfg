\* What the measured window counts, with one request in flight.
CONSTANTS
    q1 = q1
    a = a
    Slot = {q1}
    Id = {a}
    NoId = NoId
    PoolCap = 1
    MaxFired = 3
SYMMETRY Symmetry
SPECIFICATION Spec
CHECK_DEADLOCK FALSE
INVARIANTS
    MeasurementExcludesWarmup
