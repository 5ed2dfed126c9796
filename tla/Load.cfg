\* Two requests in flight, three ids, a pool of two, a target that fails or not.
CONSTANTS
    q1 = q1
    q2 = q2
    a = a
    b = b
    c = c
    Slot = {q1, q2}
    Id = {a, b, c}
    NoId = NoId
    PoolCap = 2
    MaxFired = 5
SYMMETRY Symmetry
SPECIFICATION Spec
CHECK_DEADLOCK FALSE
INVARIANTS
    TypeOK
    EveryRequestCountedOnce
    PercentilesCoverTotals
    PoolIsBounded
    DeletesOwnTheirId
    OnlyRacesFail
PROPERTIES
    ImplementsCounting
