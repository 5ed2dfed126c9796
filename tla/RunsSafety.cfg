\* Two runs and one stream, one crash, one failed write.
CONSTANTS
    r1 = r1
    r2 = r2
    s1 = s1
    Run = {r1, r2}
    Stream = {s1}
    NoRun = NoRun
    MaxRequests = 1
    MaxCrashes = 1
    MaxFaults = 1
SYMMETRY Symmetry
SPECIFICATION Spec
CHECK_DEADLOCK FALSE
INVARIANTS
    TypeOK
    LoadHasRecordAndEnd
    CitedCeilingsAreStored
PROPERTIES
    ResultImmutable
    LoadStopsAtFinish
    CeilingNeverForgotten
    ImplementsLedger
    ImplementsCounting
