\* One failed write when a run finishes.
CONSTANTS
    r1 = r1
    Run = {r1}
    Stream = {}
    NoRun = NoRun
    MaxRequests = 1
    MaxCrashes = 0
    MaxFaults = 1
SPECIFICATION FairSpec
CHECK_DEADLOCK FALSE
PROPERTIES
    FinishedRunsAreThrownAway
