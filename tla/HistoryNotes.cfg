\* The history of a run that may warm up and may be left by a crash.
CONSTANTS
    r1 = r1
    Run = {r1}
    Stream = {}
    NoRun = NoRun
    MaxRequests = 1
    MaxCrashes = 1
    MaxFaults = 0
SPECIFICATION Spec
CHECK_DEADLOCK FALSE
INVARIANTS
    RunningIsNotedRunning
