\* One run and two streams, one crash, one failed write.
CONSTANTS
    r1 = r1
    s1 = s1
    s2 = s2
    Run = {r1}
    Stream = {s1, s2}
    NoRun = NoRun
    MaxRequests = 3
    MaxCrashes = 1
    MaxFaults = 1
SPECIFICATION FairSpec
CHECK_DEADLOCK FALSE
INVARIANTS
    DoneToldOnlyAfterStored
    ListenersMatchStreams
    LateJoinersSeeTheEnd
PROPERTIES
    StreamTellsForwards
    RunsAreForgotten
    StreamsOfActiveRunsEnd
    ResultsAreStored
