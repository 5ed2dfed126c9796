\* Two submissions, two results, one fault.
CONSTANTS
    r1 = r1
    r2 = r2
    x = x
    y = y
    Run = {r1, r2}
    Result = {x, y}
    NoResult = NoResult
    NoRun = NoRun
    MaxFaults = 1
SPECIFICATION FairSpec
CHECK_DEADLOCK FALSE
INVARIANTS
    PageTypeOK
    OneEntryPerRun
    HistoryTellsLedger
    OneRunFollowed
    SubmittedRunsAreListed
PROPERTIES
    PendingEntriesResolve
    FollowedRunsAreShownDone
