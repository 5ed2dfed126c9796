\* Minutes of two milliseconds; three of them are too long for a timer.
CONSTANTS
    Minutes <- Forms
    NaN = NaN
    Absent = Absent
    Minute = 2
    LongestDelay = 5
    KeepFor = 2
    MaxTime = 10
SPECIFICATION Spec
CHECK_DEADLOCK FALSE
INVARIANTS
    MeasuresItsMinutes
    ElapsedIsTrue
