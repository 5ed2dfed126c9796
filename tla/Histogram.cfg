\* Enough samples to tell the 50th, 95th and 99th percentiles apart.
CONSTANTS
    BucketWidth = 5
    BucketCount = 2
    Latency = {4, 5, 9, 12}
    Percentile = {50, 95, 99}
    MaxSamples = 22
SPECIFICATION Spec
INVARIANTS
    PercentilesAreClose
    PercentilesAreOrdered
    ReflectsSamplesSinceReset
