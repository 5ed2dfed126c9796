-------------------------- MODULE LatencyHistogram --------------------------
(***************************************************************************)
(* The histogram a run keeps of its latencies, and the percentiles it      *)
(* reports, against the samples themselves. Latencies are whole            *)
(* milliseconds.                                                           *)
(***************************************************************************)
EXTENDS Naturals, FiniteSets, FiniteSetsExt

CONSTANTS
    BucketWidth,    \* BUCKET_WIDTH_MS
    BucketCount,    \* BUCKET_COUNT; one more bucket takes the overflow
    Latency,        \* the latencies that occur
    Percentile,     \* the percentiles asked for, in percent
    MaxSamples      \* bound: samples between two resets

ASSUME BucketAssumption ==
    BucketWidth \in Nat \ {0} /\ BucketCount \in Nat \ {0}
ASSUME LatencyAssumption == Latency \subseteq Nat
ASSUME PercentileAssumption == Percentile \subseteq 1..100
ASSUME SamplesAssumption == MaxSamples \in Nat

VARIABLES
    buckets, count, sum, max,
    observed    \* history: how often each latency was recorded since the reset

vars == <<buckets, count, sum, max, observed>>

Bucket == 0..BucketCount

-----------------------------------------------------------------------------
(* Operations. *)

\* Math.min(Math.floor(latencyMs / BUCKET_WIDTH_MS), BUCKET_COUNT).
BucketOf(l) == IF l \div BucketWidth < BucketCount THEN l \div BucketWidth
               ELSE BucketCount

Init ==
    /\ buckets = [i \in Bucket |-> 0]
    /\ count = 0
    /\ sum = 0
    /\ max = 0
    /\ observed = [l \in Latency |-> 0]

record(l) ==
    /\ count < MaxSamples
    /\ buckets' = [buckets EXCEPT ![BucketOf(l)] = @ + 1]
    /\ count' = count + 1
    /\ sum' = sum + l
    /\ max' = IF l > max THEN l ELSE max
    /\ observed' = [observed EXCEPT ![l] = @ + 1]

\* Mutant: the maximum survives the reset.
ResetKeepsMax ==
    /\ buckets' = [i \in Bucket |-> 0]
    /\ count' = 0
    /\ sum' = 0
    /\ observed' = [l \in Latency |-> 0]
    /\ UNCHANGED max

reset ==
    /\ buckets' = [i \in Bucket |-> 0]
    /\ count' = 0
    /\ sum' = 0
    /\ max' = 0
    /\ observed' = [l \in Latency |-> 0]

\* Mutant: Math.floor where the code has Math.ceil.
TargetFloored(p) == (p * count) \div 100

\* Math.ceil((p / 100) * this.count), exact for the percentiles in use.
Target(p) == (p * count + 99) \div 100

\* What the loop of percentile() has seen after bucket i.
Seen[i \in Bucket] == buckets[i] + (IF i = 0 THEN 0 ELSE Seen[i - 1])

\* The buckets the loop may stop at: it stops at the first of them.
Reaching(p) == {i \in Bucket : Seen[i] >= Target(p)}

\* Mutant: the upper edge of the bucket.
PercentileUpperEdge(p) ==
    IF count = 0 THEN 0
    ELSE LET i == Min(Reaching(p))
         IN  IF i = BucketCount THEN max ELSE (i + 1) * BucketWidth

\* The lower edge of the bucket the loop stops at, the maximum in the overflow.
percentile(p) ==
    IF count = 0 THEN 0
    ELSE LET i == Min(Reaching(p))
         IN  IF i = BucketCount THEN max ELSE i * BucketWidth

Next == reset \/ \E l \in Latency : record(l)

Spec == Init /\ [][Next]_vars

-----------------------------------------------------------------------------
(* The samples. *)

\* A token for each sample since the reset: its latency, and which of the
\* samples of that latency it is.
Samples == UNION {{l} \X (1..observed[l]) : l \in Latency}

\* A token for each millisecond of each sample.
Milliseconds == UNION {{s} \X (1..s[1]) : s \in Samples}

\* The samples no slower than l, and those that belong in bucket i.
NoSlower(l) == {s \in Samples : s[1] <= l}
Within(i) == {s \in Samples : BucketOf(s[1]) = i}

\* The nearest-rank percentile: the least latency that p percent of the samples
\* do not exceed.
Covering(p) == {l \in Latency : 100 * Cardinality(NoSlower(l)) >= p * count}
NearestRank(p) == Min(Covering(p))

-----------------------------------------------------------------------------
(* Properties. *)

\* A reported percentile is never above the true one, and below it by less
\* than a bucket; beyond the covered range it is the maximum instead.
PercentilesAreClose ==
    count > 0 =>
        \A p \in Percentile :
            LET exact == NearestRank(p)
            IN  IF exact < BucketCount * BucketWidth
                THEN percentile(p) <= exact /\ exact < percentile(p) + BucketWidth
                ELSE percentile(p) = max /\ exact <= max

\* A higher percentile is never reported lower, and none is above the maximum
\* reported beside it.
PercentilesAreOrdered ==
    \A p \in Percentile :
        /\ percentile(p) <= max
        /\ \A q \in Percentile : p <= q => percentile(p) <= percentile(q)

\* The statistics are those of the samples since the last reset: nothing of an
\* earlier window is left in any of them.
ReflectsSamplesSinceReset ==
    /\ count = Cardinality(Samples)
    /\ \A i \in Bucket : buckets[i] = Cardinality(Within(i))
    /\ sum = Cardinality(Milliseconds)
    /\ max = Max({0} \cup {l \in Latency : observed[l] > 0})
=============================================================================
