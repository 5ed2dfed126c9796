----------------------- MODULE LatencyHistogramProofs -----------------------
(***************************************************************************)
(* Theorems of LatencyHistogram, for any set of latencies, any number and  *)
(* width of buckets and any number of samples. The provers have no         *)
(* induction over data: what replaces it is that a set of naturals that    *)
(* has an element has a least one.                                         *)
(***************************************************************************)
EXTENDS LatencyHistogram, FiniteSetTheorems, TLAPS

-----------------------------------------------------------------------------
(* Least and greatest numbers. *)

\* The least-number principle, for a set.
LEMMA LeastNumber ==
    ASSUME NEW T \in SUBSET Nat, T # {}
    PROVE  \E m \in T : \A n \in T : m <= n
<1>1. IsWellFoundedOn(OpToRel(<, Nat), Nat)
  BY NatLessThanWellFounded
<1>2. PICK m \in T : \A n \in T : ~ (<<n, m>> \in OpToRel(<, Nat))
  BY <1>1, WFMin
<1>3. \A n \in T : ~ (n < m)
  BY <1>2 DEF OpToRel
<1> QED
  BY <1>3

\* Min is the least number of a set.
LEMMA MinOf ==
    ASSUME NEW T \in SUBSET Nat, T # {}
    PROVE  Min(T) \in T /\ \A n \in T : Min(T) <= n
  BY LeastNumber DEF Min

\* A set of numbers with an upper bound has a greatest one.
LEMMA GreatestNumber ==
    ASSUME NEW T \in SUBSET Nat, T # {}, NEW b \in Nat, \A n \in T : n <= b
    PROVE  \E m \in T : \A n \in T : n <= m
<1> DEFINE Bounds == {c \in Nat : \A n \in T : n <= c}
<1>1. PICK c \in Bounds : \A d \in Bounds : c <= d
  BY LeastNumber
<1>2. c \in T
  <2> SUFFICES ASSUME c \notin T PROVE FALSE
    OBVIOUS
  <2>1. \A n \in T : n < c
    BY <1>1
  <2>2. PICK t \in T : TRUE
    OBVIOUS
  <2>3. t \in Nat /\ t < c
    BY <2>1
  <2>4. c - 1 \in Bounds
    BY <2>1, <2>3
  <2> QED
    BY <1>1, <2>4
<1> QED
  BY <1>1, <1>2

-----------------------------------------------------------------------------
(* Arithmetic. *)

\* Buckets are in range, and a slower sample is not in an earlier bucket.
LEMMA BucketsInOrder ==
    /\ \A l \in Nat : BucketOf(l) \in Bucket
    /\ \A l, k \in Nat : l <= k => BucketOf(l) <= BucketOf(k)
<1> USE BucketAssumption DEF BucketOf, Bucket
<1>1. \A l \in Nat : l \div BucketWidth \in Nat
  OBVIOUS
<1>2. \A l, k \in Nat : l <= k => l \div BucketWidth <= k \div BucketWidth
  OBVIOUS
<1> QED
  BY <1>1, <1>2

\* A later bucket has no lower an edge.
LEMMA EdgesInOrder ==
    ASSUME NEW i \in Nat, NEW j \in Nat, i <= j
    PROVE  i * BucketWidth <= j * BucketWidth
  BY BucketAssumption

\* Below the overflow a bucket holds the latencies from its lower edge up to
\* that of the next; what lies beyond the buckets is in the overflow.
LEMMA BucketEdges ==
    ASSUME NEW l \in Nat
    PROVE  IF l < BucketCount * BucketWidth
           THEN /\ BucketOf(l) # BucketCount
                /\ BucketOf(l) * BucketWidth <= l
                /\ l < BucketOf(l) * BucketWidth + BucketWidth
           ELSE BucketOf(l) = BucketCount
<1> DEFINE d == l \div BucketWidth
<1>1. d \in Nat /\ d * BucketWidth <= l /\ l < d * BucketWidth + BucketWidth
  BY BucketAssumption
<1>2. l < BucketCount * BucketWidth <=> d < BucketCount
  BY <1>1, BucketAssumption
<1> QED
  BY <1>1, <1>2, BucketAssumption DEF BucketOf

\* The target is the least number of samples that makes up p percent.
LEMMA TargetIsCeiling ==
    ASSUME count \in Nat, NEW p \in Percentile, NEW n \in Nat
    PROVE  /\ Target(p) \in Nat
           /\ n >= Target(p) <=> 100 * n >= p * count
           /\ count > 0 => Target(p) > 0
<1> DEFINE x == p * count
<1>1. x \in Nat /\ (count > 0 => x > 0)
  BY PercentileAssumption
<1>2. \A y \in Nat : /\ (y + 99) \div 100 \in Nat
                     /\ n >= (y + 99) \div 100 <=> 100 * n >= y
                     /\ y > 0 => (y + 99) \div 100 > 0
  OBVIOUS
<1> QED
  BY <1>1, <1>2 DEF Target
-----------------------------------------------------------------------------
(* The inductive invariant. *)

HistogramTypeOK ==
    /\ buckets \in [Bucket -> Nat]
    /\ count \in 0..MaxSamples
    /\ sum \in Nat
    /\ max \in Nat
    /\ observed \in [Latency -> Nat]

\* The latencies recorded since the reset.
Recorded == {l \in Latency : observed[l] > 0}

\* What the code adds up is what the samples add up to.
Tallied ==
    /\ IsFiniteSet(Samples) /\ count = Cardinality(Samples)
    /\ \A i \in Bucket : buckets[i] = Cardinality(Within(i))
    /\ IsFiniteSet(Milliseconds) /\ sum = Cardinality(Milliseconds)

\* The maximum is the greatest latency recorded, 0 when there is none.
MaxIsGreatest ==
    /\ max \in {0} \cup Recorded
    /\ \A l \in Recorded : l <= max

IInv == HistogramTypeOK /\ Tallied /\ MaxIsGreatest

\* A sample is an occurrence of a latency that was recorded.
LEMMA SamplesAre ==
    ASSUME HistogramTypeOK
    PROVE  /\ \A l \in Latency, n \in Nat :
                 <<l, n>> \in Samples <=> n \in 1..observed[l]
           /\ \A s \in Samples : /\ s = <<s[1], s[2]>>
                                 /\ s[1] \in Recorded
                                 /\ s[2] \in 1..observed[s[1]]
           /\ \A l \in Recorded : <<l, 1>> \in Samples
  BY DEF HistogramTypeOK, Samples, Recorded

\* A recorded latency is one token more in each of the sets of samples.
LEMMA NewSample ==
    ASSUME HistogramTypeOK, NEW l \in Latency, record(l)
    PROVE  LET t == <<l, observed[l] + 1>>
           IN  /\ t \notin Samples
               /\ Samples' = Samples \cup {t}
               /\ Milliseconds' = Milliseconds \cup ({t} \X (1..l))
               /\ Milliseconds \cap ({t} \X (1..l)) = {}
<1> DEFINE t == <<l, observed[l] + 1>>
<1>1. t \notin Samples
  BY SamplesAre DEF HistogramTypeOK
<1>2. Samples' = Samples \cup {t}
  <2>1. observed' = [observed EXCEPT ![l] = @ + 1] /\ observed \in [Latency -> Nat]
    BY DEF record, HistogramTypeOK
  <2>2. 1..observed'[l] = (1..observed[l]) \cup {observed[l] + 1}
    BY <2>1
  <2>3. \A k \in Latency \ {l} : observed'[k] = observed[k]
    BY <2>1
  <2> QED
    BY <2>2, <2>3 DEF Samples
<1>3. Milliseconds' = Milliseconds \cup ({t} \X (1..l))
  BY <1>2 DEF Milliseconds
<1>4. Milliseconds \cap ({t} \X (1..l)) = {}
  BY <1>1 DEF Milliseconds
<1> QED
  BY <1>1, <1>2, <1>3, <1>4

\* A histogram that is empty tallies with no samples.
LEMMA EmptyHistogram ==
    /\ Init => IInv
    /\ reset => IInv'
<1>1. ASSUME observed = [l \in Latency |-> 0] PROVE Samples = {} /\ Recorded = {}
  BY <1>1 DEF Samples, Recorded
<1>2. ASSUME Samples = {} PROVE Milliseconds = {} /\ \A i \in Bucket : Within(i) = {}
  BY <1>2 DEF Milliseconds, Within
<1>3. ASSUME Init PROVE IInv
  <2>1. HistogramTypeOK
    BY <1>3, SamplesAssumption DEF Init, HistogramTypeOK
  <2>2. Tallied
    BY <1>1, <1>2, <1>3, FS_EmptySet DEF Init, Tallied
  <2>3. MaxIsGreatest
    BY <1>1, <1>3 DEF Init, MaxIsGreatest
  <2> QED
    BY <2>1, <2>2, <2>3 DEF IInv
<1>4. reset => Init'
  BY DEF reset, Init
<1>5. Init' => IInv'
  BY <1>3, PTL
<1> QED
  BY <1>3, <1>4, <1>5

\* Recording keeps the tallies.
LEMMA RecordTallies ==
    ASSUME IInv, NEW l \in Latency, record(l)
    PROVE  Tallied'
<1> DEFINE t == <<l, observed[l] + 1>>
           ms == {t} \X (1..l)
<1> USE DEF IInv
<1>1. /\ t \notin Samples
      /\ Samples' = Samples \cup {t}
      /\ Milliseconds' = Milliseconds \cup ms
      /\ Milliseconds \cap ms = {}
  BY NewSample
<1>2. l \in Nat /\ BucketOf(l) \in Bucket /\ count \in Nat /\ sum \in Nat
  BY LatencyAssumption, SamplesAssumption, BucketsInOrder DEF HistogramTypeOK
<1>3. IsFiniteSet(Samples') /\ Cardinality(Samples') = Cardinality(Samples) + 1
  BY <1>1, FS_AddElement DEF Tallied
<1>4. count' = Cardinality(Samples')
  BY <1>3 DEF Tallied, record
<1>5. ASSUME NEW i \in Bucket PROVE buckets'[i] = Cardinality(Within(i)')
  <2>1. IsFiniteSet(Within(i)) /\ buckets[i] = Cardinality(Within(i))
    BY FS_Subset DEF Within, Tallied
  <2>2. buckets \in [Bucket -> Nat] /\ buckets' = [buckets EXCEPT ![BucketOf(l)] = @ + 1]
    BY DEF HistogramTypeOK, record
  <2>3. CASE i = BucketOf(l)
    <3>1. Within(i)' = Within(i) \cup {t} /\ t \notin Within(i)
      BY <1>1, <2>3 DEF Within
    <3>2. Cardinality(Within(i)') = Cardinality(Within(i)) + 1
      BY <2>1, <3>1, FS_AddElement
    <3>3. buckets'[i] = buckets[i] + 1
      BY <2>2, <2>3
    <3> QED
      BY <2>1, <3>2, <3>3
  <2>4. CASE i # BucketOf(l)
    <3>1. Within(i)' = Within(i)
      BY <1>1, <2>4 DEF Within
    <3> QED
      BY <2>1, <2>2, <2>4, <3>1
  <2> QED
    BY <2>3, <2>4
<1>6. IsFiniteSet(ms) /\ Cardinality(ms) = l
  <2>1. IsFiniteSet({t}) /\ Cardinality({t}) = 1
    BY FS_Singleton
  <2>2. IsFiniteSet(1..l) /\ Cardinality(1..l) = l
    BY <1>2, FS_Interval
  <2>3. IsFiniteSet(ms) /\ Cardinality(ms) = Cardinality({t}) * Cardinality(1..l)
    BY <2>1, <2>2, FS_Product
  <2> QED
    BY <1>2, <2>1, <2>2, <2>3
<1>7. IsFiniteSet(Milliseconds') /\ sum' = Cardinality(Milliseconds')
  <2>1. IsFiniteSet(Milliseconds) /\ sum = Cardinality(Milliseconds)
    BY DEF Tallied
  <2>2. Cardinality(Milliseconds \cap ms) = 0
    BY <1>1, FS_EmptySet
  <2>3. sum' = sum + l
    BY DEF record
  <2> QED
    BY <1>1, <1>2, <1>6, <2>1, <2>2, <2>3, FS_Union
<1> QED
  BY <1>3, <1>4, <1>5, <1>7 DEF Tallied

\* The invariant is inductive: reset empties everything, record adds one sample
\* to everything.
THEOREM HistogramInvariance == Spec => []IInv
<1>1. Init => IInv
  BY EmptyHistogram
<1>2. IInv /\ [Next]_vars => IInv'
  <2> SUFFICES ASSUME IInv, [Next]_vars PROVE IInv'
    OBVIOUS
  <2>1. CASE reset
    BY <2>1, EmptyHistogram
  <2>2. ASSUME NEW l \in Latency, record(l) PROVE IInv'
    <3>1. HistogramTypeOK'
      <4>1. l \in Nat /\ BucketOf(l) \in Bucket
        BY LatencyAssumption, BucketsInOrder
      <4>2. buckets' \in [Bucket -> Nat] /\ observed' \in [Latency -> Nat]
        BY <2>2, <4>1 DEF IInv, HistogramTypeOK, record
      <4>3. count' \in 0..MaxSamples /\ sum' \in Nat /\ max' \in Nat
        BY <2>2, <4>1, SamplesAssumption DEF IInv, HistogramTypeOK, record
      <4> QED
        BY <4>2, <4>3 DEF HistogramTypeOK
    <3>2. Tallied'
      BY <2>2, RecordTallies
    <3>3. MaxIsGreatest'
      <4>1. Recorded' = Recorded \cup {l}
        BY <2>2 DEF IInv, HistogramTypeOK, record, Recorded
      <4>2. l \in Nat /\ max \in Nat /\ max' = IF l > max THEN l ELSE max
        BY <2>2, LatencyAssumption DEF IInv, HistogramTypeOK, record
      <4>3. Recorded \subseteq Nat
        BY LatencyAssumption DEF Recorded
      <4> QED
        BY <4>1, <4>2, <4>3 DEF IInv, MaxIsGreatest
    <3> QED
      BY <3>1, <3>2, <3>3 DEF IInv
  <2>3. CASE UNCHANGED vars
    BY <2>3 DEF vars, IInv, HistogramTypeOK, Tallied, MaxIsGreatest, Recorded,
                Within, Samples, Milliseconds
  <2> QED
    BY <2>1, <2>2, <2>3 DEF Next
<1> QED
  BY <1>1, <1>2, PTL DEF Spec

\* Whatever was recorded, and however often the histogram was reset, the number
\* of samples, every bucket, the sum and the maximum are those of the samples
\* since the last reset.
THEOREM StatisticsAreOfTheWindow == Spec => []ReflectsSamplesSinceReset
<1>1. IInv => ReflectsSamplesSinceReset
  <2> SUFFICES ASSUME IInv PROVE max = Max({0} \cup Recorded)
    BY DEF IInv, Tallied, ReflectsSamplesSinceReset, Recorded
  <2>1. max \in {0} \cup Recorded /\ \A l \in {0} \cup Recorded : max >= l
    BY LatencyAssumption DEF IInv, MaxIsGreatest, HistogramTypeOK, Recorded
  <2>2. \A m \in {0} \cup Recorded :
            (\A l \in {0} \cup Recorded : m >= l) => m = max
    BY <2>1, LatencyAssumption DEF IInv, HistogramTypeOK, Recorded
  <2> QED
    BY <2>1, <2>2 DEF Max
<1> QED
  BY <1>1, HistogramInvariance, PTL
-----------------------------------------------------------------------------
(* The loop of percentile(). *)

\* The samples in the buckets up to i.
UpTo(i) == {s \in Samples : BucketOf(s[1]) <= i}

\* A bucket adds its own samples to those of the buckets before it.
LEMMA BucketAdds ==
    ASSUME IInv, NEW i \in Bucket
    PROVE  /\ IsFiniteSet(UpTo(i)) /\ Cardinality(UpTo(i)) \in Nat
           /\ Cardinality(UpTo(i)) =
                 buckets[i] + (IF i = 0 THEN 0 ELSE Cardinality(UpTo(i - 1)))
<1> USE DEF IInv
<1>1. \A s \in Samples : BucketOf(s[1]) \in Bucket
  BY SamplesAre, BucketsInOrder, LatencyAssumption DEF Recorded
<1>2. /\ IsFiniteSet(UpTo(i)) /\ IsFiniteSet(UpTo(i - 1)) /\ IsFiniteSet(Within(i))
      /\ buckets[i] = Cardinality(Within(i))
  BY FS_Subset DEF Tallied, UpTo, Within
<1>3. /\ Cardinality(UpTo(i)) \in Nat
      /\ Cardinality(UpTo(i - 1)) \in Nat
      /\ Cardinality(Within(i)) \in Nat
  BY <1>2, FS_CardinalityType
<1>4. CASE i = 0
  <2>1. UpTo(i) = Within(i)
    BY <1>1, <1>4 DEF UpTo, Within, Bucket
  <2> QED
    BY <1>2, <1>3, <1>4, <2>1
<1>5. CASE i # 0
  <2>1. UpTo(i) = UpTo(i - 1) \cup Within(i)
    BY <1>1, <1>5 DEF UpTo, Within, Bucket
  <2>2. UpTo(i - 1) \cap Within(i) = {}
    BY <1>1, <1>5 DEF UpTo, Within, Bucket
  <2>3. Cardinality(UpTo(i - 1) \cap Within(i)) = 0
    BY <2>2, FS_EmptySet
  <2>4. Cardinality(UpTo(i)) =
            Cardinality(UpTo(i - 1)) + Cardinality(Within(i))
              - Cardinality(UpTo(i - 1) \cap Within(i))
    BY <1>2, <2>1, FS_Union
  <2> QED
    BY <1>2, <1>3, <1>5, <2>3, <2>4
<1> QED
  BY <1>2, <1>3, <1>4, <1>5

\* After bucket i the loop has seen exactly the samples in the buckets up to i.
\* That these numbers satisfy the recursion shows that Seen is defined; that it
\* is they and no others follows from the least bucket where it would differ.
LEMMA SeenCounts ==
    ASSUME IInv
    PROVE  \A i \in Bucket : Seen[i] = Cardinality(UpTo(i))
<1> DEFINE counts == [i \in Bucket |-> Cardinality(UpTo(i))]
<1>1. Bucket \subseteq Nat /\ \A i \in Bucket : i # 0 => i - 1 \in Bucket
  BY BucketAssumption DEF Bucket
<1>2. counts = [i \in Bucket |-> buckets[i] + (IF i = 0 THEN 0 ELSE counts[i - 1])]
  BY <1>1, BucketAdds
<1>3. \E f : f = [i \in Bucket |-> buckets[i] + (IF i = 0 THEN 0 ELSE f[i - 1])]
  BY <1>2
<1>4. Seen = [i \in Bucket |-> buckets[i] + (IF i = 0 THEN 0 ELSE Seen[i - 1])]
  BY <1>3 DEF Seen
<1> DEFINE Differs == {i \in Bucket : Seen[i] # counts[i]}
<1>5. SUFFICES ASSUME Differs # {} PROVE FALSE
  OBVIOUS
<1>6. PICK m \in Differs : \A i \in Differs : m <= i
  BY <1>1, <1>5, LeastNumber
<1>7. m # 0 => Seen[m - 1] = counts[m - 1]
  BY <1>1, <1>6
<1> HIDE DEF counts
<1>8. /\ Seen[m] = buckets[m] + (IF m = 0 THEN 0 ELSE Seen[m - 1])
      /\ counts[m] = buckets[m] + (IF m = 0 THEN 0 ELSE counts[m - 1])
  BY <1>2, <1>4, <1>6
<1> QED
  BY <1>6, <1>7, <1>8

\* The loop stops: the last bucket has seen every sample, so what follows the
\* loop in percentile() is never reached.
LEMMA LoopStops ==
    ASSUME IInv, count > 0, NEW p \in Percentile
    PROVE  /\ Reaching(p) \in SUBSET Nat
           /\ Min(Reaching(p)) \in Reaching(p)
           /\ \A j \in Reaching(p) : Min(Reaching(p)) <= j
<1> USE DEF IInv
<1>1. Reaching(p) \in SUBSET Nat
  BY DEF Reaching, Bucket
<1>2. BucketCount \in Bucket
  BY BucketAssumption DEF Bucket
<1>3. UpTo(BucketCount) = Samples
  <2>1. \A s \in Samples : BucketOf(s[1]) \in Bucket
    BY SamplesAre, BucketsInOrder, LatencyAssumption DEF Recorded
  <2> QED
    BY <2>1, BucketAssumption DEF UpTo, Bucket
<1>4. Seen[BucketCount] = count
  BY <1>2, <1>3, SeenCounts DEF Tallied
<1>5. 100 * count >= p * count
  BY PercentileAssumption DEF HistogramTypeOK
<1>6. BucketCount \in Reaching(p)
  BY <1>2, <1>4, <1>5, TargetIsCeiling DEF Reaching, HistogramTypeOK
<1> QED
  BY <1>1, <1>6, MinOf

\* There is a nearest-rank percentile, and the maximum is not below it.
LEMMA RankIsTaken ==
    ASSUME IInv, count > 0, NEW p \in Percentile
    PROVE  /\ NearestRank(p) \in Covering(p)
           /\ NearestRank(p) \in Nat
           /\ \A l \in Covering(p) : NearestRank(p) <= l
           /\ NearestRank(p) <= max
<1> USE DEF IInv
<1>1. Covering(p) \in SUBSET Nat
  BY LatencyAssumption DEF Covering
<1>2. PICK s \in Samples : TRUE
  BY FS_EmptySet DEF Tallied
<1>3. max \in Latency
  BY <1>2, SamplesAre, LatencyAssumption
  DEF MaxIsGreatest, HistogramTypeOK, Recorded
<1>4. NoSlower(max) = Samples
  BY SamplesAre DEF NoSlower, MaxIsGreatest
<1>5. 100 * count >= p * count
  BY PercentileAssumption DEF HistogramTypeOK
<1>6. max \in Covering(p)
  BY <1>3, <1>4, <1>5 DEF Covering, Tallied
<1> QED
  BY <1>1, <1>6, MinOf DEF NearestRank

\* The loop stops at the bucket the nearest-rank percentile belongs in. It does
\* not stop before: the greatest latency of the buckets seen would cover p
\* percent of the samples, and so be no less than that percentile.
LEMMA StopsAtItsBucket ==
    ASSUME IInv, count > 0, NEW p \in Percentile
    PROVE  Min(Reaching(p)) = BucketOf(NearestRank(p))
<1> DEFINE exact == NearestRank(p)
           b == BucketOf(exact)
           i == Min(Reaching(p))
<1> USE DEF IInv
<1>1. /\ exact \in Covering(p) /\ exact \in Nat
      /\ \A l \in Covering(p) : exact <= l
  BY RankIsTaken
<1>2. i \in Reaching(p) /\ \A j \in Reaching(p) : i <= j
  BY LoopStops
<1>3. /\ b \in Bucket /\ i \in Bucket
      /\ b \in Nat /\ i \in Nat
  BY <1>1, <1>2, BucketsInOrder DEF Reaching, Bucket
<1>4. \A s \in Samples : s[1] \in Nat /\ s[1] <= max /\ BucketOf(s[1]) \in Nat
  <2>1. \A s \in Samples : s[1] \in Recorded
    BY SamplesAre
  <2>2. \A l \in Nat : BucketOf(l) \in Nat
    BY BucketsInOrder DEF Bucket
  <2> QED
    BY <2>1, <2>2, LatencyAssumption DEF Recorded, MaxIsGreatest
<1>5. \A S \in SUBSET Samples : IsFiniteSet(S) /\ Cardinality(S) \in Nat
  BY FS_Subset, FS_CardinalityType DEF Tallied
<1>6. \A S, U \in SUBSET Samples : S \subseteq U => Cardinality(S) <= Cardinality(U)
  BY <1>5, FS_Subset
<1>7. count \in Nat
  BY DEF HistogramTypeOK
<1>8. i <= b
  <2>1. NoSlower(exact) \subseteq UpTo(b)
    BY <1>1, <1>4, BucketsInOrder DEF NoSlower, UpTo
  <2>2. Cardinality(NoSlower(exact)) <= Cardinality(UpTo(b))
    BY <1>6, <2>1 DEF NoSlower, UpTo
  <2>3. Seen[b] = Cardinality(UpTo(b)) /\ Seen[b] \in Nat
    BY <1>3, <1>5, SeenCounts DEF UpTo
  <2>4. 100 * Cardinality(NoSlower(exact)) >= p * count
    BY <1>1 DEF Covering
  <2>5. Cardinality(NoSlower(exact)) \in Nat /\ p * count \in Nat
    BY <1>5, <1>7, PercentileAssumption DEF NoSlower
  <2>6. 100 * Seen[b] >= p * count
    BY <2>2, <2>3, <2>4, <2>5
  <2>7. Seen[b] >= Target(p)
    BY <1>7, <2>3, <2>6, TargetIsCeiling
  <2> QED
    BY <1>2, <1>3, <2>7 DEF Reaching
<1>9. b <= i
  <2> SUFFICES ASSUME i < b PROVE FALSE
    BY <1>3
  <2> DEFINE latencies == {l \in Latency : \E s \in UpTo(i) : s[1] = l}
  <2>1. Seen[i] = Cardinality(UpTo(i)) /\ Seen[i] \in Nat /\ Seen[i] >= Target(p)
    BY <1>2, <1>3, <1>5, SeenCounts DEF UpTo, Reaching
  <2>2. UpTo(i) # {}
    BY <1>7, <2>1, TargetIsCeiling, FS_EmptySet
  <2>3. latencies \in SUBSET Nat /\ latencies # {} /\ max \in Nat
        /\ \A l \in latencies : l <= max
    BY <1>4, <2>2, SamplesAre, LatencyAssumption
    DEF UpTo, Recorded, HistogramTypeOK
  <2>4. PICK m \in latencies : \A l \in latencies : l <= m
    BY <2>3, GreatestNumber
  <2>5. m \in Nat /\ m \in Latency /\ BucketOf(m) <= i
    BY <2>3, <2>4 DEF UpTo
  <2>6. UpTo(i) \subseteq NoSlower(m)
    BY <2>4, SamplesAre DEF UpTo, NoSlower, Recorded
  <2>7. Cardinality(UpTo(i)) <= Cardinality(NoSlower(m))
        /\ Cardinality(NoSlower(m)) \in Nat
    BY <1>5, <1>6, <2>6 DEF UpTo, NoSlower
  <2>8. 100 * Seen[i] >= p * count
    BY <1>7, <2>1, TargetIsCeiling
  <2>9. 100 * Cardinality(NoSlower(m)) >= p * count
    <3>1. p * count \in Nat
      BY <1>7, PercentileAssumption
    <3> QED
      BY <2>1, <2>7, <2>8, <3>1
  <2>10. exact <= m
    BY <1>1, <2>5, <2>9 DEF Covering
  <2>11. b <= BucketOf(m) /\ BucketOf(m) \in Nat
    BY <1>1, <2>5, <2>10, BucketsInOrder DEF Bucket
  <2> QED
    BY <1>3, <2>5, <2>11
<1> QED
  BY <1>3, <1>8, <1>9
-----------------------------------------------------------------------------
(* What percentile() returns. *)

\* In every state a reported percentile is close to the true one.
LEMMA CloseInEveryState ==
    ASSUME IInv
    PROVE  PercentilesAreClose
<1> SUFFICES ASSUME count > 0, NEW p \in Percentile
             PROVE  LET exact == NearestRank(p)
                    IN  IF exact < BucketCount * BucketWidth
                        THEN percentile(p) <= exact
                             /\ exact < percentile(p) + BucketWidth
                        ELSE percentile(p) = max /\ exact <= max
  BY DEF PercentilesAreClose
<1> DEFINE exact == NearestRank(p)
<1>1. exact \in Nat /\ exact <= max
  BY RankIsTaken
<1>2. percentile(p) = IF BucketOf(exact) = BucketCount THEN max
                      ELSE BucketOf(exact) * BucketWidth
  <2>1. count # 0
    BY DEF IInv, HistogramTypeOK
  <2> QED
    BY <2>1, StopsAtItsBucket DEF percentile
<1> QED
  BY <1>1, <1>2, BucketEdges

\* A percentile is a latency no greater than the maximum.
LEMMA WithinMaximum ==
    ASSUME IInv, NEW p \in Percentile
    PROVE  percentile(p) \in Nat /\ percentile(p) <= max
<1>1. max \in Nat /\ count \in Nat
  BY DEF IInv, HistogramTypeOK
<1>2. CASE count = 0
  BY <1>1, <1>2 DEF percentile
<1>3. CASE count > 0
  <2>1. percentile(p) \in Nat
    <3>1. Min(Reaching(p)) \in Nat
      BY <1>3, LoopStops
    <3> QED
      BY <1>1, <3>1, BucketAssumption DEF percentile
  <2>2. /\ NearestRank(p) \in Nat /\ NearestRank(p) <= max
        /\ percentile(p) <= NearestRank(p) \/ percentile(p) = max
    BY <1>3, RankIsTaken, CloseInEveryState DEF PercentilesAreClose
  <2> QED
    BY <1>1, <2>1, <2>2
<1> QED
  BY <1>1, <1>2, <1>3

\* Whatever the samples, the width of a bucket and the percentiles asked for.
THEOREM PercentilesAreCloseToTheTrueOnes == Spec => []PercentilesAreClose
  BY CloseInEveryState, HistogramInvariance, PTL

\* Whatever the samples: a higher percentile needs no fewer of them, so the loop
\* stops no earlier.
THEOREM PercentilesInOrder == Spec => []PercentilesAreOrdered
<1>1. ASSUME IInv, NEW p \in Percentile, NEW q \in Percentile, p <= q
      PROVE  percentile(p) <= percentile(q)
  <2>1. max \in Nat /\ count \in Nat
    BY <1>1 DEF IInv, HistogramTypeOK
  <2>2. CASE count = 0
    BY <2>2 DEF percentile
  <2>3. CASE count > 0
    <3> DEFINE i == Min(Reaching(p))
               j == Min(Reaching(q))
    <3>1. i \in Reaching(p) /\ (\A k \in Reaching(p) : i <= k) /\ j \in Reaching(q)
      BY <1>1, <2>3, LoopStops
    <3>2. Bucket \subseteq Nat /\ i \in Bucket /\ j \in Bucket
      BY <3>1 DEF Reaching, Bucket
    <3>3. Seen[j] \in Nat
      <4>1. Seen[j] = Cardinality(UpTo(j)) /\ IsFiniteSet(UpTo(j))
        BY <1>1, <3>2, SeenCounts, BucketAdds
      <4> QED
        BY <4>1, FS_CardinalityType
    <3>4. Seen[j] >= Target(p)
      <4>1. 100 * Seen[j] >= q * count
        BY <2>1, <3>1, <3>3, TargetIsCeiling DEF Reaching
      <4>2. q * count >= p * count
        BY <1>1, <2>1, PercentileAssumption
      <4>3. p * count \in Nat /\ q * count \in Nat
        BY <2>1, PercentileAssumption
      <4>4. 100 * Seen[j] >= p * count
        BY <3>3, <4>1, <4>2, <4>3
      <4> QED
        BY <2>1, <3>3, <4>4, TargetIsCeiling
    <3>5. i <= j
      BY <3>1, <3>2, <3>4 DEF Reaching
    <3>6. CASE j = BucketCount
      BY <2>1, <2>3, <3>6, <1>1, WithinMaximum DEF percentile
    <3>7. CASE j # BucketCount
      <4>1. i # BucketCount
        BY <3>2, <3>5, <3>7, BucketAssumption DEF Bucket
      <4>2. i * BucketWidth <= j * BucketWidth
        BY <3>2, <3>5, EdgesInOrder
      <4> QED
        BY <2>3, <3>7, <4>1, <4>2 DEF percentile
    <3> QED
      BY <3>6, <3>7
  <2> QED
    BY <2>1, <2>2, <2>3
<1>2. IInv => PercentilesAreOrdered
  BY <1>1, WithinMaximum DEF PercentilesAreOrdered
<1> QED
  BY <1>2, HistogramInvariance, PTL

\* The return that follows the loop of percentile() is never reached.
THEOREM LoopAlwaysStops ==
    Spec => [](count > 0 => \A p \in Percentile : Reaching(p) # {})
<1>1. IInv => (count > 0 => \A p \in Percentile : Reaching(p) # {})
  BY LoopStops
<1> QED
  BY <1>1, HistogramInvariance, PTL
=============================================================================
