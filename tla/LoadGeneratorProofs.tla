------------------------- MODULE LoadGeneratorProofs -------------------------
(***************************************************************************)
(* Theorems of LoadGenerator, for any sets of slots and ids and any bounds *)
(* of the pool and of the requests.                                        *)
(***************************************************************************)
EXTENDS LoadGenerator, FiniteSetTheorems, SequenceTheorems, TLAPS

Distinct(s) == \A i, j \in DOMAIN s : s[i] = s[j] => i = j

-----------------------------------------------------------------------------
(* Lemmas about the pool. *)

\* A sequence without repetitions has as many elements as positions.
LEMMA DistinctCardinality ==
    ASSUME NEW s \in Seq(Id), Distinct(s)
    PROVE  IsFiniteSet(ToSet(s)) /\ Cardinality(ToSet(s)) = Len(s)
<1> DEFINE f == [i \in 1..Len(s) |-> s[i]]
<1>1. Len(s) \in Nat /\ DOMAIN s = 1..Len(s)
  OBVIOUS
<1>2. IsFiniteSet(1..Len(s)) /\ Cardinality(1..Len(s)) = Len(s)
  BY <1>1, FS_Interval
<1>3. f \in Bijection(1..Len(s), ToSet(s))
  BY <1>1 DEF Distinct, ToSet, Bijection, Injection, Surjection, IsInjective
<1> QED
  BY <1>2, <1>3, FS_Bijection DEF ExistsBijection

\* Taking one element out leaves the others, none of them twice.
LEMMA RemoveAtPool ==
    ASSUME NEW s \in Seq(Id), Distinct(s), NEW i \in DOMAIN s
    PROVE  /\ RemoveAt(s, i) \in Seq(Id)
           /\ Len(RemoveAt(s, i)) = Len(s) - 1
           /\ Distinct(RemoveAt(s, i))
           /\ ToSet(RemoveAt(s, i)) \subseteq ToSet(s) \ {s[i]}
<1> DEFINE t == RemoveAt(s, i)
           g(j) == IF j < i THEN j ELSE j + 1
<1>1. Len(s) \in Nat /\ DOMAIN s = 1..Len(s) /\ i \in 1..Len(s)
  OBVIOUS
<1> DEFINE u == SubSeq(s, 1, i - 1)
           v == SubSeq(s, i + 1, Len(s))
<1>2. /\ u \in Seq(Id)
      /\ Len(u) = i - 1
      /\ \A j \in 1..(i - 1) : u[j] = s[j]
  BY <1>1, SubSeqProperties
<1>3. /\ v \in Seq(Id)
      /\ Len(v) = Len(s) - i
      /\ \A j \in 1..(Len(s) - i) : v[j] = s[i + j]
  BY <1>1, SubSeqProperties
<1>4. /\ t = u \o v
      /\ t \in Seq(Id)
      /\ Len(t) = Len(s) - 1
      /\ \A j \in 1..(Len(s) - 1) : t[j] = IF j <= i - 1 THEN u[j] ELSE v[j - (i - 1)]
  <2>1. t = u \o v
    BY DEF RemoveAt
  <2> HIDE DEF t, u, v
  <2>2. /\ u \o v \in Seq(Id)
        /\ Len(u \o v) = Len(u) + Len(v)
        /\ \A j \in 1..(Len(u) + Len(v)) :
              (u \o v)[j] = IF j <= Len(u) THEN u[j] ELSE v[j - Len(u)]
    BY <1>2, <1>3, ConcatProperties, Zenon
  <2>3. Len(u) = i - 1 /\ Len(u) + Len(v) = Len(s) - 1
    BY <1>1, <1>2, <1>3
  <2> QED
    BY <2>1, <2>2, <2>3
<1>5. \A j \in 1..Len(t) : t[j] = s[g(j)]
  <2> HIDE DEF t, u, v
  <2> SUFFICES ASSUME NEW j \in 1..Len(t) PROVE t[j] = s[g(j)]
    OBVIOUS
  <2>1. j \in 1..(Len(s) - 1)
    BY <1>4
  <2>2. CASE j < i
    BY <1>1, <1>2, <1>4, <2>1, <2>2
  <2>3. CASE ~(j < i)
    <3>1. j - (i - 1) \in 1..(Len(s) - i) /\ i + (j - (i - 1)) = j + 1
      BY <1>1, <2>1, <2>3
    <3>2. v[j - (i - 1)] = s[j + 1]
      BY <1>3, <3>1
    <3> QED
      BY <1>1, <1>4, <2>1, <2>3, <3>2
  <2> QED
    BY <2>2, <2>3
<1>6. /\ \A j \in 1..Len(t) : g(j) \in DOMAIN s /\ g(j) # i
      /\ \A j, k \in 1..Len(t) : g(j) = g(k) => j = k
  <2> HIDE DEF t, u, v
  <2>1. 1..Len(t) = 1..(Len(s) - 1)
    BY <1>4
  <2>2. \A j \in 1..(Len(s) - 1) : g(j) \in 1..Len(s) /\ g(j) # i
    BY <1>1
  <2>3. \A j, k \in 1..(Len(s) - 1) : g(j) = g(k) => j = k
    BY <1>1
  <2> HIDE DEF g
  <2> QED
    BY <1>1, <2>1, <2>2, <2>3
<1>7. DOMAIN t = 1..Len(t)
  BY <1>4
<1>8. Distinct(t)
  <2> HIDE DEF t, g
  <2> QED
    BY <1>5, <1>6, <1>7 DEF Distinct
<1>9. ToSet(t) \subseteq ToSet(s) \ {s[i]}
  <2> HIDE DEF t, g
  <2> QED
    BY <1>5, <1>6, <1>7 DEF Distinct, ToSet
<1> QED
  BY <1>4, <1>8, <1>9

\* A push keeps the pool within the cap and puts no id in twice.
LEMMA PushPool ==
    ASSUME pool \in Seq(Id), Distinct(pool), Len(pool) <= PoolCap,
           NEW id \in Id, id \notin ToSet(pool)
    PROVE  /\ Push(id) \in Seq(Id)
           /\ Len(Push(id)) <= PoolCap
           /\ Distinct(Push(id))
           /\ ToSet(Push(id)) \subseteq ToSet(pool) \cup {id}
<1> DEFINE s == Append(pool, id)
<1>1. Len(pool) \in Nat /\ PoolCap \in Nat \ {0} /\ DOMAIN pool = 1..Len(pool)
  BY PoolCapAssumption
<1>2. /\ s \in Seq(Id)
      /\ Len(s) = Len(pool) + 1
      /\ DOMAIN s = 1..(Len(pool) + 1)
      /\ \A j \in 1..Len(pool) : s[j] = pool[j]
      /\ s[Len(pool) + 1] = id
  BY <1>1
<1>3. Distinct(s) /\ ToSet(s) \subseteq ToSet(pool) \cup {id}
  <2> HIDE DEF s
  <2>1. \A j \in DOMAIN s : j \in DOMAIN pool \/ j = Len(pool) + 1
    BY <1>1, <1>2
  <2> QED
    BY <1>1, <1>2, <2>1 DEF Distinct, ToSet
<1>4. CASE Len(s) <= PoolCap
  BY <1>1, <1>2, <1>3, <1>4 DEF Push
<1>5. CASE Len(s) > PoolCap
  <2>1. Push(id) = Tail(s)
    BY <1>5 DEF Push
  <2>2. /\ Tail(s) \in Seq(Id)
        /\ Len(Tail(s)) = Len(pool)
        /\ DOMAIN Tail(s) = 1..Len(pool)
        /\ \A j \in 1..Len(pool) : Tail(s)[j] = s[j + 1]
    <3> HIDE DEF s
    <3> QED
      BY <1>1, <1>2
  <2>3. \A j \in 1..Len(pool) : j + 1 \in DOMAIN s
    BY <1>1, <1>2
  <2>4. Distinct(Tail(s)) /\ ToSet(Tail(s)) \subseteq ToSet(s)
    <3> HIDE DEF s
    <3> QED
      BY <1>1, <1>3, <2>2, <2>3 DEF Distinct, ToSet
  <2> QED
    BY <1>3, <2>1, <2>2, <2>4
<1> QED
  BY <1>1, <1>2, <1>4, <1>5

-----------------------------------------------------------------------------
(* The inductive invariant. *)

\* A request that holds an id nobody else may use: a DELETE on its way, or the
\* answer to a create that is not in the pool yet.
Holds(q) ==
    \/ req[q].stage = "sent" /\ req[q].op = "delete"
    \/ req[q].stage = "answered" /\ req[q].op = "create" /\ req[q].ok

\* The pool and the requests that hold an id share no id, and all are live.
Ownership ==
    /\ Distinct(pool)
    /\ Len(pool) <= PoolCap
    /\ ToSet(pool) \subseteq live
    /\ \A q \in Slot : Holds(q) =>
          /\ req[q].id \in live \ ToSet(pool)
          /\ \A p \in Slot \ {q} : Holds(p) => req[p].id # req[q].id

\* The counters and the requests in flight add up.
Accounting ==
    /\ EveryRequestCountedOnce
    /\ PercentilesCoverTotals
    /\ warm.fired <= fired

\* What a scenario can fire, and what follows when nothing fails by itself.
Deleting == {"delete_brutal", "mixed_crud"}
Picking  == {"read_light", "update_brutal", "mixed_crud"}

Causes ==
    /\ \A q \in Slot :
          req[q].stage # "idle" =>
              /\ req[q].op = "delete" => scenario \in Deleting
              /\ req[q].op \in {"read_light", "update"} =>
                    scenario \in Picking /\ req[q].id \in minted
              /\ req[q].stage = "answered" /\ ~req[q].ok /\ ~faulty =>
                    /\ req[q].op \in {"read_light", "update"}
                    /\ req[q].id \notin live
    /\ live # minted /\ ~faulty => scenario \in Deleting
    /\ totals.failed > 0 /\ ~faulty => scenario = "mixed_crud"

LInv == TypeOK /\ Ownership /\ Accounting /\ Causes

-----------------------------------------------------------------------------
(* The ways a request is fired. *)

\* What fire() sends, and what it does to the pool.
Sent(q, op, id) ==
    /\ Send(q, op, id)
    /\ \/ /\ op \in {"create", "read_heavy", "dummy"}
          /\ id = NoId
          /\ UNCHANGED pool
       \/ /\ op \in {"read_light", "update"}
          /\ scenario \in Picking
          /\ id \in ToSet(pool)
          /\ UNCHANGED pool
       \/ /\ op = "delete"
          /\ scenario \in Deleting
          /\ \E i \in DOMAIN pool : id = pool[i] /\ pool' = RemoveAt(pool, i)

\* Every way to fire is one of these.
LEMMA FireSends ==
    ASSUME TypeOK, NEW q \in Slot, Fire(q)
    PROVE  \E op \in Op, id \in Id \cup {NoId} : Sent(q, op, id)
<1> USE DEF Op
<1>1. ASSUME NEW op \in Op, FirePlain(q, op)
      PROVE  \E o \in Op, id \in Id \cup {NoId} : Sent(q, o, id)
  BY <1>1 DEF FirePlain, Sent
<1>2. ASSUME NEW i \in DOMAIN pool
      PROVE  pool[i] \in Id /\ pool[i] \in ToSet(pool)
  BY <1>2, ElementOfSeq, LenProperties DEF TypeOK, ToSet
<1>3. ASSUME NEW i \in DOMAIN pool, NEW op \in {"read_light", "update"},
             FirePicked(q, op, i)
      PROVE  \E o \in Op, id \in Id \cup {NoId} : Sent(q, o, id)
  <2>1. scenario \in Picking
    BY <1>3 DEF FirePicked, PickOperation, Picking, TypeOK, Scenario
  <2> QED
    BY <1>2, <1>3, <2>1 DEF FirePicked, Sent
<1>4. ASSUME NEW i \in DOMAIN pool, FireDelete(q, i)
      PROVE  \E o \in Op, id \in Id \cup {NoId} : Sent(q, o, id)
  <2>1. scenario \in Deleting
    BY <1>4 DEF FireDelete, PickOperation, Deleting, TypeOK, Scenario
  <2> QED
    BY <1>2, <1>4, <2>1 DEF FireDelete, Sent
<1> QED
  BY <1>1, <1>3, <1>4 DEF Fire

-----------------------------------------------------------------------------
(* The requests in flight are a finite set. *)

LEMMA InFlightFinite ==
    IsFiniteSet(InFlight) /\ Cardinality(InFlight) \in Nat
<1>1. InFlight \in SUBSET Slot
  BY DEF InFlight
<1> QED
  BY <1>1, SlotAssumption, FS_Subset, FS_CardinalityType

\* A request that is sent is one more, ...
LEMMA SendAddsOne ==
    ASSUME TypeOK, NEW q \in Slot, NEW op \in Op, NEW id \in Id \cup {NoId},
           Send(q, op, id)
    PROVE  Cardinality(InFlight)' = Cardinality(InFlight) + 1
<1>1. InFlight' = InFlight \cup {q} /\ q \notin InFlight
  BY DEF Send, InFlight, Idle, TypeOK
<1> QED
  BY <1>1, InFlightFinite, FS_AddElement

\* ... one that is answered is still in flight, ...
LEMMA AnswerKeeps ==
    ASSUME TypeOK, NEW q \in Slot, NEW id, NEW ok, Answer(q, id, ok),
           req[q].stage = "sent"
    PROVE  Cardinality(InFlight)' = Cardinality(InFlight)
<1>1. InFlight' = InFlight
  BY DEF Answer, InFlight, TypeOK, Request
<1> QED
  BY <1>1

\* ... and one that settles is one less.
LEMMA SettleTakesOne ==
    ASSUME TypeOK, NEW q \in Slot, Settle(q)
    PROVE  /\ Cardinality(InFlight)' = Cardinality(InFlight) - 1
           /\ Cardinality(InFlight) > 0
<1>1. InFlight' = InFlight \ {q} /\ q \in InFlight
  BY DEF Settle, InFlight, Idle, TypeOK
<1>2. Cardinality(InFlight) # 0
  BY <1>1, InFlightFinite, FS_EmptySet
<1> QED
  BY <1>1, <1>2, InFlightFinite, FS_RemoveElement

-----------------------------------------------------------------------------
(* The invariant holds at first, and each part of it is kept. *)

LEMMA InitLInv == Init => LInv
<1> SUFFICES ASSUME Init PROVE LInv
  OBVIOUS
<1>1. TypeOK
  BY NoIdAssumption DEF Init, TypeOK, Idle, Request, Op, Totals, Zero
<1>2. Ownership
  BY PoolCapAssumption DEF Init, Ownership, Distinct, ToSet, Holds, Idle
<1>3. InFlight = {}
  BY DEF Init, InFlight, Idle
<1>4. Accounting
  BY <1>3, FS_EmptySet
     DEF Init, Accounting, EveryRequestCountedOnce, PercentilesCoverTotals, Zero
<1>5. Causes
  BY DEF Init, Causes, Idle, Zero
<1> QED
  BY <1>1, <1>2, <1>4, <1>5 DEF LInv

\* The pool after a request has settled.
LEMMA SettledPool ==
    ASSUME TypeOK, Ownership, NEW q \in Slot, Settle(q)
    PROVE  /\ pool' \in Seq(Id)
           /\ Len(pool') <= PoolCap
           /\ Distinct(pool')
           /\ \/ pool' = pool
              \/ Holds(q) /\ ToSet(pool') \subseteq ToSet(pool) \cup {req[q].id}
<1>1. CASE req[q].op = "create" /\ req[q].ok
  <2>1. Holds(q)
    BY <1>1 DEF Settle, Holds
  <2>2. req[q].id \in Id /\ req[q].id \notin ToSet(pool)
    BY <2>1 DEF Ownership, TypeOK
  <2>3. pool' = Push(req[q].id)
    BY <1>1 DEF Settle, PoolAfter
  <2> QED
    BY <2>1, <2>2, <2>3, PushPool DEF Ownership, TypeOK
<1>2. CASE ~(req[q].op = "create" /\ req[q].ok)
  BY <1>2 DEF Settle, PoolAfter, Ownership, TypeOK
<1> QED
  BY <1>1, <1>2

LEMMA TypeStep == LInv /\ [Next]_vars => TypeOK'
<1> SUFFICES ASSUME LInv, [Next]_vars PROVE TypeOK'
  OBVIOUS
<1> USE DEF LInv, env
<1>0. TypeOK /\ Ownership
  OBVIOUS
<1>1. ASSUME NEW q \in Slot, NEW op \in Op, NEW id \in Id \cup {NoId},
             Sent(q, op, id)
      PROVE  TypeOK'
  <2>1. pool' \in Seq(Id)
    BY <1>1, RemoveAtPool DEF Sent, TypeOK, Ownership
  <2>2. [stage |-> "sent", op |-> op, id |-> id, ok |-> FALSE] \in Request
    BY DEF Request
  <2> QED
    BY <1>0, <1>1, <2>1, <2>2 DEF Sent, Send, TypeOK
<1>2. ASSUME NEW q \in Slot, NEW id \in Id \cup {NoId}, NEW ok \in BOOLEAN,
             Answer(q, id, ok)
      PROVE  req' \in [Slot -> Request]
  BY <1>0, <1>2 DEF Answer, TypeOK, Request
<1>3. ASSUME NEW q \in Slot, NEW id \in Id, ServeCreate(q, id) PROVE TypeOK'
  <2>1. req' \in [Slot -> Request]
    BY <1>2, <1>3 DEF ServeCreate
  <2> QED
    BY <1>0, <1>3, <2>1 DEF ServeCreate, Answer, TypeOK
<1>4. ASSUME NEW q \in Slot, ServeOne(q) PROVE TypeOK'
  <2>1. req[q].id \in Id \cup {NoId}
    BY <1>0 DEF TypeOK, Request
  <2>2. (req[q].id \in live \/ req[q].op = "delete") \in BOOLEAN
    OBVIOUS
  <2>3. req' \in [Slot -> Request]
    BY <1>2, <1>4, <2>1, <2>2 DEF ServeOne
  <2> QED
    BY <1>0, <1>4, <2>3 DEF ServeOne, Answer, TypeOK
<1>5. ASSUME NEW q \in Slot, ServePlain(q) PROVE TypeOK'
  <2>1. req' \in [Slot -> Request]
    BY <1>2, <1>5 DEF ServePlain
  <2> QED
    BY <1>0, <1>5, <2>1 DEF ServePlain, Answer, TypeOK
<1>6. ASSUME NEW q \in Slot, ServeFails(q) PROVE TypeOK'
  <2>1. req[q].id \in Id \cup {NoId}
    BY <1>0 DEF TypeOK, Request
  <2>2. req' \in [Slot -> Request]
    BY <1>2, <1>6, <2>1 DEF ServeFails
  <2> QED
    BY <1>0, <1>6, <2>2 DEF ServeFails, Answer, TypeOK
<1>7. ASSUME NEW q \in Slot, Settle(q) PROVE TypeOK'
  <2>1. pool' \in Seq(Id)
    BY <1>0, <1>7, SettledPool
  <2>2. totals' \in Totals
    BY <1>0, <1>7 DEF Settle, Counted, TypeOK, Totals
  <2>3. Idle \in Request
    BY DEF Idle, Request, Op
  <2> QED
    BY <1>0, <1>7, <2>1, <2>2, <2>3 DEF Settle, TypeOK
<1>8. CASE WarmupEnds
  BY <1>0, <1>8, InFlightFinite DEF WarmupEnds, TypeOK, Zero, Totals
<1>9. CASE Finish
  BY <1>0, <1>9 DEF Finish, TypeOK
<1>10. CASE UNCHANGED vars
  BY <1>0, <1>10 DEF vars, TypeOK
<1> QED
  BY <1>0, <1>1, <1>3, <1>4, <1>5, <1>6, <1>7, <1>8, <1>9, <1>10, FireSends DEF Next

LEMMA OwnershipStep == LInv /\ [Next]_vars => Ownership'
<1> SUFFICES ASSUME LInv, [Next]_vars PROVE Ownership'
  OBVIOUS
<1>0. TypeOK /\ Ownership
  BY DEF LInv
\* A step that leaves the pool alone and makes nobody a holder.
<1>1. ASSUME NEW q \in Slot, UNCHANGED pool, live \subseteq live',
             req' = [req EXCEPT ![q] = req'[q]],
             Holds(q)' => /\ req'[q].id \in live' \ ToSet(pool)
                          /\ \A p \in Slot \ {q} :
                                Holds(p) => req[p].id # req'[q].id
      PROVE  Ownership'
  <2>1. \A p \in Slot \ {q} : req'[p] = req[p] /\ (Holds(p)' <=> Holds(p))
    BY <1>0, <1>1 DEF TypeOK, Holds
  <2> QED
    BY <1>0, <1>1, <2>1 DEF Ownership
<1>2. ASSUME NEW q \in Slot, NEW op \in Op, NEW id \in Id \cup {NoId},
             Sent(q, op, id)
      PROVE  Ownership'
  <2>1. /\ req'[q].stage = "sent" /\ req'[q].op = op /\ req'[q].id = id
        /\ \A p \in Slot \ {q} : req'[p] = req[p]
        /\ live' = live
    BY <1>0, <1>2 DEF Sent, Send, TypeOK
  <2>2. CASE op # "delete"
    <3>1. ~Holds(q)' /\ UNCHANGED pool
      BY <1>2, <2>1, <2>2 DEF Holds, Sent
    <3>2. req' = [req EXCEPT ![q] = req'[q]]
      BY <1>0, <1>2 DEF Sent, Send, TypeOK
    <3> QED
      BY <1>1, <2>1, <3>1, <3>2
  <2>3. CASE op = "delete"
    <3>1. PICK i \in DOMAIN pool : id = pool[i] /\ pool' = RemoveAt(pool, i)
      BY <1>2, <2>3 DEF Sent
    <3>2. /\ Len(pool') = Len(pool) - 1
          /\ Distinct(pool')
          /\ ToSet(pool') \subseteq ToSet(pool) \ {id}
          /\ Len(pool) \in Nat
      BY <1>0, <3>1, RemoveAtPool DEF Ownership, TypeOK
    <3>3. id \in ToSet(pool) /\ id \in live
      BY <1>0, <3>1 DEF ToSet, Ownership
    <3>4. Len(pool') <= PoolCap
      BY <1>0, <3>2, PoolCapAssumption DEF Ownership
    <3>5. \A p \in Slot \ {q} : (Holds(p)' <=> Holds(p))
                                 /\ (Holds(p) => req[p].id # id)
      BY <1>0, <2>1, <3>3 DEF Holds, Ownership
    <3> QED
      BY <1>0, <2>1, <3>2, <3>3, <3>4, <3>5 DEF Ownership
  <2> QED
    BY <2>2, <2>3
<1>3. ASSUME NEW q \in Slot, NEW id \in Id, ServeCreate(q, id) PROVE Ownership'
  <2>1. UNCHANGED pool /\ live' = live \cup {id} /\ id \notin live
    BY <1>0, <1>3 DEF ServeCreate, Answer, TypeOK
  <2>2. req'[q].id = id /\ req' = [req EXCEPT ![q] = req'[q]]
    BY <1>0, <1>3 DEF ServeCreate, Answer, TypeOK, Request
  <2>3. id \notin ToSet(pool) /\ \A p \in Slot : Holds(p) => req[p].id # id
    BY <1>0, <2>1 DEF Ownership
  <2> QED
    BY <1>1, <2>1, <2>2, <2>3
<1>4. ASSUME NEW q \in Slot, UNCHANGED pool, req[q].stage = "sent",
             req[q].op # "create",
             NEW id, NEW ok, Answer(q, id, ok),
             live' = IF req[q].op = "delete" THEN live \ {req[q].id} ELSE live
      PROVE  Ownership'
  <2>1. /\ req'[q].stage = "answered" /\ req'[q].op # "create"
        /\ \A p \in Slot \ {q} : req'[p] = req[p]
    BY <1>0, <1>4 DEF Answer, TypeOK, Request
  <2>2. ~Holds(q)' /\ \A p \in Slot \ {q} : Holds(p)' <=> Holds(p)
    BY <2>1 DEF Holds
  <2>3. /\ ToSet(pool) \subseteq live'
        /\ \A p \in Slot \ {q} : Holds(p) => req[p].id \in live'
    BY <1>0, <1>4 DEF Ownership, Holds
  <2> QED
    BY <1>0, <1>4, <2>1, <2>2, <2>3 DEF Ownership
<1>5. ASSUME NEW q \in Slot, ServeOne(q) PROVE Ownership'
  BY <1>4, <1>5 DEF ServeOne, Answer
<1>6. ASSUME NEW q \in Slot, ServePlain(q) PROVE Ownership'
  BY <1>4, <1>6 DEF ServePlain, Answer
<1>7. ASSUME NEW q \in Slot, ServeFails(q) PROVE Ownership'
  <2>1. CASE req[q].op = "delete" /\ live' = live \ {req[q].id}
    BY <1>4, <1>7, <2>1 DEF ServeFails, Answer
  <2>2. CASE live \subseteq live'
    <3>1. /\ req'[q].stage = "answered" /\ ~req'[q].ok
          /\ req' = [req EXCEPT ![q] = req'[q]]
      BY <1>0, <1>7 DEF ServeFails, Answer, TypeOK, Request
    <3>2. ~Holds(q)'
      BY <3>1 DEF Holds
    <3> QED
      BY <1>1, <1>7, <2>2, <3>1, <3>2 DEF ServeFails, Answer
  <2> QED
    BY <1>7, <2>1, <2>2 DEF ServeFails
<1>8. ASSUME NEW q \in Slot, Settle(q) PROVE Ownership'
  <2>1. /\ req'[q] = Idle /\ live' = live
        /\ \A p \in Slot \ {q} : req'[p] = req[p]
    BY <1>0, <1>8 DEF Settle, TypeOK
  <2>2. ~Holds(q)' /\ \A p \in Slot \ {q} : Holds(p)' <=> Holds(p)
    BY <2>1 DEF Holds, Idle
  <2>3. /\ Len(pool') <= PoolCap
        /\ Distinct(pool')
        /\ \/ pool' = pool
           \/ Holds(q) /\ ToSet(pool') \subseteq ToSet(pool) \cup {req[q].id}
    BY <1>0, <1>8, SettledPool
  <2>4. ToSet(pool') \subseteq live
    BY <1>0, <2>3 DEF Ownership
  <2>5. \A p \in Slot \ {q} : Holds(p) => req[p].id \notin ToSet(pool')
    BY <1>0, <2>3 DEF Ownership
  <2> QED
    BY <1>0, <2>1, <2>2, <2>3, <2>4, <2>5 DEF Ownership
<1>9. CASE UNCHANGED <<pool, live, req>>
  BY <1>0, <1>9 DEF Ownership, Holds
<1> QED
  BY <1>0, <1>2, <1>3, <1>5, <1>6, <1>7, <1>8, <1>9, FireSends
     DEF Next, WarmupEnds, Finish, vars

LEMMA AccountingStep == LInv /\ [Next]_vars => Accounting'
<1> SUFFICES ASSUME LInv, [Next]_vars PROVE Accounting'
  OBVIOUS
<1> USE DEF Accounting, EveryRequestCountedOnce, PercentilesCoverTotals
<1>0. /\ TypeOK /\ Accounting
      /\ fired \in Nat /\ samples \in Nat /\ warm.fired \in Nat /\ warm.carried \in Nat
      /\ totals.sent \in Nat /\ totals.ok \in Nat /\ totals.failed \in Nat
      /\ Cardinality(InFlight) \in Nat
  BY InFlightFinite DEF LInv, TypeOK, Totals
<1>1. ASSUME NEW q \in Slot, NEW op \in Op, NEW id \in Id \cup {NoId},
             Sent(q, op, id)
      PROVE  Accounting'
  <2>1. Cardinality(InFlight)' = Cardinality(InFlight) + 1
    BY <1>0, <1>1, SendAddsOne DEF Sent
  <2> QED
    BY <1>0, <1>1, <2>1 DEF Sent, Send
<1>2. ASSUME NEW q \in Slot, NEW id, NEW ok, Answer(q, id, ok),
             req[q].stage = "sent"
      PROVE  Accounting'
  <2>1. Cardinality(InFlight)' = Cardinality(InFlight)
    BY <1>0, <1>2, AnswerKeeps
  <2> QED
    BY <1>0, <1>2, <2>1 DEF Answer
<1>3. ASSUME NEW q \in Slot, Settle(q) PROVE Accounting'
  <2>1. /\ Cardinality(InFlight)' = Cardinality(InFlight) - 1
        /\ Cardinality(InFlight) > 0
    BY <1>0, <1>3, SettleTakesOne
  <2>2. /\ totals'.sent = totals.sent + 1
        /\ totals'.sent = totals'.ok + totals'.failed
        /\ samples' = samples + 1
        /\ UNCHANGED <<fired, warm>>
    BY <1>0, <1>3 DEF Settle, Counted
  <2> QED
    BY <1>0, <2>1, <2>2
<1>4. CASE WarmupEnds
  <2>1. InFlight' = InFlight
    BY <1>4 DEF WarmupEnds, InFlight
  <2>2. /\ totals'.sent = 0 /\ totals'.ok = 0 /\ totals'.failed = 0 /\ samples' = 0
        /\ fired' = fired
        /\ warm'.fired = fired /\ warm'.carried = Cardinality(InFlight)
    BY <1>4 DEF WarmupEnds, Zero
  <2> QED
    BY <1>0, <2>1, <2>2
<1>5. CASE UNCHANGED <<totals, samples, req, fired, warm>>
  <2>1. InFlight' = InFlight
    BY <1>5 DEF InFlight
  <2> QED
    BY <1>0, <1>5, <2>1
<1> QED
  BY <1>0, <1>1, <1>2, <1>3, <1>4, <1>5, FireSends
     DEF Next, ServeCreate, ServeOne, ServePlain, ServeFails, Finish, vars

LEMMA CausesStep == LInv /\ [Next]_vars => Causes'
<1> SUFFICES ASSUME LInv, [Next]_vars PROVE Causes'
  OBVIOUS
<1> USE DEF env
<1>0. TypeOK /\ Ownership /\ Causes /\ live \subseteq minted
  BY DEF LInv, TypeOK
\* A step of one request: the others keep what they are known to satisfy as
\* long as no dead resource comes back.
<1>1. ASSUME NEW q \in Slot, UNCHANGED <<scenario, faulty>>,
             req' = [req EXCEPT ![q] = req'[q]],
             minted \subseteq minted',
             \A id \in minted : id \in live' => id \in live,
             live' # minted' /\ ~faulty => scenario \in Deleting,
             totals'.failed > 0 /\ ~faulty => scenario = "mixed_crud",
             req'[q].stage # "idle" =>
                /\ req'[q].op = "delete" => scenario \in Deleting
                /\ req'[q].op \in {"read_light", "update"} =>
                      scenario \in Picking /\ req'[q].id \in minted'
                /\ req'[q].stage = "answered" /\ ~req'[q].ok /\ ~faulty =>
                      /\ req'[q].op \in {"read_light", "update"}
                      /\ req'[q].id \notin live'
      PROVE  Causes'
  <2>1. \A p \in Slot \ {q} : req'[p] = req[p]
    BY <1>0, <1>1 DEF TypeOK
  <2> QED
    BY <1>0, <1>1, <2>1 DEF Causes
<1>2. ASSUME NEW q \in Slot, NEW op \in Op, NEW id \in Id \cup {NoId},
             Sent(q, op, id)
      PROVE  Causes'
  <2>1. /\ req'[q].stage = "sent" /\ req'[q].op = op /\ req'[q].id = id
        /\ req' = [req EXCEPT ![q] = req'[q]]
        /\ UNCHANGED <<scenario, faulty, totals, live, minted>>
    BY <1>0, <1>2 DEF Sent, Send, TypeOK
  <2>2. /\ op = "delete" => scenario \in Deleting
        /\ op \in {"read_light", "update"} => scenario \in Picking /\ id \in minted
    BY <1>0, <1>2 DEF Sent, Ownership
  <2> QED
    BY <1>0, <1>1, <2>1, <2>2 DEF Causes
<1>3. ASSUME NEW q \in Slot, NEW id, NEW ok, Answer(q, id, ok),
             req[q].stage = "sent",
             minted \subseteq minted',
             \A i \in minted : i \in live' => i \in live,
             live' # minted' /\ ~faulty => scenario \in Deleting,
             req[q].op \in {"read_light", "update"} => id = req[q].id,
             ~ok /\ ~faulty => /\ req[q].op \in {"read_light", "update"}
                              /\ id \notin live'
      PROVE  Causes'
  <2>1. /\ req'[q].stage = "answered" /\ req'[q].op = req[q].op
        /\ req'[q].id = id /\ req'[q].ok = ok
        /\ req' = [req EXCEPT ![q] = req'[q]]
        /\ UNCHANGED <<scenario, faulty, totals>>
    BY <1>0, <1>3 DEF Answer, TypeOK, Request
  <2>2. /\ req[q].op = "delete" => scenario \in Deleting
        /\ req[q].op \in {"read_light", "update"} =>
              scenario \in Picking /\ req[q].id \in minted
        /\ totals.failed > 0 /\ ~faulty => scenario = "mixed_crud"
    BY <1>0, <1>3 DEF Causes
  <2> QED
    BY <1>1, <1>3, <2>1, <2>2
<1>4. ASSUME NEW q \in Slot, NEW id \in Id, ServeCreate(q, id) PROVE Causes'
  <2>1. /\ live' = live \cup {id} /\ minted' = minted \cup {id}
        /\ id \notin minted
        /\ req[q].stage = "sent" /\ req[q].op = "create"
        /\ Answer(q, id, TRUE)
    BY <1>4 DEF ServeCreate
  <2>2. live' # minted' /\ ~faulty => scenario \in Deleting
    BY <1>0, <2>1 DEF Causes
  <2> QED
    BY <1>3, <2>1, <2>2
<1>5. ASSUME NEW q \in Slot, ServeOne(q) PROVE Causes'
  <2>1. /\ req[q].stage = "sent"
        /\ req[q].op \in {"read_light", "update", "delete"}
        /\ Answer(q, req[q].id, req[q].id \in live \/ req[q].op = "delete")
        /\ live' = IF req[q].op = "delete" THEN live \ {req[q].id} ELSE live
        /\ minted' = minted
    BY <1>5 DEF ServeOne
  <2>2. live' # minted' /\ ~faulty => scenario \in Deleting
    BY <1>0, <2>1 DEF Causes
  <2> QED
    BY <1>3, <2>1, <2>2
<1>6. ASSUME NEW q \in Slot, ServePlain(q) PROVE Causes'
  <2>1. live # minted /\ ~faulty => scenario \in Deleting
    BY <1>0 DEF Causes
  <2>2. /\ req[q].stage = "sent" /\ req[q].op \in {"read_heavy", "dummy"}
        /\ Answer(q, NoId, TRUE)
        /\ live' = live /\ minted' = minted
    BY <1>6 DEF ServePlain
  <2> QED
    BY <1>3, <2>1, <2>2
<1>7. ASSUME NEW q \in Slot, ServeFails(q) PROVE Causes'
  <2>1. /\ faulty /\ req[q].stage = "sent"
        /\ Answer(q, req[q].id, FALSE)
        /\ minted \subseteq minted'
        /\ \A i \in minted : i \in live' => i \in live
    BY <1>0, <1>7 DEF ServeFails
  <2> QED
    BY <1>3, <2>1
<1>8. ASSUME NEW q \in Slot, Settle(q) PROVE Causes'
  <2>1. /\ req'[q].stage = "idle" /\ req' = [req EXCEPT ![q] = req'[q]]
        /\ UNCHANGED <<scenario, faulty, live, minted>>
    BY <1>0, <1>8 DEF Settle, Idle, TypeOK
  <2>2. totals.failed \in Nat
    BY <1>0 DEF TypeOK, Totals
  <2>3. totals'.failed > 0 /\ ~faulty => scenario = "mixed_crud"
    <3>1. CASE req[q].ok
      BY <1>0, <1>8, <2>2, <3>1 DEF Settle, Counted, Causes
    <3>2. CASE ~req[q].ok /\ ~faulty
      <4>1. /\ req[q].op \in {"read_light", "update"}
            /\ req[q].id \in minted /\ req[q].id \notin live
            /\ scenario \in Picking
        BY <1>0, <1>8, <3>2 DEF Settle, Causes
      <4>2. scenario \in Deleting
        BY <1>0, <3>2, <4>1 DEF Causes
      <4> QED
        BY <4>1, <4>2 DEF Deleting, Picking
    <3> QED
      BY <3>1, <3>2
  <2> QED
    BY <1>0, <1>1, <2>1, <2>3 DEF Causes
<1>9. CASE WarmupEnds
  <2>1. totals'.failed = 0 /\ UNCHANGED <<scenario, faulty, req, live, minted>>
    BY <1>9 DEF WarmupEnds, Zero
  <2> QED
    BY <1>0, <2>1 DEF Causes
<1>10. CASE UNCHANGED <<scenario, faulty, totals, req, live, minted>>
  BY <1>0, <1>10 DEF Causes
<1> QED
  BY <1>0, <1>2, <1>4, <1>5, <1>6, <1>7, <1>8, <1>9, <1>10, FireSends
     DEF Next, Finish, vars

-----------------------------------------------------------------------------
(* Theorems. *)

LEMMA LoadInvariance == Spec => []LInv
<1>1. LInv /\ [Next]_vars => LInv'
  BY TypeStep, OwnershipStep, AccountingStep, CausesStep DEF LInv
<1> QED
  BY InitLInv, <1>1, PTL DEF Spec

\* Every variable keeps a value of its kind: no answer puts anything but an id
\* in the pool.
THEOREM LoadTypeCorrect == Spec => []TypeOK
<1>1. LInv => TypeOK
  BY DEF LInv
<1> QED
  BY LoadInvariance, <1>1, PTL

\* Every request is counted once or is in flight, through the reset at the end
\* of the warm-up and after the end of the run.
THEOREM RequestsAreCountedOnce == Spec => []EveryRequestCountedOnce
<1>1. LInv => EveryRequestCountedOnce
  BY DEF LInv, Accounting
<1> QED
  BY LoadInvariance, <1>1, PTL

\* Totals and histogram always cover the same requests.
THEOREM PercentilesAndTotalsAgree == Spec => []PercentilesCoverTotals
<1>1. LInv => PercentilesCoverTotals
  BY DEF LInv, Accounting
<1> QED
  BY LoadInvariance, <1>1, PTL

\* The pool never exceeds ID_POOL_CAP.
THEOREM PoolStaysBounded == Spec => []PoolIsBounded
<1>1. LInv => PoolIsBounded
  BY DEF LInv, Ownership, PoolIsBounded
<1> QED
  BY LoadInvariance, <1>1, PTL

\* The pool and the DELETEs on their way share no id and name live resources.
THEOREM DeletesAreExclusive == Spec => []DeletesOwnTheirId
<1>1. LInv => DeletesOwnTheirId
  <2> SUFFICES ASSUME LInv PROVE DeletesOwnTheirId
    OBVIOUS
  <2>1. Cardinality(ToSet(pool)) = Len(pool)
    BY DistinctCardinality DEF LInv, Ownership, TypeOK
  <2> QED
    BY <2>1 DEF LInv, Ownership, Holds, DeletesOwnTheirId
<1> QED
  BY LoadInvariance, <1>1, PTL

\* On a target and a network that do not fail, only reads and updates that a
\* DELETE of the same run overtook fail, and only in mixed_crud.
THEOREM FailuresAreRaces == Spec => []OnlyRacesFail
<1>1. LInv => OnlyRacesFail
  BY DEF LInv, Causes, OnlyRacesFail
<1> QED
  BY LoadInvariance, <1>1, PTL

-----------------------------------------------------------------------------
(* Refinement. *)

LEMMA CountingStep == LInv /\ [Next]_vars => [Counting!Next]_(Counting!countingVars)
<1> SUFFICES ASSUME LInv, [Next]_vars
             PROVE  [Counting!Next]_(Counting!countingVars)
  OBVIOUS
<1> USE DEF Counting!Next
<1>0. /\ TypeOK
      /\ Cardinality(InFlight) \in Nat /\ totals.sent \in Nat
  BY InFlightFinite DEF LInv, TypeOK, Totals
<1>1. ASSUME NEW q \in Slot, NEW op \in Op, NEW id \in Id \cup {NoId},
             Sent(q, op, id)
      PROVE  Counting!Next
  <2>1. Cardinality(InFlight)' = Cardinality(InFlight) + 1
    BY <1>0, <1>1, SendAddsOne DEF Sent
  <2>2. phase \in {"warmup", "running"} /\ phase' = phase /\ totals' = totals
    BY <1>0, <1>1 DEF Sent, Send, TypeOK
  <2>3. Counting!Leave("this")
    BY <2>1, <2>2 DEF Counting!Leave
  <2> QED
    BY <2>3
<1>2. ASSUME NEW q \in Slot, NEW id, NEW ok, Answer(q, id, ok),
             req[q].stage = "sent"
      PROVE  UNCHANGED Counting!countingVars
  <2>1. Cardinality(InFlight)' = Cardinality(InFlight)
    BY <1>0, <1>2, AnswerKeeps
  <2> QED
    BY <1>2, <2>1 DEF Answer, Counting!countingVars
<1>3. ASSUME NEW q \in Slot, Settle(q) PROVE Counting!Next
  <2>1. /\ Cardinality(InFlight)' = Cardinality(InFlight) - 1
        /\ Cardinality(InFlight) > 0
    BY <1>0, <1>3, SettleTakesOne
  <2>2. phase' = phase /\ totals'.sent = totals.sent + 1
    BY <1>3 DEF Settle, Counted
  <2>3. Counting!Settle("this")
    BY <2>1, <2>2 DEF Counting!Settle
  <2> QED
    BY <2>3
<1>4. ASSUME WarmupEnds \/ Finish PROVE Counting!Next
  <2>1. InFlight' = InFlight
    BY <1>4 DEF WarmupEnds, Finish, InFlight
  <2>2. CASE WarmupEnds
    <3>1. phase = "warmup" /\ phase' = "running" /\ totals'.sent = 0
      BY <2>2 DEF WarmupEnds, Zero
    <3>2. Counting!Advance("this", "warmup", "running", 0)
      BY <2>1, <3>1 DEF Counting!Advance
    <3> QED
      BY <3>2
  <2>3. CASE Finish
    <3>1. phase = "running" /\ phase' = "done" /\ totals' = totals
      BY <2>3 DEF Finish
    <3>2. Counting!Advance("this", "running", "done", totals.sent)
      BY <2>1, <3>1 DEF Counting!Advance
    <3> QED
      BY <3>2
  <2> QED
    BY <1>4, <2>2, <2>3
<1>5. CASE UNCHANGED vars
  <2>1. InFlight' = InFlight
    BY <1>5 DEF vars, InFlight
  <2> QED
    BY <1>5, <2>1 DEF vars, Counting!countingVars
<1> QED
  BY <1>0, <1>1, <1>2, <1>3, <1>4, <1>5, FireSends
     DEF Next, ServeCreate, ServeOne, ServePlain, ServeFails

\* The load generator implements the counting, for any number of requests in
\* flight and whatever answers they get: the run manager may count them.
THEOREM GeneratorRefinesCounting == Spec => ImplementsCounting
<1>1. Init => Counting!Init
  <2>1. ASSUME Init PROVE Cardinality(InFlight) = 0
    <3>1. InFlight = {}
      BY <2>1 DEF Init, InFlight, Idle
    <3> QED
      BY <3>1, FS_EmptySet
  <2> QED
    BY <2>1 DEF Init, Zero, Counting!Init
<1> QED
  BY <1>1, CountingStep, LoadInvariance, PTL DEF Spec, ImplementsCounting, Counting!Spec
=============================================================================
