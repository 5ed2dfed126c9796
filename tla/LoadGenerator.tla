---------------------------- MODULE LoadGenerator ----------------------------
(***************************************************************************)
(* The load generator of one run: the requests it fires, the pool of ids   *)
(* it creates and consumes, the samples it records, and the reset at the   *)
(* end of the warm-up. RunManager counts requests; this module looks into  *)
(* them. The generator is open-loop: fire() never waits for an answer, so  *)
(* requests overtake each other at the backend and on the way back. The    *)
(* backend is the set of live ids, each request one atomic step of it.     *)
(***************************************************************************)
EXTENDS Naturals, Sequences, FiniteSets, SequencesExt

CONSTANTS
    Slot,       \* bound: the requests in flight at once
    Id,         \* bound: the ids the backend hands out
    NoId,       \* no id: an operation that carries none
    PoolCap,    \* ID_POOL_CAP
    MaxFired    \* bound: the requests of the run

ASSUME SlotAssumption == IsFiniteSet(Slot)
ASSUME NoIdAssumption == NoId \notin Id
ASSUME PoolCapAssumption == PoolCap \in Nat \ {0}
ASSUME FiredAssumption == MaxFired \in Nat

VARIABLES
    scenario,   \* config.scenario, "ceiling" when target_port is null
    faulty,     \* may the target or the network fail a request of this run?
    phase,      \* state.phase
    pool,       \* state.idPool
    totals,     \* state.totals
    samples,    \* the count of state.histogram
    req,        \* the requests in flight, one per slot
    live,       \* the resources the backend holds
    minted,     \* the ids the backend has handed out so far
    fired,      \* requests fired so far
    warm        \* history: requests fired by, and in flight at, the reset

env == <<scenario, faulty>>    \* what the run is given
vars == <<env, phase, pool, totals, samples, req, live, minted, fired, warm>>

-----------------------------------------------------------------------------
(* Data. *)

Op == {"create", "read_light", "read_heavy", "update", "delete", "dummy"}

Scenario == {"ceiling", "create_brutal", "read_light", "read_heavy",
             "update_brutal", "delete_brutal", "mixed_crud"}

Request == [stage : {"idle", "sent", "answered"}, op : Op,
            id : Id \cup {NoId}, ok : BOOLEAN]

Idle == [stage |-> "idle", op |-> "dummy", id |-> NoId, ok |-> FALSE]

Totals == [sent : Nat, ok : Nat, failed : Nat]

Zero == [sent |-> 0, ok |-> 0, failed |-> 0]

InFlight == {q \in Slot : req[q].stage # "idle"}

-----------------------------------------------------------------------------
(* Helpers. *)

\* pickOperation: mixed_crud may roll any operation but 'dummy'.
PickOperation ==
    CASE scenario = "ceiling" -> {"dummy"}
      [] scenario = "create_brutal" -> {"create"}
      [] scenario = "update_brutal" -> {"update"}
      [] scenario = "delete_brutal" -> {"delete"}
      [] scenario = "mixed_crud" -> Op \ {"dummy"}
      [] OTHER -> {scenario}

\* Mutant: a push that never drops the oldest id.
PushUncapped(id) == Append(pool, id)

\* pushId: append, and drop the oldest id of a pool that is over the cap.
Push(id) ==
    LET longer == Append(pool, id)
    IN  IF Len(longer) > PoolCap THEN Tail(longer) ELSE longer

-----------------------------------------------------------------------------
(* Actions. *)

Init ==
    /\ scenario \in Scenario
    /\ faulty \in BOOLEAN
    /\ phase \in {"warmup", "running"}
    /\ pool = <<>>
    /\ totals = Zero
    /\ samples = 0
    /\ req = [q \in Slot |-> Idle]
    /\ live = {}
    /\ minted = {}
    /\ fired = 0
    /\ warm = [fired |-> 0, carried |-> 0]

\* A request leaves for the backend.
Send(q, op, id) ==
    /\ req[q] = Idle
    /\ fired < MaxFired
    /\ phase # "done"
    /\ fired' = fired + 1
    /\ req' = [req EXCEPT ![q] = [stage |-> "sent", op |-> op, id |-> id,
                                  ok |-> FALSE]]
    /\ UNCHANGED <<env, phase, totals, samples, live, minted, warm>>

\* Mutant: no fallback to create; the request goes out without an id.
FirePlainBlind(q, op) ==
    /\ op \in PickOperation
    /\ op \in {"create", "read_heavy", "dummy"} \/ pool = <<>>
    /\ Send(q, op, NoId)
    /\ UNCHANGED pool

\* Operations that need no id; one that finds the pool empty creates instead.
FirePlain(q, op) ==
    /\ op \in PickOperation
    /\ \/ /\ op \in {"create", "read_heavy", "dummy"}
          /\ Send(q, op, NoId)
       \/ /\ op \in {"read_light", "update", "delete"}
          /\ pool = <<>>
          /\ Send(q, "create", NoId)
    /\ UNCHANGED pool

\* read_light and update: the id picked at random stays in the pool.
FirePicked(q, op, i) ==
    /\ op \in PickOperation \cap {"read_light", "update"}
    /\ Send(q, op, pool[i])
    /\ UNCHANGED pool

\* Mutant: delete picks an id but leaves it in the pool.
FireDeleteKeeps(q, i) ==
    /\ "delete" \in PickOperation
    /\ Send(q, "delete", pool[i])
    /\ UNCHANGED pool

\* delete: the id leaves the pool before the request leaves for the backend.
FireDelete(q, i) ==
    /\ "delete" \in PickOperation
    /\ Send(q, "delete", pool[i])
    /\ pool' = RemoveAt(pool, i)

Fire(q) ==
    \/ \E op \in Op : FirePlain(q, op)
    \/ \E i \in DOMAIN pool :
          \/ \E op \in {"read_light", "update"} : FirePicked(q, op, i)
          \/ FireDelete(q, i)

Answer(q, id, ok) ==
    /\ req' = [req EXCEPT ![q].stage = "answered", ![q].id = id, ![q].ok = ok]
    /\ UNCHANGED <<env, phase, pool, totals, samples, fired, warm>>

\* The backend creates a resource and answers with its id.
ServeCreate(q, id) ==
    /\ req[q].stage = "sent" /\ req[q].op = "create"
    /\ id \notin minted
    /\ live' = live \cup {id}
    /\ minted' = minted \cup {id}
    /\ Answer(q, id, TRUE)

\* The backend answers a request for a resource, 404 when it is gone; the
\* generator takes the 404 of a delete for a success.
ServeOne(q) ==
    /\ req[q].stage = "sent" /\ req[q].op \in {"read_light", "update", "delete"}
    /\ live' = IF req[q].op = "delete" THEN live \ {req[q].id} ELSE live
    /\ Answer(q, req[q].id, req[q].id \in live \/ req[q].op = "delete")
    /\ UNCHANGED minted

\* A page of resources, or the panel's own dummy route.
ServePlain(q) ==
    /\ req[q].stage = "sent" /\ req[q].op \in {"read_heavy", "dummy"}
    /\ Answer(q, NoId, TRUE)
    /\ UNCHANGED <<live, minted>>

\* The request or its answer is lost, or the backend fails: it may have done
\* the work.
ServeFails(q) ==
    /\ faulty
    /\ req[q].stage = "sent"
    /\ \/ UNCHANGED <<live, minted>>
       \/ req[q].op = "delete" /\ live' = live \ {req[q].id} /\ UNCHANGED minted
       \/ /\ req[q].op = "create"
          /\ \E id \in Id \ minted :
                live' = live \cup {id} /\ minted' = minted \cup {id}
    /\ Answer(q, req[q].id, FALSE)

\* Mutant: a failed request is counted by then and by catch.
CountedTwice(ok) ==
    totals' = [sent   |-> totals.sent + (IF ok THEN 1 ELSE 2),
               ok     |-> totals.ok + 1,
               failed |-> totals.failed + (IF ok THEN 0 ELSE 1)]

\* recordSample's counters.
Counted(ok) ==
    totals' = [sent   |-> totals.sent + 1,
               ok     |-> totals.ok + (IF ok THEN 1 ELSE 0),
               failed |-> totals.failed + (IF ok THEN 0 ELSE 1)]

\* Mutant: the status of the answer to a create is not checked.
PoolAfterUnchecked(q) == IF req[q].op = "create" THEN Push(req[q].id) ELSE pool

\* A resource that was created enters the pool, even after the run.
PoolAfter(q) ==
    IF req[q].op = "create" /\ req[q].ok THEN Push(req[q].id) ELSE pool

\* A fetch settles and its sample is recorded, whatever phase the run is in by
\* now.
Settle(q) ==
    /\ req[q].stage = "answered"
    /\ pool' = PoolAfter(q)
    /\ Counted(req[q].ok)
    /\ samples' = samples + 1
    /\ req' = [req EXCEPT ![q] = Idle]
    /\ UNCHANGED <<env, phase, live, minted, fired, warm>>

\* Mutant: the histogram is not reset.
WarmupEndsHistogramKept ==
    /\ phase = "warmup"
    /\ phase' = "running"
    /\ totals' = Zero
    /\ warm' = [fired |-> fired, carried |-> Cardinality(InFlight)]
    /\ UNCHANGED <<env, pool, samples, req, live, minted, fired>>

\* The warm-up ends: histogram and totals start again; the pool and the
\* requests in flight stay.
WarmupEnds ==
    /\ phase = "warmup"
    /\ phase' = "running"
    /\ totals' = Zero
    /\ samples' = 0
    /\ warm' = [fired |-> fired, carried |-> Cardinality(InFlight)]
    /\ UNCHANGED <<env, pool, req, live, minted, fired>>

\* finishRun: no more requests; those in flight are still counted when they
\* settle.
Finish ==
    /\ phase = "running"
    /\ phase' = "done"
    /\ UNCHANGED <<env, pool, totals, samples, req, live, minted, fired, warm>>

Next ==
    \/ \E q \in Slot :
          \/ Fire(q)
          \/ \E id \in Id : ServeCreate(q, id)
          \/ ServeOne(q)
          \/ ServePlain(q)
          \/ ServeFails(q)
          \/ Settle(q)
    \/ WarmupEnds
    \/ Finish

Spec == Init /\ [][Next]_vars

-----------------------------------------------------------------------------
(* Safety. *)

\* Every variable holds a value of its kind.
TypeOK ==
    /\ scenario \in Scenario
    /\ faulty \in BOOLEAN
    /\ phase \in {"warmup", "running", "done"}
    /\ pool \in Seq(Id)
    /\ totals \in Totals
    /\ samples \in Nat
    /\ req \in [Slot -> Request]
    /\ live \subseteq minted
    /\ minted \subseteq Id
    /\ fired \in Nat
    /\ warm \in [fired : Nat, carried : Nat]

\* The totals account for every request: those fired since the reset and those
\* the warm-up left in flight are each counted once, as a success or a failure,
\* or still in flight, whatever order the answers come in. Nothing else of the
\* warm-up reaches the measured totals.
EveryRequestCountedOnce ==
    /\ totals.sent + Cardinality(InFlight) = (fired - warm.fired) + warm.carried
    /\ totals.sent = totals.ok + totals.failed

\* The percentiles of a snapshot are taken over the very requests its totals
\* count: histogram and totals are reset together.
PercentilesCoverTotals == samples = totals.sent

\* The pool never holds more than ID_POOL_CAP ids, however creates and deletes
\* overlap.
PoolIsBounded == Len(pool) <= PoolCap

\* An id the generator may pick, or has picked for a DELETE on its way, names a
\* live resource, and nobody else can delete it: no two DELETEs carry one id,
\* so the 404 that performOp tolerates never comes from the run itself.
DeletesOwnTheirId ==
    LET deleting == {q \in Slot : req[q].stage = "sent" /\ req[q].op = "delete"}
    IN  /\ ToSet(pool) \subseteq live
        /\ Cardinality(ToSet(pool)) = Len(pool)
        /\ \A q \in deleting :
              /\ req[q].id \in live \ ToSet(pool)
              /\ \A p \in deleting \ {q} : req[p].id # req[q].id

\* On a backend and a network that never fail, a request fails only when it
\* reads or updates a resource that a DELETE of the same run overtook, which
\* takes mixed_crud: no other scenario reports a failure.
OnlyRacesFail ==
    ~faulty =>
        /\ totals.failed > 0 => scenario = "mixed_crud"
        /\ \A q \in Slot :
              req[q].stage = "answered" /\ ~req[q].ok =>
                  /\ req[q].op \in {"read_light", "update"}
                  /\ req[q].id \in minted \ live

-----------------------------------------------------------------------------
(* Refinement. *)

Counting == INSTANCE RunCounting WITH
    Run      <- {"this"},
    stage    <- [r \in {"this"} |-> phase],
    inflight <- [r \in {"this"} |-> Cardinality(InFlight)],
    counted  <- [r \in {"this"} |-> totals.sent]

\* Every operation of a run, with the ids it takes and the answers it gets, is
\* a request as RunManager counts them: it leaves while the run is active and
\* is counted once, by the counter the warm-up resets.
ImplementsCounting == Counting!Spec

-----------------------------------------------------------------------------
(* A claim of the source that the code does not keep. *)

\* The page tells the user 'Warm-up done, measuring now.': from then on the
\* totals would count requests of the measurement only.
MeasurementExcludesWarmup ==
    phase # "warmup" => totals.sent <= fired - warm.fired
=============================================================================
