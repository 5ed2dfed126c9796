# Dekaliber in TLA+

Dekaliber is a load-test panel: a page to start a run, a server that fires the
requests and keeps the results, and three interchangeable backends to point it
at. These modules model the server's core (the life of a run, its event
streams, its times, its stored result, its load generator and its histogram),
the page (its target check, its history and the run it follows), and the
backends (find and write on a pool of connections). TLC checks them on small
instances; TLAPS proves the safety of the run manager, the times of a run, the
load generator, the histogram, the port check, the page and the backends for
any values of their constants.

Paths below are relative to the repository's root; `server/` abbreviates
`packages/panel/src/server/`.

## The system

| Part | State it keeps | Operations | What makes it correct |
|---|---|---|---|
| Run manager (`server/utils/run-manager.ts`) | the `runs` map: phase, timers, totals, listeners, id pool of each run | `startRun`, the timer callbacks, `finishRun`, `subscribe`, `getSnapshot` | a run that generates load has a record and an end; a result is stored once, then told; nothing is left behind |
| Event streams (`server/routes/api/run-test/[id]/stream.get.ts`) | one connection per watching page | open, push, close, `onClosed` | a stream tells the run's story forwards and is ended with the run |
| Storage (`server/utils/storage.ts`) | table `test_runs` in `storage/results.sqlite` | `insertRun`, `updateRunFinished`, `listRecentRuns`, `latestCeilingRps`, migration at import | results are final; the reference ceiling is the newest measured one |
| Load generator (`fire`, `performOp`, `recordSample`) | id pool, totals, requests in flight | six operations, each with a fallback | each request is counted once; the pool is bounded and names live resources |
| Histogram (`server/utils/latency-histogram.ts`) | buckets, count, sum, max | `record`, `reset`, `percentile` | percentiles are those of the samples, to a bucket's width |
| Memory polling (`pollMemory`) | the last answer of `/metrics` | a poll every two seconds | a newer figure is not replaced by an older one |
| Routes (`run-test.post`, `history.get`, `health.get`, `dummy.get`) | none | validation and defaults; reads; a probe of a port | only valid configurations start a run |
| Page (`packages/panel/src/app/pages/index.page.ts`) | form, port status, history, one `EventSource` | edit, check, submit, follow a run | what it shows is about what it holds |
| NestJS, Fiber and Spring backends | table `Resource` | create, find, list, update, remove | "identical routes/behavior" (`_docs/fiber-backend.md:16`) |
| NestJS cluster (`cluster.ts`, `prisma.service.ts`) | worker processes and their pools | fork, restart on exit | one connection budget for all workers; every request gets a connection |
| k6 script (`_infra/k6/mixed-crud.js`) | an id pool | closed-loop mixed load | comparable to the panel's load |
| Scripts, old control panel | none | start, reset | not a subject of these models |

How they interact: the page posts a configuration; the route calls `startRun`,
which registers the run, inserts its row and arms timers. The request timer
fires at the target without waiting for answers; the ui timer publishes
snapshots to the listeners that streams subscribed; the phase timer ends the
warm-up (counters start again) and then the run: `finishRun` clears the timers,
updates the row, publishes 'done', which makes each listener close its stream,
and arms a timer that forgets the run ten minutes later. Every snapshot reads
the reference ceiling from the table, which other runs write.

What is hard: everything runs as callbacks of one event loop in an order nobody
writes down; answers settle after the counters were reset or the run is over;
clients join, leave and reconnect at any time; a write may throw between two
steps of `finishRun`; the process may die with rows left open; two runs overlap
and share the ceiling. `PROJECT.json` lists these hazards at their lines, each
with the property that would catch it. On the page, POSTs, the answer of the
history and the messages of several streams meet in one list. In the backends,
another request may change the row between a find and a write, and a worker
may die there.

## The modules

| Module | Uses | Proved in |
|---|---|---|
| RunManager | RunLedger, RunCounting (implements both) | RunManagerProofs |
| RunHistory | RunManager | |
| RunTimes | | RunTimesProofs |
| LoadGenerator | RunCounting (implements it) | LoadGeneratorProofs |
| LatencyHistogram | | LatencyHistogramProofs |
| PortCheck | | PortCheckProofs |
| PanelPage | RunLedger (as its server) | PanelPageProofs |
| ResourceStore | AtomicStore (implements it) | ResourceStoreProofs |

MCRunManager, MCLoadGenerator and MCRunTimes hold the symmetry sets and values
of the TLC runs.

### RunManager: the life of runs

One action is one whole callback: Node runs a callback to its end, and none of
the modelled ones awaits between its reads and its writes (`node:sqlite` is
synchronous).

| Action | Code |
|---|---|
| `StartRun`, `StartRunInsertFails` | `startRun`, and `insertRun` throwing in it (after `runs.set`, before any timer) |
| `Fire`, `Respond` | `requestTimer`, and a fetch that settles (`recordSample`, in any phase) |
| `UiTick` | `uiTimer` |
| `WarmupEnds` | the first `phaseTimer` callback |
| `FinishRun`, `FinishRunStoreFails` | `finishRun`, and `updateRunFinished` throwing in it |
| `Cleanup` | `cleanupTimer` |
| `OpenStream`, `DropStream`, `OnClosed` | the stream handler, a client that leaves, `eventStream.onClosed` |
| `Crash` | the process dies and is restarted: memory is lost, the table is not |

`registry` is the key set of `runs`; `phase`, `timers`, `sent`, `listeners` are
fields of `RunState`; `rows` is the table; `conn`, `topic`, `last` are the
state of the connections, the run each follows and the last event written to
it. A snapshot keeps what the properties tell apart: the phase, the number of
requests counted and the run whose ceiling is cited. `started_at` is a clock
that two runs may share, so that ties of `ORDER BY started_at DESC LIMIT 1`
are a choice. Two things come from h3: a push on a stream that is closing
writes nothing, and `onClosed` is called some time after the stream was closed.
`Measured`, the rows the ceiling is read from, asks for status 'done' where
`storage.ts:93` asks for a `generator_ceiling_rps` that is not NULL: they differ
only for a check whose warm-up was no number, whose rate NaN is stored as NULL.
An exception in a timer does not end the process: the panel's server (Nitro)
handles uncaught exceptions; a deployment where it does is a `Crash`.

### RunLedger: what the run manager promises

The abstract specification. A run is entered, then completed once with one
result, and the viewers that hear of its end hear of that very result in the
step that records it. `RunManager!ImplementsLedger` maps the table to the
ledger's stages and results, and the 'done' events to what viewers were told.
Crashes, failed writes, ticks and reconnections are stutters of it.

### RunCounting: how requests are counted

A second abstract specification, of what RunManager and LoadGenerator have in
common: requests leave while a run is active, each is counted when it settles,
even after the run's end, and the count starts again once, at the end of the
warm-up. RunManager implements it for all its runs, through crashes and failed
writes; LoadGenerator for the one it looks into. That is the joint between the
two: RunManager's `Fire` and `Respond` stand for whatever the generator does,
because the generator's operations, fallbacks and answers are seen by the
counting as one request each and as nothing in between.

### RunHistory: what the history says of a run

`GET /api/history` followed by the page's `notesFor`, over RunManager's table.

### RunTimes: how long a run lasts, and is said to have lasted

One run, over a clock in milliseconds (`Date.now()`, taken to be monotonic).
The minutes of a form go through the defaults of the POST route (`WarmupField`,
`DurationField`) and `startRun` (`WarmupMs`, `DurationMs`) to the phase timer;
`Delay` is what Node makes of a delay below a millisecond or above 2^31-1 of
them: one. A timer fires when it is due or any time later. `shown` is the
snapshot a client was sent last, by `startRun`'s answer, a ui tick, the final
'done' or the first update of a stream; `stored` is the one in the table.

| Action | Code |
|---|---|
| `startRun` | `POST /api/run-test` and `startRun` |
| `WarmupEnds`, `UiTick`, `finishRun`, `Cleanup` | the timer callbacks and `finishRun` |
| `Join` | `getSnapshot` in the stream handler |
| `Tick` | a millisecond |

`NaN` is what `Number()` makes of a field that is no number, `Absent` a field
that is missing or null, which `?? 0` makes 0. A warm-up that is `NaN` makes a
run without one whose `measurementStartedAt` is `NaN`, and so is every elapsed
time: `MeasuresItsMinutes` and `ElapsedIsTrue` say so. Minutes are whole
numbers; a fraction is a smaller `Minute`. Infinity is left out, and a write
that fails is RunManager's.

### LoadGenerator: the requests of one run

RunManager counts requests; this module looks into them: the operation picked,
the fallback to a create when the pool is empty, the id taken out of the pool
before a DELETE leaves, the step at the backend, the answer on its way back,
and the sample recorded when it arrives. Requests overtake each other both
ways. The backend is an atomic set of live ids, or, in runs with `faulty`,
also fails or loses a request before or after doing the work. `warm` is a
history variable: what had been fired, and what was in flight, at the reset.

### LatencyHistogram: percentiles against the samples

The histogram beside the samples it has been given (`observed`). `Samples` has
a token for each of them, `Milliseconds` one for each of their milliseconds, so
that the counters are compared with cardinalities of sets and not with another
sum. The reference definition is the nearest-rank percentile of the samples.
`Seen` is what the loop of `percentile` has added up after a bucket, and
`Reaching` the buckets at which it may return.

Two things of the source's numbers are left out. A bucket is a `Uint32Array`
element and would wrap after 2^32 samples in one bucket, more than a run can
fire. `Math.ceil((p / 100) * count)` is computed in floating point; for the
percentiles in use (50, 95, 99) it is the exact ceiling `Target` for every
count up to three million.

### PortCheck: may the user press Run?

The port in the form, the status beside it, the immediate, debounced and polled
checks, and their answers, which arrive in any order and are applied to
whatever the form holds by then. `about` is a history variable: the port whose
check gave the status. A saved target and the ceiling box are one action,
`Choose`, since both change the port and check at once.

### PanelPage: the runs a page submits, lists and follows

| Action | Code |
|---|---|
| `ReadHistory`, `ShowHistory`, `HistoryFails` | `GET /api/history`, its answer in `loadHistory`, and no answer |
| `Submit` | `submitPreview` up to its `fetch`: the source in the field is closed, the pending entry added |
| `StartRun`, `Reject` | `POST /api/run-test`; a 400 or 500, or a lost answer |
| `Follow`, `SubmitFails` | the rest of `submitPreview`: id and `EventSource`, or the catch |
| `Connect`, `Disconnect` | the stream handler answering a source, 404 included; a broken connection, after which the source asks again |
| `Complete`, `ShowDone` | `finishRun` publishing 'done'; the page's listener |
| `Forget`, `Crash` | `cleanupTimer`; a restart of the server |

The server's side is RunLedger: PanelPage begins and completes runs by the
ledger's actions, with its own sources as viewers, so what is shown of the page
rests on what RunManager is shown to implement. An entry is a record of
`history()`: whether it still has its 'pending-...' id, its status and its
summary; order and wording are left out. `mail` holds the streams whose 'done'
has left the server and has not reached the page. `early` and `overlap` are
history variables: the runs submitted before the history settled, and the runs
whose own POST was unanswered together with another's.

The properties bound what goes wrong here to the runs it can happen to; no
document promises more, so there is no run of its own for what they allow:

- The answer of `loadHistory` replaces what was entered meanwhile
  (`index.page.ts:306`). `SubmittedRunsAreListed` allows this to drop a run
  that was submitted before the answer and is not among its rows, and nothing
  else to drop any, before the answer or after.
- A source opened by a late POST is not closed when another takes the field
  (`index.page.ts:417`). `OneRunFollowed` allows this for the runs whose own
  POSTs overlapped: any later run, and any other, is still followed alone.
- `FollowedRunsAreShownDone` holds through restarts and broken connections. It
  allows a live source to be left with a run it did not hear the end of
  (`Unheard`): one that ended while the source was connecting again, or whose
  'done' was lost on its way. That source is a late joiner, which gets one
  update of the finished run; the page shows its phase in the metric cards and
  leaves the entry 'running'.

### ResourceStore, AtomicStore: one resource at a backend

One row, and requests that create, read, update or remove it. A row holds, for
each column, which request wrote it. A request receives, waits for a
connection of its process's pool, runs a statement, gives the connection back,
and so on: the find and the write of update and remove are two statements.

| Action | Code |
|---|---|
| `Receive`, `Connect` | the controllers; the pool handing out a connection |
| `Find`, `Create` | `findOne`, `create` of all three |
| `PrismaWrite` | NestJS: writes the columns given; a missing row throws, a 500 |
| `GormWrite` | Fiber: `Save` writes every column and inserts a missing row; `Delete` does not mind one |
| `SpringLookup`, `SpringFlush` | Spring: `save` and `delete` look the row up again in their transaction, whose statement fails if the row came or went since |
| `Die` | a worker dies, with what it had sent to the database executed or not, and is forked again (`cluster.ts:27-30`) |

Spring runs with `open-in-view: false` (`application.yaml:83`) and no
transaction of its own, so the found entity is detached when it is saved.
`informed` says whether the workers know `CLUSTER_WORKERS`. Where a call of a
library is several statements with the effect of its last, it is one step:
Spring's `save` of a new id looks for it first, GORM's `Save` is an UPDATE and,
if that met no row, an INSERT that updates on a conflict.

AtomicStore is what the backends' contract promises: a request takes effect at
one moment, and its answer tells what it found then. The requests in `loose`
are promised less. `ResourceStore!ImplementsStore` maps `loose` to nothing for
NestJS and to the raced requests for the others: NestJS loses no update and
brings no row back, though it may answer 500 for 404; Fiber and Spring may, and
only to a request whose row was changed between its find and its write. So the
three do not behave alike under contention. `OnlyRacesShow` says the same of what
was answered before: `Stands(q)` is that what q removed is gone and what it set
is there, unless a request that set the same column replaced it.

## The runs

| Run | Asks | Bounds |
|---|---|---|
| RunsSafety | `TypeOK`, `LoadHasRecordAndEnd`, `ResultImmutable`, `LoadStopsAtFinish`, `CeilingNeverForgotten`, `CitedCeilingsAreStored`, `ImplementsLedger`, `ImplementsCounting` | 2 runs, 1 stream, 1 request each, 1 crash, 1 failed write |
| Streams | `DoneToldOnlyAfterStored`, `ListenersMatchStreams`, `LateJoinersSeeTheEnd`, `StreamTellsForwards`, `RunsAreForgotten`, `StreamsOfActiveRunsEnd`, `ResultsAreStored` | 1 run, 2 streams, 3 requests, 1 crash, 1 failed write |
| Load | `TypeOK`, `EveryRequestCountedOnce`, `PercentilesCoverTotals`, `PoolIsBounded`, `DeletesOwnTheirId`, `OnlyRacesFail`, `ImplementsCounting` | 2 requests in flight, 5 fired, 3 ids, a pool of 2, every scenario, target faulty or not |
| Histogram | `PercentilesAreClose`, `PercentilesAreOrdered`, `ReflectsSamplesSinceReset` | 2 buckets and the overflow, 4 latencies, 22 samples |
| PortStatus | `StatusHasGround`, `StatusCatchesUp` | 2 ports and the ceiling check, 2 edits, 2 changes of a target or failed checks, 2 checks in flight per port |
| Page | `PageTypeOK`, `OneEntryPerRun`, `HistoryTellsLedger`, `OneRunFollowed`, `SubmittedRunsAreListed`, `PendingEntriesResolve`, `FollowedRunsAreShownDone` | 2 submissions, 2 results, 1 fault |
| Store | `StoreTypeOK`, `OnlyRacesShow`, `ImplementsStore`, `RequestsAreAnswered` | 2 requests, 2 columns, each backend, 1 or 2 processes, budgets of 1 to 3, 1 death |
| Times | `MeasuresItsMinutes`, `ElapsedIsTrue` | fields of -1, 0, 1, 2, 3, `NaN` or `Absent`; a minute of 2 ms, timers of at most 5, 10 ms |

Why the bounds are enough. Two runs are what it takes for one to cite, hide or
replace the other's ceiling, and for a crash to fall between their ends; a run
interacts with another only through the table. Two streams are what it takes
for one to be open while another closes, joins late or is dropped. Three
requests let a count shrink, grow and be overtaken by the reset. In Load, two
requests in flight are the two parties of every race the generator has (a
delete and a read, two deletes, a create and a delete at the full pool), five
fired are enough to fill a pool of two, overflow it, empty it again and fall
back to a create. Twenty-two samples are more than the twenty at which the
95th percentile first leaves the maximum, and the latencies include both sides
of a bucket's edge and the overflow; the 99th is the maximum below a hundred
samples, which the rank's rounding up has to preserve. Two submissions are what
it takes for a POST to overlap another, for a source to be opened late and for
a result to reach the wrong entry; one fault falls anywhere: on the history, an
answer, a stream or the server. Two requests are the two parties of a race for
a row, two columns tell an update of one from a row written back, and budgets
of 1 to 3 for 2 processes are below, at and above a connection for each. In
Times, three minutes are too long for a timer and two are not, and ten
milliseconds hold a warm-up and a duration of two minutes that both fire late.
Every counter that a behaviour could drive for ever (requests, crashes, failed
writes, ids, edits, time) has a constant of its own as its bound.

`CHECK_DEADLOCK FALSE`: a run, a stream and a request are used once in the
model, so a behaviour ends when all of them are used up. The program goes on;
the model has nothing left to do; the clock of RunTimes stops at its bound.
Histogram and PortCheck never stop and are checked for deadlock.

Symmetry is used for runs, streams, request slots and ids, which no definition
tells apart, and never in a run with a liveness property.

### Fairness

`RunManager!FairSpec`: timers fire while the process lives, so weak fairness of
the end of the warm-up, of the end of the run and of the cleanup; a fetch
settles, by an answer, a refusal or the timeouts of Node's fetch, so weak
fairness of `Respond`; a closed connection is reported, so weak fairness of
`OnClosed`. Nothing is assumed of starts, clients, ui ticks, requests or
crashes. The liveness properties except a run whose write failed, which the
code abandons (ThrownAway). `PortCheck!FairSpec`: the page's timers fire, a
check ends within its 1500 ms, and its answer arrives; nothing is assumed of
the user or the targets.
`PanelPage!FairSpec`: a request is answered or fails, an `EventSource` connects
again, a message on an open stream arrives, and a run the server knows ends,
which is RunManager's `ResultsAreStored`; nothing is assumed of the user, the
clean-up and the faults. `ResourceStore!FairSpec`: weak fairness of each
request's steps, since the pools queue who waits and a statement ends.

### What the code does not keep

Each of these runs checks one statement of the repository and finds a
behaviour against it:

- **ThrownAway.** A comment says that the state of a finished run is kept for
  late clients and then thrown away (`run-manager.ts:258`). When
  `updateRunFinished` throws, the cleanup timer is never armed.
- **HistoryNotes.** The page knows the statuses 'running', 'done' and 'failed'
  (`index.page.ts:30`) and notes 'Running...' for the first and a failure for
  the last (lines 324-325). The row of a run with a warm-up says 'warmup' until
  the run ends, and the page notes an ongoing run as 'Done.'; that is the
  counterexample TLC prints. The property fails the other way too: nothing ever
  sets 'failed', so a run that was going on when the server died is noted as
  running for ever.
- **WarmupExcluded.** 'Warm-up done, measuring now.' (`index.page.ts:425`).
  Requests the warm-up left in flight are counted after the reset.
  `EveryRequestCountedOnce` says how far this goes: those, once each, and
  nothing else.
- **PortVerified.** The panel "checks reachability before letting you run"
  (`README.md:7`). The status of the previous port enables the button for a
  new one until the debounced check starts. `StatusCatchesUp` says that this
  does not last.

Other disagreements were met while modelling. They follow from a configuration,
or from what the properties of the passing runs name as their exceptions, and
have no run of their own:

- **Minutes no timer can hold.** The page announces the minutes of the form
  (`index.page.ts:392`); minutes above 2^31-1 ms end the run, or its warm-up,
  after a millisecond (`run-manager.ts:312,314,318`). `MeasuresItsMinutes`
  excepts the durations a timer cannot hold, and only those.
- **The figures of a late joiner.** `finishedAt` says when a run ended, and
  `buildSnapshot` counts the elapsed time to the present all the same
  (`run-manager.ts:221`): the update a late joiner gets has phase 'done', as
  `LateJoinersSeeTheEnd` shows, and a longer time and a lower rate than the
  result.
- **The connection budget.** `DB_POOL_TOTAL` is a "total Postgres connection
  budget, split evenly across workers in cluster mode" (`run-nestjs.sh:19-21`).
  Without `CLUSTER_WORKERS`, the default of that script, `cluster.ts:18` forks a
  worker per core while `prisma.service.ts:20` counts one, so each takes the
  whole budget; and a budget smaller than the number of workers is exceeded by
  the one connection each takes. What the pools add up to is a product of
  numbers that never change, so it is not a property of the model; requests
  under either, `informed` or not, are in the Store run.
- **Answers undone.** Fiber's documentation says "identical routes/behavior to
  the other two backends" (`_docs/fiber-backend.md:16`). On Fiber and Spring a
  raced update brings back a row whose removal was answered, or undoes the
  update of another column; on NestJS it does not. `OnlyRacesShow` says that
  nothing but a raced update does so, and never on NestJS.

## The proofs

`RunManagerProofs.tla` proves for any sets of runs and streams and any bounds:

| Theorem | Property |
|---|---|
| `TypeCorrect` | `TypeOK` |
| `DoneIsStored` | `DoneToldOnlyAfterStored` |
| `LoadIsAccountedFor` | `LoadHasRecordAndEnd` |
| `ListenersAreStreams` | `ListenersMatchStreams` |
| `ResultsAreFinal` | `ResultImmutable` |
| `LoadStops` | `LoadStopsAtFinish` |
| `CeilingIsKept` | `CeilingNeverForgotten` |
| `StreamsTellForwards` | `StreamTellsForwards` |
| `CitedCeilingsAreInTheTable` | `CitedCeilingsAreStored` |
| `LateJoinersAreShownTheEnd` | `LateJoinersSeeTheEnd` |
| `RefinesLedger` | `ImplementsLedger` |
| `RefinesCounting` | `ImplementsCounting` |

Assumed are the constants' assumptions named in RunManager: `NoRun` is no run,
and the bounds are naturals.

The argument. None of the safety properties is inductive. That a result is
stored once, for instance, needs that the phase timer cannot fire twice; that
'done' tells the stored result needs that the stream's run has a row. `IInv`
ties them together, as one statement for each run (`RunInvOf`) and one for each
stream (`StreamInvOf`):

- a run's timers determine its phase: an armed warm-up timer means 'warmup', an
  armed finish timer 'running', an armed cleanup timer 'done'; once a run is
  done or lost, only its cleanup timer can be armed;
- a run with a timer that drives it is registered, has an open row, and has the
  warm-up timer or the finish timer armed but not both;
- only a run that is done or lost has a stored result, and a row without one
  has an empty summary;
- a stream that was opened follows a run that was started and has a row; one
  that was told 'done' was told the summary in that row, and is closing or
  closed;
- what an open stream was told last is no further than its run: an earlier
  phase, or the same phase and no more requests counted;
- the listeners of a run are its streams that are not closed.

`Init => IInv` and `IInv /\ [Next]_vars => IInv'` are proved with one step per
action; facts about an action that leaves runs or streams alone are lemmas
(`RunInvFrame` and its like). `Invariance` is the temporal conclusion; the
action properties and the refinement follow from it step by step: each step of
RunManager records a run, completes one for the streams it reaches, or changes
nothing the ledger sees.

`CitedCeilingsAreStored` and `LateJoinersSeeTheEnd` have invariants of their
own, proved on top of `IInv`. A ceiling that is cited was read from the table
(`SummaryStep`, `EventStep`), and a stored result stays as it is
(`ResultsAreFinal`); a check reads the ceiling before it stores its own result,
so it cannot cite itself. A stream is left open after the end of its run only
if the end reached nobody or if it subscribed later, and then its first update
is of the finished run.

`LoadGeneratorProofs.tla` proves, for any finite set of slots, any ids and any
cap of the pool:

| Theorem | Property |
|---|---|
| `LoadTypeCorrect` | `TypeOK` |
| `RequestsAreCountedOnce` | `EveryRequestCountedOnce` |
| `PercentilesAndTotalsAgree` | `PercentilesCoverTotals` |
| `PoolStaysBounded` | `PoolIsBounded` |
| `DeletesAreExclusive` | `DeletesOwnTheirId` |
| `FailuresAreRaces` | `OnlyRacesFail` |
| `GeneratorRefinesCounting` | `ImplementsCounting` |

Its inductive invariant `LInv` has three parts beside the types. `Ownership`
makes `DeletesOwnTheirId` inductive: besides the DELETEs on their way, the
answers to creates that are not in the pool yet also hold an id, and the pool
and all the holders share no id. `Accounting` counts the requests in flight as
a finite set that a send makes one larger and a settled request one smaller.
`Causes` says where a failure can come from: a dead resource takes a DELETE,
which only two scenarios fire; a request that names it is a read or an update,
which only three do; the one they share is `mixed_crud`. `RemoveAtPool` and
`PushPool` are the lemmas about the pool. Assumed are that the slots are
finite, that `NoId` is no id and that the cap is a positive number.
`GeneratorRefinesCounting` uses the same count of the requests in flight.

`LatencyHistogramProofs.tla` proves, for any set of latencies, any number and
width of buckets, any percentiles from 1 to 100 and any number of samples:

| Theorem | Property |
|---|---|
| `StatisticsAreOfTheWindow` | `ReflectsSamplesSinceReset` |
| `PercentilesAreCloseToTheTrueOnes` | `PercentilesAreClose` |
| `PercentilesInOrder` | `PercentilesAreOrdered` |
| `LoopAlwaysStops` | the return after the loop of `percentile` is never reached |

The invariant `IInv` has the types, the tallies (each counter is the number of
tokens it stands for) and the maximum (a latency that was recorded and that no
recorded one exceeds, or 0). A record adds one token to each of the sets it
belongs to (`NewSample`, `RecordTallies`). What the loop computes looks like
induction over the buckets, which the provers do not have; the least-number
principle (`LeastNumber`, from the well-foundedness of the naturals) does
instead. `SeenCounts`: after bucket i the loop has seen exactly the samples in
the buckets up to i, since that function satisfies the recursion and since a
bucket where another solution differed would have a least one. `StopsAtItsBucket`:
the loop stops at the bucket of the nearest-rank percentile; had it stopped
earlier, the greatest latency seen by then would cover p percent of the samples
and be that percentile. The width of the bucket (`BucketEdges`) then bounds the
error. Assumed are that the buckets have a width and a number, and that
latencies are naturals.

`RunTimesProofs.tla` proves, for any minutes of a form, any length of a minute
and any longest delay:

| Theorem | Property |
|---|---|
| `RunsAreMeasured` | `MeasuresItsMinutes` |
| `ElapsedTimesAreTrue` | `ElapsedIsTrue` |

`PhaseInv` ties the armed timer to the phase and says that it is not due before
the times it counts from: the end of the warm-up not before the start and the
warm-up, the end of the run not before the measurement and the duration.
`SnapInv` says that what was shown and stored is true of the clock; a snapshot
built in a state of `PhaseInv` is (`SnapshotIsTrue`), and stays so as time
passes. `WarmupTimes` and `DurationTimes` are the facts about the minutes,
after which products of them are opaque. Assumed are that the minutes of a form
are integers, `NaN` and `Absent` none, and that a minute and the longest delay
are positive.

`PanelPageProofs.tla` proves, for any set of runs and results and any number of
faults:

| Theorem | Property |
|---|---|
| `PageTypeCorrect` | `PageTypeOK` |
| `NoDoubleEntries` | `OneEntryPerRun` |
| `HistoryIsTrue` | `HistoryTellsLedger` |
| `OneRunIsFollowed` | `OneRunFollowed` |
| `SubmissionsStayListed` | `SubmittedRunsAreListed` |

`OneEntryPerRun` is not inductive: the rows on their way replace the history,
and a POST may start a run that is already in neither. `EntryInv` says of both
sets that each entry belongs to a run that was submitted, one entry to a run,
and that one shown as done has the result in the table; a run that is not
submitted has no row (`ToldInv`), which also says that a 'done' on its way
carries the stored result and that its source is open. `FollowInv` makes
`OneRunFollowed` inductive: of several unanswered POSTs each has overlapped, and
while one is unanswered, a live source in the field belongs to a run that has,
since a submission closes the one it finds. `EntryEdits` and `EditedHistory` are
the lemmas about the edits of the list. Assumed are that `NoRun` and `NoResult`
are no run and no result.

`ResourceStoreProofs.tla` proves, for any finite set of processes, any
requests, columns and budgets:

| Theorem | Property |
|---|---|
| `StoreTypeCorrect` | `StoreTypeOK` |
| `RacesAloneShow` | `OnlyRacesShow` |
| `RefinesStore` | `ImplementsStore` |

Its invariant says how far each kind of request can be (a create has no find, a
read no write), and that a request that is not raced and has yet to write has
seen the very row that is there: its write is then a step of the atomic store.
The steps that do not write are stutters or reads. `RacesAloneShow` adds
`ErrorInv` (an error has a race behind it) and `StandInv`: either a raced update
of Fiber or Spring has been answered, or every answer stands. A write that keeps
the second sets its columns in the row as it is, removes it, or creates it
(`StandsAfter`); one that is not raced does, and NestJS always does. Assumed are that the
processes are finitely many, that a budget is a positive number, and that an
absent row is no content.

`PortCheckProofs.tla` proves, for any set of ports and any number of checks on
their way, `StatusIsGrounded`: `StatusHasGround`. The invariant adds that,
unless a target changed or a check failed, the answers on their way are true of
the port they were asked for. The status may be about another port than the one
in the form (PortVerified); `about` is what the theorem is about. Assumed
are that `NoPort` is no port and that the bounds are naturals.

Model-checked only: the liveness properties (`RunsAreForgotten`,
`StreamsOfActiveRunsEnd`, `ResultsAreStored`, `StatusCatchesUp`,
`PendingEntriesResolve`, `FollowedRunsAreShownDone`, `RequestsAreAnswered`),
since fairness and ENABLED are out of the prover's reach; and the claims the
code does not keep, which have counterexamples. Every invariant, action property
and refinement of a passing run is a theorem.

## Left out

- Latencies and rates in snapshots: functions of what is modelled. A rate
  divides by the elapsed time of RunTimes, which may be 0 in an update built in
  the millisecond the measurement began, but not in a stored result
  (`MeasuresItsMinutes`).
- Reads of the table that fail: only writes fail in the model. A read that
  fails in a ui tick loses that tick; one in `startRun`'s last line would
  answer 500 for a run that goes on.
- `isRunFinished`, which nothing calls; the phase and status 'failed', which
  nothing reaches: `finishRun` is only called with 'done'.
- Spring's `findById` and the other reads open no transaction that outlasts
  them; isolation is PostgreSQL's default, so a statement sees what was
  committed before it.

## Not modelled

- **Memory polls.** They overlap, and a slow answer replaces a newer one.
  Nothing depends on the figures, and nothing is promised of their order.
- **Validation of requests at the backends, lists and raw queries.** A pure
  function of a request, and a single read. The backends differ in what they
  refuse (an id that is no UUID is a 400 on Fiber and Spring); with one
  resource and well-formed requests this does not show.
- **Migration of an old table.** Two statements at import, before anything is
  concurrent.
- **k6 script.** A virtual user waits for each answer and has a pool of its
  own: none of the races of the panel's generator.
- **Selected entry, metric cards, log, saved targets.** Views of the last event
  or of the list. A selection made while an entry is pending is lost when the
  entry gets its id.
- **DTOs, bootstrap, metrics, scripts, old control panel.** Declarations,
  framework wiring, reads of counters, and process start-up.

## Plan

1. That PanelPage's server, as RunLedger, and RunManager's streams agree on who
   is told: the composition of the two modules' refinements.
2. A run of its own for each of the disagreements told above without one, should
   a document come to promise more of them.
