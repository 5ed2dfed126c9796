----------------------------- MODULE RunManager -----------------------------
(***************************************************************************)
(* The panel server's run manager: the in-memory registry of load-test     *)
(* runs, the timers that drive each run, the row a run keeps in            *)
(* storage/results.sqlite, and the event streams that follow a run.        *)
(* Node runs one callback at a time, so one action stands for one whole    *)
(* callback (a route handler, a timer, a settled fetch, a closed stream).  *)
(*                                                                         *)
(* A snapshot is reduced to the phase it reports, the number of requests   *)
(* it counts and the run whose ceiling it cites; latencies and rates are   *)
(* functions of these and of time.                                         *)
(***************************************************************************)
EXTENDS Naturals

CONSTANTS
    Run,            \* the ids randomUUID will return
    Stream,         \* the event-stream connections clients will open
    NoRun,          \* no run: the null of referenceCeilingRps
    MaxRequests,    \* bound: requests a run has in flight or counted
    MaxCrashes,     \* bound: crashes and restarts of the panel process
    MaxFaults       \* bound: failed writes to the results database

ASSUME NoRunAssumption == NoRun \notin Run
ASSUME BoundsAssumption ==
    /\ MaxRequests \in Nat
    /\ MaxCrashes \in Nat
    /\ MaxFaults \in Nat

VARIABLES
    registry,   \* the keys of the `runs` map
    phase,      \* state.phase, "unused" before startRun, "lost" after a crash
    isCeiling,  \* config.target_port === null
    timers,     \* the timers a run has armed
    inflight,   \* requests fired and not yet settled
    sent,       \* state.totals.sent
    listeners,  \* state.listeners, one listener per stream
    rows,       \* the table test_runs
    conn,       \* state of each event-stream connection
    topic,      \* the run a stream follows
    last,       \* the last event written to a stream
    clock,      \* Date.now(), as far as two runs' started_at differ
    crashes, faults

procVars == <<registry, phase, isCeiling, timers, inflight, sent, listeners>>
streamVars == <<conn, topic, last>>
vars == <<registry, phase, isCeiling, timers, inflight, sent, listeners,
          rows, conn, topic, last, clock, crashes, faults>>

-----------------------------------------------------------------------------
(* Data. *)

ActivePhase == {"warmup", "running"}
LiveTimer   == {"request", "ui", "memory"}
Timer       == LiveTimer \cup {"warmup", "finish", "cleanup"}

Snapshot == [phase : {"none", "warmup", "running", "done"},
             sent  : Nat,
             ref   : Run \cup {NoRun}]

NoSnapshot == [phase |-> "none", sent |-> 0, ref |-> NoRun]

Event == [kind : {"none", "update", "phase", "done"}, snap : Snapshot]

NoEvent == [kind |-> "none", snap |-> NoSnapshot]

\* The 'phase' event carries only the phase; its counts are the reset ones.
PhaseEvent == [kind |-> "phase",
               snap |-> [phase |-> "running", sent |-> 0, ref |-> NoRun]]

Row == [status    : {"absent", "warmup", "running", "done"},
        ceiling   : BOOLEAN,
        startedAt : Nat,
        summary   : Snapshot]

NoRow == [status |-> "absent", ceiling |-> FALSE, startedAt |-> 0,
          summary |-> NoSnapshot]

-----------------------------------------------------------------------------
(* Helpers. *)

\* target = 'ceiling' AND generator_ceiling_rps IS NOT NULL: finishRun is the
\* only writer of that column, and leaves it NULL only where a warm-up that is
\* no number made the rate none.
Measured(r) == rows[r].ceiling /\ rows[r].status = "done"

\* Mutant: the query without IS NOT NULL, where an unfinished check hides the
\* finished ones.
LatestCeilingUnfiltered ==
    LET checks == {r \in Run : rows[r].ceiling}
        newest == {r \in checks :
                     \A q \in checks : rows[q].startedAt <= rows[r].startedAt}
    IN  IF checks = {} THEN {NoRun}
        ELSE {IF Measured(r) THEN r ELSE NoRun : r \in newest}

\* The rows the query of latestCeilingRps may return first: ORDER BY
\* started_at DESC LIMIT 1 leaves ties to the database.
LatestCeiling ==
    LET measured == {r \in Run : Measured(r)}
    IN  IF measured = {} THEN {NoRun}
        ELSE {r \in measured :
                \A q \in measured : rows[q].startedAt <= rows[r].startedAt}

SnapshotOf(r, ref) == [phase |-> phase[r], sent |-> sent[r], ref |-> ref]

\* The streams a publish reaches: a push on a closed stream writes nothing.
Reached(r) == {s \in listeners[r] : conn[s] = "open"}

\* Mutant: the listener does not close its stream on 'done'.
PublishOnly(r, event) ==
    /\ last' = [s \in Stream |-> IF s \in Reached(r) THEN event ELSE last[s]]
    /\ UNCHANGED <<conn, topic>>

\* publish(state, event, data); a stream that is sent 'done' is then closed.
Publish(r, event) ==
    /\ last' = [s \in Stream |-> IF s \in Reached(r) THEN event ELSE last[s]]
    /\ conn' = [s \in Stream |->
                  IF s \in Reached(r) /\ event.kind = "done"
                    THEN "closing" ELSE conn[s]]
    /\ UNCHANGED topic

-----------------------------------------------------------------------------
(* Initial state: no run was ever started. *)

Init ==
    /\ registry = {}
    /\ phase = [r \in Run |-> "unused"]
    /\ isCeiling = [r \in Run |-> FALSE]
    /\ timers = [r \in Run |-> {}]
    /\ inflight = [r \in Run |-> 0]
    /\ sent = [r \in Run |-> 0]
    /\ listeners = [r \in Run |-> {}]
    /\ rows = [r \in Run |-> NoRow]
    /\ conn = [s \in Stream |-> "unopened"]
    /\ topic = [s \in Stream |-> NoRun]
    /\ last = [s \in Stream |-> NoEvent]
    /\ clock = 0
    /\ crashes = 0
    /\ faults = 0

-----------------------------------------------------------------------------
(* Actions. *)

\* What startRun does up to and including runs.set.
Register(r, ceiling, warm) ==
    /\ phase[r] = "unused"
    /\ registry' = registry \cup {r}
    /\ phase' = [phase EXCEPT ![r] = IF warm THEN "warmup" ELSE "running"]
    /\ isCeiling' = [isCeiling EXCEPT ![r] = ceiling]
    /\ UNCHANGED <<inflight, sent, listeners, streamVars, crashes>>

\* POST /api/run-test: the row is inserted, then every timer is armed.
StartRun(r, ceiling, warm, now) ==
    /\ Register(r, ceiling, warm)
    /\ now \in {clock, clock + 1}
    /\ clock' = now
    /\ rows' = [rows EXCEPT ![r] =
                  [status    |-> IF warm THEN "warmup" ELSE "running",
                   ceiling   |-> ceiling,
                   startedAt |-> now,
                   summary   |-> NoSnapshot]]
    /\ timers' = [timers EXCEPT ![r] =
                    {"request", "ui"}
                      \cup (IF ceiling THEN {} ELSE {"memory"})
                      \cup (IF warm THEN {"warmup"} ELSE {"finish"})]
    /\ UNCHANGED faults

\* Mutant: the request timer is armed before the insert.
InsertFailsAfterArming(r, ceiling, warm) ==
    /\ faults < MaxFaults
    /\ faults' = faults + 1
    /\ Register(r, ceiling, warm)
    /\ timers' = [timers EXCEPT ![r] = {"request"}]
    /\ UNCHANGED <<rows, clock>>

\* The insert throws: the client gets a 500, the state stays registered.
StartRunInsertFails(r, ceiling, warm) ==
    /\ faults < MaxFaults
    /\ faults' = faults + 1
    /\ Register(r, ceiling, warm)
    /\ UNCHANGED <<timers, rows, clock>>

\* requestTimer: one request leaves, whatever is still in flight.
Fire(r) ==
    /\ "request" \in timers[r]
    /\ inflight[r] + sent[r] < MaxRequests
    /\ inflight' = [inflight EXCEPT ![r] = @ + 1]
    /\ UNCHANGED <<registry, phase, isCeiling, timers, sent, listeners, rows,
                   streamVars, clock, crashes, faults>>

\* Mutant: a request is counted by its then and by its catch.
RespondAgain(r) ==
    /\ phase[r] \in ActivePhase
    /\ inflight' = [inflight EXCEPT ![r] = @ - 1]
    /\ sent' = [sent EXCEPT ![r] = @ + 1]
    /\ UNCHANGED <<registry, phase, isCeiling, timers, listeners, rows,
                   streamVars, clock, crashes, faults>>

\* A fetch settles and recordSample counts it, whatever the phase is by now.
Respond(r) ==
    /\ inflight[r] > 0
    /\ inflight' = [inflight EXCEPT ![r] = @ - 1]
    /\ sent' = [sent EXCEPT ![r] = @ + 1]
    /\ UNCHANGED <<registry, phase, isCeiling, timers, listeners, rows,
                   streamVars, clock, crashes, faults>>

\* uiTimer: a fresh snapshot to every listener.
UiTick(r, ref) ==
    /\ "ui" \in timers[r]
    /\ ref \in LatestCeiling
    /\ Publish(r, [kind |-> "update", snap |-> SnapshotOf(r, ref)])
    /\ UNCHANGED <<procVars, rows, clock, crashes, faults>>

\* What the end of the warm-up does but for the phase and the timers.
ResetCounts(r) ==
    /\ "warmup" \in timers[r]
    /\ sent' = [sent EXCEPT ![r] = 0]
    /\ Publish(r, PhaseEvent)
    /\ UNCHANGED <<registry, isCeiling, inflight, listeners, rows, clock,
                   crashes, faults>>

\* Mutant: the end of the warm-up forgets state.phase = 'running'.
WarmupEndsPhaseKept(r) ==
    /\ ResetCounts(r)
    /\ timers' = [timers EXCEPT ![r] = (@ \ {"warmup"}) \cup {"finish"}]
    /\ UNCHANGED phase

\* Mutant: the end of the warm-up arms no timer for the end of the run.
WarmupEndsForGood(r) ==
    /\ ResetCounts(r)
    /\ timers' = [timers EXCEPT ![r] = @ \ {"warmup"}]
    /\ phase' = [phase EXCEPT ![r] = "running"]

\* phaseTimer, at the end of the warm-up: counts start again from zero; the
\* requests in flight stay in flight. The row keeps the status it has.
WarmupEnds(r) ==
    /\ ResetCounts(r)
    /\ timers' = [timers EXCEPT ![r] = (@ \ {"warmup"}) \cup {"finish"}]
    /\ phase' = [phase EXCEPT ![r] = "running"]

\* The snapshot finishRun builds: it reads the ceiling before it stores its own.
FinalSnapshot(r, ref) == [phase |-> "done", sent |-> sent[r], ref |-> ref]

\* Every timer is cleared and the phase set; `armed` is what is armed after.
Stop(r, armed) ==
    /\ "finish" \in timers[r]
    /\ phase' = [phase EXCEPT ![r] = "done"]
    /\ timers' = [timers EXCEPT ![r] = armed]
    /\ UNCHANGED <<registry, isCeiling, inflight, sent, listeners, clock, crashes>>

\* updateRunFinished.
Store(r, snap) ==
    rows' = [rows EXCEPT ![r].status = "done", ![r].summary = snap]

Done(snap) == [kind |-> "done", snap |-> snap]

\* Mutant: phaseTimer is not cleared and fires again.
FinishRunTwice(r, ref) ==
    /\ Stop(r, {"finish", "cleanup"})
    /\ ref \in LatestCeiling
    /\ Store(r, FinalSnapshot(r, ref))
    /\ Publish(r, Done(FinalSnapshot(r, ref)))
    /\ UNCHANGED faults

\* Mutant: 'done' carries a snapshot built after the store, which cites the
\* run's own ceiling.
FinishRunRebuilds(r, ref) ==
    /\ Stop(r, {"cleanup"})
    /\ ref \in LatestCeiling
    /\ Store(r, FinalSnapshot(r, ref))
    /\ \E own \in LatestCeiling' : Publish(r, Done(FinalSnapshot(r, own)))
    /\ UNCHANGED faults

\* Mutant: no cleanup timer.
FinishRunKeepsState(r, ref) ==
    /\ Stop(r, {})
    /\ ref \in LatestCeiling
    /\ Store(r, FinalSnapshot(r, ref))
    /\ Publish(r, Done(FinalSnapshot(r, ref)))
    /\ UNCHANGED faults

\* finishRun(state, 'done'): stop the timers, store the result, tell the
\* streams and close them, and schedule the removal from the registry.
FinishRun(r, ref) ==
    /\ Stop(r, {"cleanup"})
    /\ ref \in LatestCeiling
    /\ Store(r, FinalSnapshot(r, ref))
    /\ Publish(r, Done(FinalSnapshot(r, ref)))
    /\ UNCHANGED faults

\* Mutant: the store fails before the timers are cleared.
StoreFailsBeforeClear(r) ==
    /\ Stop(r, timers[r] \ {"finish"})
    /\ faults < MaxFaults
    /\ faults' = faults + 1
    /\ UNCHANGED <<rows, streamVars>>

\* Mutant: the streams are told before the store fails.
StoreFailsAfterPublish(r) ==
    /\ Stop(r, {})
    /\ faults < MaxFaults
    /\ faults' = faults + 1
    /\ \E ref \in LatestCeiling : Publish(r, Done(FinalSnapshot(r, ref)))
    /\ UNCHANGED rows

\* The update throws inside the timer: what follows it in finishRun is lost.
FinishRunStoreFails(r) ==
    /\ Stop(r, {})
    /\ faults < MaxFaults
    /\ faults' = faults + 1
    /\ UNCHANGED <<rows, streamVars>>

\* cleanupTimer: runs.delete(state.id). Requests in flight still hold the state.
Cleanup(r) ==
    /\ "cleanup" \in timers[r]
    /\ registry' = registry \ {r}
    /\ timers' = [timers EXCEPT ![r] = @ \ {"cleanup"}]
    /\ UNCHANGED <<phase, isCeiling, inflight, sent, listeners, rows,
                   streamVars, clock, crashes, faults>>

\* Mutant: the stream is subscribed without a first update.
OpenStreamSilently(s, r, ref) ==
    /\ conn[s] = "unopened"
    /\ r \in registry
    /\ rows[r].status # "absent"
    /\ ref \in LatestCeiling
    /\ listeners' = [listeners EXCEPT ![r] = @ \cup {s}]
    /\ conn' = [conn EXCEPT ![s] = "open"]
    /\ topic' = [topic EXCEPT ![s] = r]
    /\ UNCHANGED <<registry, phase, isCeiling, timers, inflight, sent, rows, last,
                   clock, crashes, faults>>

\* GET /api/run-test/:id/stream: the snapshot, the subscription and the first
\* update are one handler. Clients know the ids the store or a reply gave them.
OpenStream(s, r, ref) ==
    /\ conn[s] = "unopened"
    /\ r \in registry
    /\ rows[r].status # "absent"
    /\ ref \in LatestCeiling
    /\ listeners' = [listeners EXCEPT ![r] = @ \cup {s}]
    /\ conn' = [conn EXCEPT ![s] = "open"]
    /\ topic' = [topic EXCEPT ![s] = r]
    /\ last' = [last EXCEPT ![s] =
                  [kind |-> "update", snap |-> SnapshotOf(r, ref)]]
    /\ UNCHANGED <<registry, phase, isCeiling, timers, inflight, sent, rows,
                   clock, crashes, faults>>

\* The client goes away (a closed tab, a broken connection).
DropStream(s) ==
    /\ conn[s] = "open"
    /\ conn' = [conn EXCEPT ![s] = "closing"]
    /\ UNCHANGED <<procVars, rows, topic, last, clock, crashes, faults>>

\* Mutant: a closed stream stays subscribed.
OnClosedSubscribed(s) ==
    /\ conn[s] = "closing"
    /\ conn' = [conn EXCEPT ![s] = "closed"]
    /\ UNCHANGED <<procVars, rows, topic, last, clock, crashes, faults>>

\* eventStream.onClosed: unsubscribe.
OnClosed(s) ==
    /\ conn[s] = "closing"
    /\ conn' = [conn EXCEPT ![s] = "closed"]
    /\ listeners' = [listeners EXCEPT ![topic[s]] = @ \ {s}]
    /\ UNCHANGED <<registry, phase, isCeiling, timers, inflight, sent, rows,
                   topic, last, clock, crashes, faults>>

\* The panel process dies and starts again: memory and connections are lost,
\* the table is not, and nothing reads it back into the registry.
Crash ==
    /\ crashes < MaxCrashes
    /\ crashes' = crashes + 1
    /\ registry' = {}
    /\ phase' = [r \in Run |-> IF phase[r] = "unused" THEN "unused" ELSE "lost"]
    /\ timers' = [r \in Run |-> {}]
    /\ inflight' = [r \in Run |-> 0]
    /\ sent' = [r \in Run |-> 0]
    /\ listeners' = [r \in Run |-> {}]
    /\ conn' = [s \in Stream |->
                  IF conn[s] = "unopened" THEN "unopened" ELSE "closed"]
    /\ UNCHANGED <<isCeiling, rows, topic, last, clock, faults>>

Next ==
    \/ \E r \in Run, ceiling, warm \in BOOLEAN :
          \/ \E now \in {clock, clock + 1} : StartRun(r, ceiling, warm, now)
          \/ StartRunInsertFails(r, ceiling, warm)
    \/ \E r \in Run :
          \/ Fire(r)
          \/ Respond(r)
          \/ WarmupEnds(r)
          \/ FinishRunStoreFails(r)
          \/ Cleanup(r)
    \/ \E r \in Run, ref \in Run \cup {NoRun} :
          \/ UiTick(r, ref)
          \/ FinishRun(r, ref)
    \/ \E s \in Stream, r \in Run, ref \in Run \cup {NoRun} :
          OpenStream(s, r, ref)
    \/ \E s \in Stream : DropStream(s) \/ OnClosed(s)
    \/ Crash

Spec == Init /\ [][Next]_vars

-----------------------------------------------------------------------------
(* Fairness: setTimeout and setInterval callbacks run while the process      *)
(* lives, a fetch settles (answer, refusal or undici's timeouts) and a       *)
(* closed connection is reported. Clients, ticks and crashes owe nothing.    *)

EndOfRun(r) == (\E ref \in Run \cup {NoRun} : FinishRun(r, ref))
                  \/ FinishRunStoreFails(r)

Fairness ==
    /\ \A r \in Run :
          /\ WF_vars(WarmupEnds(r))
          /\ WF_vars(EndOfRun(r))
          /\ WF_vars(Cleanup(r))
          /\ WF_vars(Respond(r))
    /\ \A s \in Stream : WF_vars(OnClosed(s))

FairSpec == Spec /\ Fairness

-----------------------------------------------------------------------------
(* Safety. *)

\* What a failed write of its own leaves of a run: no timer and no result.
Abandoned(r) == timers[r] = {} /\ rows[r].status # "done"

\* Every variable holds a value of its kind.
TypeOK ==
    /\ registry \subseteq Run
    /\ phase \in [Run -> {"unused", "warmup", "running", "done", "lost"}]
    /\ isCeiling \in [Run -> BOOLEAN]
    /\ timers \in [Run -> SUBSET Timer]
    /\ inflight \in [Run -> Nat]
    /\ sent \in [Run -> Nat]
    /\ listeners \in [Run -> SUBSET Stream]
    /\ rows \in [Run -> Row]
    /\ conn \in [Stream -> {"unopened", "open", "closing", "closed"}]
    /\ topic \in [Stream -> Run \cup {NoRun}]
    /\ last \in [Stream -> Event]
    /\ clock \in Nat
    /\ crashes \in Nat
    /\ faults \in Nat

\* A stream that was told a run is done was told the result that the table
\* holds for that run: finishRun stores before it publishes, and a store that
\* fails tells nobody.
DoneToldOnlyAfterStored ==
    \A s \in Stream :
        last[s].kind = "done" =>
            /\ topic[s] \in Run
            /\ rows[topic[s]].status = "done"
            /\ rows[topic[s]].summary = last[s].snap

\* No load without a record and an end: while a run's request, ui or memory
\* timer ticks, the run is registered and has a row without a result, and
\* exactly one timer is armed that leads to finishRun.
LoadHasRecordAndEnd ==
    \A r \in Run :
        timers[r] \cap LiveTimer # {} =>
            /\ r \in registry
            /\ rows[r].status \in ActivePhase
            /\ ~("warmup" \in timers[r] <=> "finish" \in timers[r])

\* The listeners of a run are the streams that follow it and are not closed:
\* a closed stream leaves no listener behind, an open one is subscribed.
ListenersMatchStreams ==
    \A r \in Run :
        listeners[r] = {s \in Stream : conn[s] \in {"open", "closing"}
                                         /\ topic[s] = r}

\* The ceiling a run is compared with is that of a check whose result is in the
\* table, in what is stored and in what streams are told, and never its own: a
\* check stores its result without having read it back.
CitedCeilingsAreStored ==
    /\ \A r \in Run :
          LET cited == rows[r].summary.ref
          IN  cited \in Run => Measured(cited) /\ cited # r
    /\ \A s \in Stream :
          LET cited == last[s].snap.ref
          IN  cited \in Run =>
                  Measured(cited) /\ (last[s].kind = "done" => cited # topic[s])

\* A client that stays connected after a run's end has been shown it, if it was
\* not told: only one that joined late is left open, and its first update is of
\* the finished run. A final write that fails tells nobody.
LateJoinersSeeTheEnd ==
    \A s \in Stream :
        conn[s] = "open" /\ topic[s] \in Run /\ phase[topic[s]] = "done" =>
            last[s].snap.phase = "done" \/ Abandoned(topic[s])

\* A stored result is final: no step changes or removes the row of a run that
\* has its result, and no step removes a row.
ResultImmutable ==
    [][\A r \in Run :
          /\ rows[r].status = "done" => rows'[r] = rows[r]
          /\ rows[r].status # "absent" => rows'[r].status # "absent"]_vars

\* After finishRun or a crash the requests in flight can only become fewer.
LoadStopsAtFinish ==
    [][\A r \in Run :
          phase[r] \in {"done", "lost"} => inflight'[r] <= inflight[r]]_vars

\* The ceiling that runs are compared with is never forgotten, nor replaced
\* by that of a check that started earlier, whatever order the checks end in
\* and whatever a crash leaves behind.
CeilingNeverForgotten ==
    [][\A r \in LatestCeiling \ {NoRun} :
          \A q \in LatestCeiling' :
              q # NoRun /\ rows[r].startedAt <= rows'[q].startedAt]_vars

\* How far a run is, as its streams see it.
Progress(p) == CASE p = "none" -> 0 [] p = "warmup" -> 1
                 [] p = "running" -> 2 [] p = "done" -> 3

\* A stream tells a run's story forwards: phases in their order, counts that
\* do not shrink within a phase, and nothing after 'done'.
StreamTellsForwards ==
    [][\A s \in Stream :
          last'[s] # last[s] =>
              /\ last[s].kind # "done"
              /\ Progress(last[s].snap.phase) <= Progress(last'[s].snap.phase)
              /\ last[s].snap.phase = last'[s].snap.phase =>
                    last[s].snap.sent <= last'[s].snap.sent]_vars

-----------------------------------------------------------------------------
(* Refinement: the table and the 'done' events implement the ledger, the     *)
(* phases and the counters the counting.                                     *)

Stage(r) == IF rows[r].status \in ActivePhase THEN "open"
            ELSE IF rows[r].status = "done" THEN "closed" ELSE "absent"

Told(s) == IF last[s].kind = "done" THEN <<topic[s], last[s].snap>>
           ELSE <<NoRun, NoSnapshot>>

Ledger == INSTANCE RunLedger WITH
    Viewer   <- Stream,
    Result   <- Snapshot,
    NoResult <- NoSnapshot,
    NotTold  <- <<NoRun, NoSnapshot>>,
    stage    <- [r \in Run |-> Stage(r)],
    result   <- [r \in Run |-> rows[r].summary],
    told     <- [s \in Stream |-> Told(s)]

\* The run manager implements the ledger, crashes and failed writes included.
ImplementsLedger == Ledger!Spec

Counting == INSTANCE RunCounting WITH stage <- phase, counted <- sent

\* A run is in its phases one after the other, no request of it leaves before
\* or after, and each that left is counted once, crashes and failed writes
\* included.
ImplementsCounting == Counting!Spec

-----------------------------------------------------------------------------
(* Liveness, under FairSpec. *)

\* Every run leaves the registry, crashes or not, unless a write of its own
\* failed.
RunsAreForgotten ==
    \A r \in Run : r \in registry ~> (r \notin registry \/ Abandoned(r))

\* A stream that follows an active run is ended by the server, if it does not
\* end before, unless the run's final write fails.
StreamsOfActiveRunsEnd ==
    \A s \in Stream :
        (conn[s] = "open" /\ topic[s] \in Run /\ phase[topic[s]] \in ActivePhase)
            ~> (conn[s] = "closed"
                  \/ (topic[s] \in Run /\ Abandoned(topic[s])))

\* A run with a row gets its result unless its final write fails or the process
\* that drives it dies, and in each case its timers stop and its requests settle.
ResultsAreStored ==
    \A r \in Run :
        rows[r].status \in ActivePhase
            ~> ((rows[r].status = "done" \/ Abandoned(r)) /\ inflight[r] = 0)

-----------------------------------------------------------------------------
(* Claims of the source that the code does not keep. *)

\* finishRun keeps a finished run in memory for a while, for the clients that
\* join late; it is then thrown away.
FinishedRunsAreThrownAway ==
    \A r \in Run :
        (r \in registry /\ phase[r] = "done") ~> (r \notin registry)
=============================================================================
