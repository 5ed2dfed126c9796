----------------------------- MODULE RunHistory -----------------------------
(***************************************************************************)
(* The history of runs: what GET /api/history reads from the table, and    *)
(* what the page makes of a row's status when it loads the history.        *)
(***************************************************************************)
EXTENDS RunManager

\* What the page notes beside a run.
NotesFor(status, summary) ==
    IF status = "failed" THEN "Run failed"
    ELSE IF status = "running" THEN "Running"
    ELSE IF summary = NoSnapshot THEN "Done"
    ELSE "Result"

\* The history the page loads: a note for each run that has a row.
History ==
    [r \in {q \in Run : rows[q].status # "absent"} |->
        NotesFor(rows[r].status, rows[r].summary)]

\* The page knows the statuses 'running', 'done' and 'failed' and notes
\* 'Running...' while a run goes on: a run would be noted so in the history if,
\* and only if, it generates load, be it warming up or left by a crash.
RunningIsNotedRunning ==
    \A r \in DOMAIN History :
        History[r] = "Running" <=> phase[r] \in ActivePhase
=============================================================================
