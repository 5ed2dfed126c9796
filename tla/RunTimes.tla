------------------------------ MODULE RunTimes ------------------------------
(***************************************************************************)
(* The times of one run: from the minutes of a posted form, through the    *)
(* defaults of POST /api/run-test, to the phase timer that startRun arms,  *)
(* what Node makes of a delay it cannot hold, and the elapsed time that    *)
(* the run's snapshots tell. Time passes in milliseconds; a timer fires    *)
(* when it is due or later. Minutes are whole.                             *)
(***************************************************************************)
EXTENDS Integers

CONSTANTS
    Minutes,        \* the numbers a form may hold
    NaN,            \* what Number() makes of a field that is no number
    Absent,         \* a field that is missing or null
    Minute,         \* 60_000, the milliseconds of a minute
    LongestDelay,   \* TIMEOUT_MAX of Node's timers, 2^31 - 1
    KeepFor,        \* how long a finished run is kept, ten minutes
    MaxTime         \* bound: milliseconds

ASSUME FormAssumption ==
    Minutes \subseteq Int /\ NaN \notin Int /\ Absent \notin Int /\ NaN # Absent
ASSUME TimeAssumption ==
    /\ Minute \in Nat \ {0} /\ LongestDelay \in Nat \ {0}
    /\ KeepFor \in 1..LongestDelay /\ MaxTime \in Nat

VARIABLES
    now,                    \* Date.now()
    form,                   \* the body of the POST
    phase,                  \* state.phase, "unused" before startRun
    startedAt,
    measurementStartedAt,
    timer,                  \* the phase timer, or the one that forgets the run
    shown,                  \* the last snapshot a client was sent
    stored                  \* the snapshot in the table

vars == <<now, form, phase, startedAt, measurementStartedAt, timer, shown, stored>>

Field == Minutes \cup {NaN, Absent}
ActivePhase == {"warmup", "running"}

NoTimer == [kind |-> "none", due |-> 0]
NoSnapshot == [phase |-> "none", elapsed |-> 0]

-----------------------------------------------------------------------------
(* The minutes of a form. *)

\* Mutant: Number(body.warmup_minutes) without the default.
WarmupUnset(warmup) == IF warmup = Absent THEN NaN ELSE warmup

\* Number(body.warmup_minutes ?? 0)
WarmupField(warmup) == IF warmup = Absent THEN 0 ELSE warmup

\* Number(body.duration_minutes) || 1
DurationField(duration) ==
    IF duration \in {0, NaN, Absent} THEN 1 ELSE duration

\* Math.max(0, config.warmup_minutes) * 60_000, which NaN stays NaN in.
WarmupMs ==
    LET minutes == WarmupField(form.warmup)
    IN  IF minutes = NaN THEN NaN
        ELSE IF minutes > 0 THEN minutes * Minute ELSE 0

DurationMs == DurationField(form.duration) * Minute

\* setTimeout: a delay below a millisecond or too long becomes a millisecond.
Delay(ms) == IF ms \in 1..LongestDelay THEN ms ELSE 1

Armed(kind, ms) == [kind |-> kind, due |-> now + Delay(ms)]

Due(kind) == timer.kind = kind /\ now >= timer.due

-----------------------------------------------------------------------------
\* A client is about to post a form.
Init ==
    /\ now = 0
    /\ form \in [duration : Field, warmup : Field]
    /\ phase = "unused"
    /\ startedAt = 0
    /\ measurementStartedAt = 0
    /\ timer = NoTimer
    /\ shown = NoSnapshot
    /\ stored = NoSnapshot

Tick ==
    /\ now < MaxTime
    /\ now' = now + 1
    /\ UNCHANGED <<form, phase, startedAt, measurementStartedAt, timer, shown, stored>>

\* buildSnapshot
Snapshot ==
    [phase   |-> phase,
     elapsed |-> IF phase = "warmup" THEN now - startedAt
                 ELSE IF measurementStartedAt = NaN THEN NaN
                 ELSE now - measurementStartedAt]

\* POST /api/run-test and startRun, which answers with a snapshot.
startRun ==
    LET warms == WarmupMs # NaN /\ WarmupMs > 0
    IN  /\ UNCHANGED <<now, form, stored>>
        /\ phase = "unused"
        /\ phase' = IF warms THEN "warmup" ELSE "running"
        /\ startedAt' = now
        /\ measurementStartedAt' = IF WarmupMs = NaN THEN NaN ELSE now + WarmupMs
        /\ timer' = IF warms THEN Armed("warmup", WarmupMs)
                    ELSE Armed("finish", DurationMs)
        /\ shown' = Snapshot'

\* Mutant: the run's end is reckoned from its start.
WarmupEndsFromStart ==
    /\ Due("warmup")
    /\ phase' = "running"
    /\ measurementStartedAt' = now
    /\ timer' = [kind |-> "finish", due |-> startedAt + Delay(DurationMs)]
    /\ UNCHANGED <<now, form, startedAt, shown, stored>>

\* phaseTimer, at the end of the warm-up.
WarmupEnds ==
    /\ Due("warmup")
    /\ phase' = "running"
    /\ measurementStartedAt' = now
    /\ timer' = Armed("finish", DurationMs)
    /\ UNCHANGED <<now, form, startedAt, shown, stored>>

\* uiTimer
UiTick ==
    /\ phase \in ActivePhase
    /\ shown' = Snapshot
    /\ UNCHANGED <<now, form, phase, startedAt, measurementStartedAt, timer, stored>>

\* finishRun: the snapshot it builds is stored and sent.
finishRun ==
    /\ UNCHANGED <<now, form, startedAt, measurementStartedAt>>
    /\ Due("finish")
    /\ phase' = "done"
    /\ stored' = Snapshot'
    /\ shown' = Snapshot'
    /\ timer' = Armed("cleanup", KeepFor)

\* cleanupTimer: the run is forgotten.
Cleanup ==
    /\ Due("cleanup")
    /\ timer' = NoTimer
    /\ UNCHANGED <<now, form, phase, startedAt, measurementStartedAt, shown, stored>>

\* A client opens the stream of a run that is known and gets a snapshot.
Join ==
    /\ timer # NoTimer
    /\ shown' = Snapshot
    /\ UNCHANGED <<now, form, phase, startedAt, measurementStartedAt, timer, stored>>

Next == Tick \/ startRun \/ WarmupEnds \/ UiTick \/ finishRun \/ Cleanup \/ Join

Spec == Init /\ [][Next]_vars

-----------------------------------------------------------------------------
(* Properties. *)

\* A number of minutes that a timer can hold.
Fits(minutes) == minutes \in Int /\ minutes > 0 /\ minutes * Minute <= LongestDelay

\* A stored result was measured for all the minutes of the run's duration, be
\* its warm-up kept, cut short by an overflow or absent; only a warm-up that is
\* no number leaves a result without a time.
MeasuresItsMinutes ==
    phase = "done" /\ Fits(DurationField(form.duration)) =>
        IF form.warmup = NaN THEN stored.elapsed = NaN
        ELSE stored.elapsed # NaN /\ stored.elapsed >= DurationMs

\* The time a snapshot tells, from which its rate is reckoned, is a number
\* unless the warm-up is none, never negative, no longer than the run has been
\* going on, and does not cover the warm-up once that is over.
ElapsedIsTrue ==
    \A snap \in {shown, stored} \ {NoSnapshot} :
        LET before == IF snap.phase # "warmup" /\ Fits(form.warmup)
                      THEN form.warmup * Minute ELSE 0
        IN  IF form.warmup = NaN THEN snap.elapsed = NaN
            ELSE /\ snap.elapsed # NaN
                 /\ snap.elapsed >= 0
                 /\ startedAt + before + snap.elapsed <= now
=============================================================================
