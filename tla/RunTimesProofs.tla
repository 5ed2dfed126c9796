--------------------------- MODULE RunTimesProofs ---------------------------
(***************************************************************************)
(* Theorems of RunTimes, for any minutes of a form, any length of a minute *)
(* and any longest delay. PhaseInv ties the armed timer to the phase and   *)
(* to the times it counts from, SnapInv what was shown and stored to the   *)
(* clock. Together with Types and MeasuresItsMinutes they are inductive.   *)
(***************************************************************************)
EXTENDS RunTimes, TLAPS

Types ==
    /\ now \in Nat /\ startedAt \in Nat /\ startedAt <= now
    /\ form \in [duration : Field, warmup : Field]
    /\ phase \in ActivePhase \cup {"unused", "done"}
    /\ timer.due \in Int

\* The warm-up that a timer can keep.
Warmed == IF Fits(form.warmup) THEN form.warmup * Minute ELSE 0

\* The measurement began when it was given to begin, after the warm-up.
Measuring ==
    IF form.warmup = NaN THEN measurementStartedAt = NaN
    ELSE /\ measurementStartedAt \in Int
         /\ startedAt + Warmed <= measurementStartedAt
         /\ measurementStartedAt <= now

PhaseInv ==
    /\ phase = "unused" => timer = NoTimer /\ shown = NoSnapshot
    /\ phase = "warmup" =>
          /\ timer.kind = "warmup" /\ form.warmup # NaN
          /\ timer.due >= startedAt + Warmed
    /\ phase = "running" =>
          /\ timer.kind = "finish"
          /\ form.warmup # NaN => timer.due >= measurementStartedAt + Delay(DurationMs)
    /\ phase = "done" => timer.kind \in {"cleanup", "none"}
    /\ phase \in {"running", "done"} => Measuring
    /\ phase # "done" => stored = NoSnapshot

\* What a snapshot tells is true of the run.
TrueSnap(snap) ==
    IF form.warmup = NaN THEN snap.elapsed = NaN
    ELSE /\ snap.elapsed \in Nat
         /\ startedAt + (IF snap.phase # "warmup" THEN Warmed ELSE 0)
               + snap.elapsed <= now

SnapInv == \A snap \in {shown, stored} : snap = NoSnapshot \/ TrueSnap(snap)

IInv == Types /\ PhaseInv /\ SnapInv /\ MeasuresItsMinutes

-----------------------------------------------------------------------------
(* Minutes and delays. *)

LEMMA PositiveProducts ==
    ASSUME NEW m \in Nat \ {0}, NEW n \in Nat \ {0}
    PROVE  m * n \in Nat \ {0}
  OBVIOUS

LEMMA DelayType == ASSUME NEW ms PROVE Delay(ms) \in Nat \ {0}
  BY TimeAssumption DEF Delay

\* A warm-up lasts as long as its timer is kept waiting, or is not one.
LEMMA WarmupTimes ==
    ASSUME form \in [duration : Field, warmup : Field]
    PROVE  /\ WarmupMs = NaN <=> form.warmup = NaN
           /\ form.warmup # NaN => WarmupMs \in Nat
           /\ Warmed \in Nat
           /\ form.warmup # NaN => IF WarmupMs > 0 THEN Delay(WarmupMs) >= Warmed
                                   ELSE Warmed = 0
<1> DEFINE w == form.warmup
           k == w * Minute
<1>1. w \in Int \cup {NaN, Absent} /\ NaN \notin Int /\ Absent \notin Int /\ NaN # Absent
  BY FormAssumption DEF Field
<1>2. Minute \in Nat \ {0} /\ LongestDelay \in Nat \ {0}
  BY TimeAssumption
<1>3. w \in Int /\ w > 0 => k \in Nat \ {0}
  BY <1>2, PositiveProducts
<1>4. CASE w \in Int /\ w > 0
  <2>1. WarmupField(w) = w /\ WarmupMs = k
    BY <1>1, <1>4 DEF WarmupField, WarmupMs
  <2>2. Warmed = IF k <= LongestDelay THEN k ELSE 0
    BY <1>4 DEF Warmed, Fits
  <2>3. k <= LongestDelay => Delay(k) = k
    BY <1>2, <1>3, <1>4 DEF Delay
  <2>4. k \in Nat \ {0} /\ Delay(k) \in Nat \ {0} /\ w # NaN /\ k # NaN
    BY <1>1, <1>3, <1>4, DelayType
  <2> HIDE DEF k, w
  <2> QED
    BY <2>1, <2>2, <2>3, <2>4 DEF w
<1>5. CASE w \in Int /\ ~ (w > 0)
  BY <1>1, <1>5 DEF WarmupField, WarmupMs, Warmed, Fits
<1>6. CASE w \notin Int
  BY <1>1, <1>6 DEF WarmupField, WarmupMs, Warmed, Fits
<1> QED
  BY <1>4, <1>5, <1>6

\* A duration that a timer can hold is waited for.
LEMMA DurationTimes ==
    ASSUME form \in [duration : Field, warmup : Field]
    PROVE  /\ DurationMs \in Int
           /\ Fits(DurationField(form.duration)) => Delay(DurationMs) = DurationMs
<1> DEFINE d == DurationField(form.duration)
<1>1. d \in Int /\ Minute \in Nat \ {0} /\ LongestDelay \in Nat \ {0}
  <2>1. form.duration \in Int \cup {NaN, Absent}
    BY FormAssumption DEF Field
  <2> QED
    BY <2>1, TimeAssumption DEF DurationField
<1>2. DurationMs = d * Minute
  BY DEF DurationMs
<1>3. ASSUME Fits(d) PROVE Delay(d * Minute) = d * Minute
  <2>1. d \in Nat \ {0} /\ d * Minute <= LongestDelay
    BY <1>3 DEF Fits
  <2>2. d * Minute \in Nat \ {0}
    BY <1>1, <2>1, PositiveProducts
  <2> QED
    BY <1>1, <2>1, <2>2 DEF Delay
<1> HIDE DEF d
<1>4. d * Minute \in Int
  BY <1>1
<1> QED
  BY <1>2, <1>3, <1>4 DEF d

-----------------------------------------------------------------------------
(* The invariant. *)

LEMMA InitIInv == Init => IInv
  BY FormAssumption
  DEF Init, IInv, Types, PhaseInv, SnapInv, MeasuresItsMinutes, NoTimer, NoSnapshot,
      ActivePhase

\* A snapshot taken of a run that goes on, or is over, is true of it.
LEMMA SnapshotIsTrue ==
    Types /\ PhaseInv /\ phase # "unused" => TrueSnap(Snapshot)
<1> SUFFICES ASSUME Types, PhaseInv, phase # "unused" PROVE TrueSnap(Snapshot)
  OBVIOUS
<1>1. Warmed \in Nat
  BY WarmupTimes DEF Types
<1>2. NaN \notin Int
  BY FormAssumption
<1>3. CASE phase = "warmup"
  BY <1>1, <1>2, <1>3 DEF Types, PhaseInv, TrueSnap, Snapshot
<1>4. CASE phase \in {"running", "done"}
  BY <1>1, <1>2, <1>4 DEF Types, PhaseInv, Measuring, TrueSnap, Snapshot
<1> QED
  BY <1>3, <1>4 DEF Types, ActivePhase

\* A true snapshot stays so as time passes.
LEMMA SnapshotsStayTrue ==
    ASSUME Types, Types', UNCHANGED <<form, startedAt>>, now <= now',
           NEW snap, TrueSnap(snap)
    PROVE  TrueSnap(snap)'
<1>1. Warmed' = Warmed /\ Warmed \in Nat
  BY WarmupTimes DEF Types, Warmed
<1> QED
  BY <1>1 DEF TrueSnap, Types

LEMMA TypesStep == IInv /\ [Next]_vars => Types'
<1> SUFFICES ASSUME IInv, [Next]_vars PROVE Types'
  OBVIOUS
<1>0. Types
  BY DEF IInv
<1>1. \A kind, ms : Armed(kind, ms).due \in Int
  BY <1>0, DelayType DEF Armed, Types
<1> QED
  BY <1>0, <1>1, TimeAssumption
  DEF Types, Next, Tick, startRun, WarmupEnds, UiTick, finishRun, Cleanup, Join,
      NoTimer, ActivePhase, vars

LEMMA PhaseStep == IInv /\ [Next]_vars => PhaseInv'
<1> SUFFICES ASSUME IInv, [Next]_vars PROVE PhaseInv'
  OBVIOUS
<1>0. Types /\ PhaseInv /\ Types'
  BY TypesStep DEF IInv
<1>1. /\ WarmupMs = NaN <=> form.warmup = NaN
      /\ form.warmup # NaN => WarmupMs \in Nat
      /\ Warmed \in Nat
      /\ form.warmup # NaN => IF WarmupMs > 0 THEN Delay(WarmupMs) >= Warmed
                              ELSE Warmed = 0
  BY <1>0, WarmupTimes DEF Types
<1>2. Delay(DurationMs) \in Nat /\ Delay(WarmupMs) \in Nat
  BY DelayType
<1>3. form' = form => Warmed' = Warmed /\ Delay(DurationMs)' = Delay(DurationMs)
  BY DEF Warmed, DurationMs
<1>4. UNCHANGED <<form, startedAt, measurementStartedAt>> /\ Measuring => Measuring'
  BY <1>0, <1>3 DEF Measuring, Types, Next, Tick, startRun, WarmupEnds, UiTick,
                    finishRun, Cleanup, Join, vars
<1>5. CASE Tick \/ UiTick \/ Join \/ UNCHANGED vars
  BY <1>0, <1>3, <1>4, <1>5 DEF Tick, UiTick, Join, vars, PhaseInv, ActivePhase
<1>6. CASE startRun
  BY <1>0, <1>1, <1>2, <1>3, <1>6
  DEF startRun, PhaseInv, Types, Armed, Measuring, ActivePhase
<1>7. CASE WarmupEnds
  <2>1. /\ phase = "warmup" /\ form.warmup # NaN
        /\ now >= startedAt + Warmed
    BY <1>0, <1>1, <1>7 DEF WarmupEnds, Due, PhaseInv, Types, NoTimer, ActivePhase
  <2>2. /\ phase' = "running" /\ measurementStartedAt' = now
        /\ timer' = [kind |-> "finish", due |-> now + Delay(DurationMs)]
        /\ UNCHANGED <<now, form, startedAt, shown, stored>>
    BY <1>7 DEF WarmupEnds, Armed
  <2>3. Measuring'
    BY <1>0, <1>1, <1>3, <2>1, <2>2 DEF Measuring, Types
  <2>4. timer'.kind = "finish" /\ timer'.due >= measurementStartedAt' + Delay(DurationMs)'
    BY <1>0, <1>2, <1>3, <2>2 DEF Types
  <2>5. stored' = NoSnapshot
    BY <1>0, <2>1, <2>2 DEF PhaseInv
  <2> QED
    BY <2>2, <2>3, <2>4, <2>5 DEF PhaseInv
<1>8. CASE finishRun
  <2>1. phase = "running" /\ Measuring
    BY <1>0, <1>8 DEF finishRun, Due, PhaseInv, Types, NoTimer, ActivePhase
  <2>2. /\ phase' = "done" /\ timer'.kind = "cleanup"
        /\ UNCHANGED <<form, startedAt, measurementStartedAt>>
    BY <1>8 DEF finishRun, Armed
  <2> QED
    BY <1>4, <2>1, <2>2 DEF PhaseInv
<1>9. CASE Cleanup
  BY <1>0, <1>3, <1>4, <1>9 DEF Cleanup, Due, PhaseInv, Types, NoTimer, ActivePhase
<1> QED
  BY <1>5, <1>6, <1>7, <1>8, <1>9 DEF Next

LEMMA SnapStep == IInv /\ [Next]_vars => SnapInv'
<1> SUFFICES ASSUME IInv, [Next]_vars PROVE SnapInv'
  OBVIOUS
<1>0. Types /\ PhaseInv /\ SnapInv /\ Types' /\ PhaseInv'
  BY TypesStep, PhaseStep DEF IInv
\* What was true stays true, and what is shown new is a snapshot of the run.
<1>1. ASSUME UNCHANGED <<form, startedAt>>, now <= now',
             NEW new, new = NoSnapshot \/ TrueSnap(new)',
             shown' \in {shown, new}, stored' \in {stored, new}
      PROVE  SnapInv'
  BY <1>0, <1>1, SnapshotsStayTrue DEF SnapInv
<1>2. (Types /\ PhaseInv /\ phase # "unused" => TrueSnap(Snapshot))'
  BY SnapshotIsTrue, PTL
<1>3. now <= now /\ now <= now + 1
  BY <1>0 DEF Types
<1>4. CASE Tick \/ WarmupEnds \/ Cleanup \/ UNCHANGED vars
  BY <1>1, <1>3, <1>4 DEF Tick, WarmupEnds, Cleanup, vars
<1>5. CASE startRun
  <2>1. shown = NoSnapshot /\ stored' = NoSnapshot /\ shown' = Snapshot'
        /\ phase' # "unused"
    BY <1>0, <1>5 DEF startRun, PhaseInv
  <2> QED
    BY <1>0, <1>2, <2>1 DEF SnapInv
<1>6. CASE finishRun
  <2>1. shown' = Snapshot' /\ stored' = Snapshot' /\ phase' # "unused"
    BY <1>6 DEF finishRun
  <2> QED
    BY <1>0, <1>2, <2>1 DEF SnapInv
<1>7. CASE UiTick \/ Join
  <2>1. /\ UNCHANGED <<now, form, phase, startedAt, measurementStartedAt, timer, stored>>
        /\ shown' = Snapshot /\ phase # "unused"
    BY <1>0, <1>7 DEF UiTick, Join, PhaseInv, ActivePhase
  <2>2. Snapshot' = Snapshot
    BY <2>1 DEF Snapshot
  <2> QED
    BY <1>0, <1>1, <1>2, <1>3, <2>1, <2>2
<1> QED
  BY <1>4, <1>5, <1>6, <1>7 DEF Next

LEMMA MeasureStep == IInv /\ [Next]_vars => MeasuresItsMinutes'
<1> SUFFICES ASSUME IInv, [Next]_vars PROVE MeasuresItsMinutes'
  OBVIOUS
<1>0. Types /\ PhaseInv /\ MeasuresItsMinutes
  BY DEF IInv
<1>1. form' = form => DurationMs' = DurationMs
  BY DEF DurationMs
<1>2. CASE Tick \/ WarmupEnds \/ UiTick \/ Cleanup \/ Join \/ startRun \/ UNCHANGED vars
  BY <1>0, <1>1, <1>2
  DEF Tick, WarmupEnds, UiTick, Cleanup, Join, startRun, vars, MeasuresItsMinutes
<1>3. CASE finishRun
  <2>1. phase = "running" /\ Measuring /\ now >= timer.due
        /\ UNCHANGED <<now, form, measurementStartedAt>>
    BY <1>0, <1>3 DEF finishRun, Due, PhaseInv, Types, NoTimer, ActivePhase
  <2>2. stored'.elapsed = IF measurementStartedAt = NaN THEN NaN
                          ELSE now - measurementStartedAt
    BY <1>3, <2>1 DEF finishRun, Snapshot
  <2>3. ASSUME form.warmup # NaN, Fits(DurationField(form.duration))
        PROVE  stored'.elapsed # NaN /\ stored'.elapsed >= DurationMs
    <3>1. DurationMs \in Int /\ timer.due >= measurementStartedAt + DurationMs
      BY <1>0, <2>1, <2>3, DurationTimes DEF PhaseInv, Types
    <3> QED
      BY <1>0, <2>1, <2>2, <2>3, <3>1, FormAssumption DEF Measuring, Types
  <2> QED
    BY <1>1, <2>1, <2>2, <2>3 DEF MeasuresItsMinutes, Measuring
<1> QED
  BY <1>2, <1>3 DEF Next

\* The inductive invariant holds throughout.
THEOREM TimesInvariance == Spec => []IInv
<1>1. IInv /\ [Next]_vars => IInv'
  BY TypesStep, PhaseStep, SnapStep, MeasureStep DEF IInv
<1> QED
  BY InitIInv, <1>1, PTL DEF Spec

-----------------------------------------------------------------------------
(* The theorems. *)

\* However late the timers fire, a result covers the minutes of its duration if
\* a timer can hold them.
THEOREM RunsAreMeasured == Spec => []MeasuresItsMinutes
<1>1. IInv => MeasuresItsMinutes
  BY DEF IInv
<1> QED
  BY TimesInvariance, <1>1, PTL

\* The time of every snapshot is one the run has been measured for.
THEOREM ElapsedTimesAreTrue == Spec => []ElapsedIsTrue
<1>1. IInv => ElapsedIsTrue
  BY FormAssumption DEF IInv, SnapInv, TrueSnap, ElapsedIsTrue, Warmed
<1> QED
  BY TimesInvariance, <1>1, PTL
=============================================================================
