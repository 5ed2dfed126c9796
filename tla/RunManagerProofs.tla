-------------------------- MODULE RunManagerProofs --------------------------
(***************************************************************************)
(* Theorems of RunManager, for any set of runs and streams and any bounds. *)
(* RunInv ties a run's timers, phase, registration and row together;       *)
(* StreamInv ties what a stream was told to the run it follows. Together   *)
(* with TypeOK they are inductive.                                         *)
(***************************************************************************)
EXTENDS RunManager, TLAPS

\* The timers that only an unfinished, registered run has armed.
DrivingTimer == LiveTimer \cup {"warmup", "finish"}

\* One run: its timers, its phase, its registration and its row.
RunInvOf(r) ==
    /\ phase[r] = "unused" => /\ r \notin registry
                              /\ timers[r] = {}
                              /\ rows[r] = NoRow
                              /\ inflight[r] = 0
                              /\ sent[r] = 0
    /\ phase[r] \in {"done", "lost"} => timers[r] \subseteq {"cleanup"}
    /\ phase[r] = "lost" => r \notin registry
    /\ timers[r] \cap DrivingTimer # {} =>
          /\ r \in registry
          /\ rows[r].status \in ActivePhase
          /\ ~("warmup" \in timers[r] <=> "finish" \in timers[r])
    /\ "warmup" \in timers[r] => phase[r] = "warmup"
    /\ "finish" \in timers[r] => phase[r] = "running"
    /\ "cleanup" \in timers[r] => phase[r] = "done"
    /\ rows[r].status = "done" => phase[r] \in {"done", "lost"}
    /\ rows[r].status # "done" => rows[r].summary = NoSnapshot

RunInv == \A r \in Run : RunInvOf(r)

\* One stream: what it was told, against the run it follows.
StreamInvOf(s) ==
    /\ conn[s] = "unopened" => topic[s] = NoRun /\ last[s] = NoEvent
    /\ conn[s] # "unopened" => /\ topic[s] \in Run
                               /\ rows[topic[s]].status # "absent"
                               /\ phase[topic[s]] # "unused"
    /\ last[s].kind = "done" =>
          /\ conn[s] \in {"closing", "closed"}
          /\ rows[topic[s]].status = "done"
          /\ rows[topic[s]].summary = last[s].snap
    /\ conn[s] = "open" =>
          /\ phase[topic[s]] # "lost"
          /\ Progress(last[s].snap.phase) <= Progress(phase[topic[s]])
          /\ last[s].snap.phase = phase[topic[s]] =>
                last[s].snap.sent <= sent[topic[s]]

StreamInv == \A s \in Stream : StreamInvOf(s)

IInv == TypeOK /\ RunInv /\ StreamInv /\ ListenersMatchStreams

-----------------------------------------------------------------------------
(* Lemmas about the helpers. *)

\* What latestCeilingRps returns is a run or null.
LEMMA LatestCeilingType == LatestCeiling \subseteq Run \cup {NoRun}
  BY DEF LatestCeiling

\* A snapshot of a run that was started and not lost is a snapshot.
LEMMA SnapshotOfType ==
    ASSUME TypeOK, NEW r \in Run, NEW ref \in Run \cup {NoRun},
           phase[r] \notin {"unused", "lost"}
    PROVE  /\ SnapshotOf(r, ref) \in Snapshot
           /\ SnapshotOf(r, ref).phase = phase[r]
           /\ SnapshotOf(r, ref).sent = sent[r]
  BY DEF TypeOK, SnapshotOf, Snapshot

\* A publish leaves streams and events well-typed.
LEMMA PublishType ==
    ASSUME TypeOK, NEW r \in Run, NEW e \in Event, Publish(r, e)
    PROVE  /\ conn' \in [Stream -> {"unopened", "open", "closing", "closed"}]
           /\ last' \in [Stream -> Event]
  BY DEF TypeOK, Publish, Reached

\* The snapshot stored by finishRun, and the events, have their types.
LEMMA EventTypes ==
    /\ NoSnapshot \in Snapshot
    /\ NoEvent \in Event
    /\ PhaseEvent \in Event
    /\ \A sn \in Snapshot : \A k \in {"update", "done"} :
          /\ [kind |-> k, snap |-> sn] \in Event
          /\ [kind |-> k, snap |-> sn].kind = k
          /\ [kind |-> k, snap |-> sn].snap = sn
  BY DEF NoSnapshot, Snapshot, NoEvent, PhaseEvent, Event

\* So has the final snapshot of a run.
LEMMA FinalSnapshotType ==
    ASSUME TypeOK, NEW r \in Run, NEW ref \in Run \cup {NoRun}
    PROVE  FinalSnapshot(r, ref) \in Snapshot
  BY DEF TypeOK, FinalSnapshot, Snapshot

-----------------------------------------------------------------------------
(* Type correctness. *)

LEMMA InitIInv == Init => IInv
<1> SUFFICES ASSUME Init PROVE IInv
  OBVIOUS
<1>1. TypeOK
  BY EventTypes DEF Init, TypeOK, NoRow, Row
<1>2. RunInv
  BY DEF Init, RunInv, RunInvOf, NoRow, DrivingTimer, LiveTimer
<1>3. StreamInv
  BY DEF Init, StreamInv, StreamInvOf, NoEvent
<1>4. ListenersMatchStreams
  BY DEF Init, ListenersMatchStreams
<1> QED
  BY <1>1, <1>2, <1>3, <1>4 DEF IInv

LEMMA TypeStep == IInv /\ [Next]_vars => TypeOK'
<1> SUFFICES ASSUME IInv, [Next]_vars PROVE TypeOK'
  OBVIOUS
<1> USE DEF IInv, ActivePhase, LiveTimer, Timer
<1>1. ASSUME NEW r \in Run, NEW ceiling \in BOOLEAN, NEW warm \in BOOLEAN,
             NEW now \in {clock, clock + 1}, StartRun(r, ceiling, warm, now)
      PROVE  TypeOK'
  <2>1. [status |-> IF warm THEN "warmup" ELSE "running", ceiling |-> ceiling,
         startedAt |-> now, summary |-> NoSnapshot] \in Row
    BY EventTypes DEF Row, TypeOK
  <2>2. rows' \in [Run -> Row]
    BY <1>1, <2>1 DEF StartRun, TypeOK
  <2>3. timers' \in [Run -> SUBSET Timer]
    BY <1>1 DEF StartRun, TypeOK
  <2> QED
    BY <1>1, <2>2, <2>3 DEF StartRun, Register, TypeOK, streamVars
<1>2. ASSUME NEW r \in Run, NEW ceiling \in BOOLEAN, NEW warm \in BOOLEAN,
             StartRunInsertFails(r, ceiling, warm)
      PROVE  TypeOK'
  BY <1>2 DEF StartRunInsertFails, Register, TypeOK, streamVars
<1>3. ASSUME NEW r \in Run, Fire(r) PROVE TypeOK'
  BY <1>3 DEF Fire, TypeOK, streamVars
<1>4. ASSUME NEW r \in Run, Respond(r) PROVE TypeOK'
  BY <1>4 DEF Respond, TypeOK, streamVars
<1>5. ASSUME NEW r \in Run, WarmupEnds(r) PROVE TypeOK'
  <2>1. /\ conn' \in [Stream -> {"unopened", "open", "closing", "closed"}]
        /\ last' \in [Stream -> Event]
    BY <1>5, PublishType, EventTypes DEF WarmupEnds, ResetCounts
  <2>2. timers' \in [Run -> SUBSET Timer]
    BY <1>5 DEF WarmupEnds, ResetCounts, TypeOK
  <2> QED
    BY <1>5, <2>1, <2>2 DEF WarmupEnds, ResetCounts, TypeOK, Publish
<1>6. ASSUME NEW r \in Run, FinishRunStoreFails(r) PROVE TypeOK'
  BY <1>6 DEF FinishRunStoreFails, Stop, TypeOK, streamVars
<1>7. ASSUME NEW r \in Run, Cleanup(r) PROVE TypeOK'
  BY <1>7 DEF Cleanup, TypeOK, streamVars
<1>8. ASSUME NEW r \in Run, NEW ref \in Run \cup {NoRun}, UiTick(r, ref)
      PROVE  TypeOK'
  <2>1. phase[r] \notin {"unused", "lost"}
    BY <1>8 DEF UiTick, RunInv, RunInvOf
  <2>2. [kind |-> "update", snap |-> SnapshotOf(r, ref)] \in Event
    BY <2>1, SnapshotOfType, EventTypes
  <2>3. /\ conn' \in [Stream -> {"unopened", "open", "closing", "closed"}]
        /\ last' \in [Stream -> Event]
    BY <1>8, <2>2, PublishType DEF UiTick
  <2> QED
    BY <1>8, <2>3 DEF UiTick, TypeOK, Publish, procVars
<1>9. ASSUME NEW r \in Run, NEW ref \in Run \cup {NoRun}, FinishRun(r, ref)
      PROVE  TypeOK'
  <2>1. FinalSnapshot(r, ref) \in Snapshot
    BY FinalSnapshotType
  <2>2. [kind |-> "done", snap |-> FinalSnapshot(r, ref)] \in Event
    BY <2>1, EventTypes
  <2>3. /\ conn' \in [Stream -> {"unopened", "open", "closing", "closed"}]
        /\ last' \in [Stream -> Event]
    BY <1>9, <2>2, PublishType DEF FinishRun, Stop, Store, Done
  <2>4. rows' \in [Run -> Row]
    <3>1. rows' = [rows EXCEPT ![r].status = "done", ![r].summary = FinalSnapshot(r, ref)]
      BY <1>9 DEF FinishRun, Store
    <3>2. rows \in [Run -> Row]
      BY DEF TypeOK
    <3>3. [rows[r] EXCEPT !.status = "done", !.summary = FinalSnapshot(r, ref)] \in Row
      BY <2>1, <3>2 DEF Row
    <3>4. rows' = [rows EXCEPT ![r] = [rows[r] EXCEPT
                     !.status = "done", !.summary = FinalSnapshot(r, ref)]]
      BY <3>1, <3>2 DEF Row
    <3> QED
      BY <3>2, <3>3, <3>4
  <2> QED
    BY <1>9, <2>3, <2>4 DEF FinishRun, Stop, Store, Done, TypeOK, Publish
<1>10. ASSUME NEW s \in Stream, NEW r \in Run, NEW ref \in Run \cup {NoRun},
              OpenStream(s, r, ref)
       PROVE  TypeOK'
  <2>1. phase[r] \notin {"unused", "lost"}
    BY <1>10 DEF OpenStream, RunInv, RunInvOf, NoRow
  <2>2. [kind |-> "update", snap |-> SnapshotOf(r, ref)] \in Event
    BY <2>1, SnapshotOfType, EventTypes
  <2>3. last' \in [Stream -> Event]
    BY <1>10, <2>2 DEF OpenStream, TypeOK
  <2> QED
    BY <1>10, <2>3 DEF OpenStream, TypeOK
<1>11. ASSUME NEW s \in Stream, DropStream(s) PROVE TypeOK'
  BY <1>11 DEF DropStream, TypeOK, procVars
<1>12. ASSUME NEW s \in Stream, OnClosed(s) PROVE TypeOK'
  BY <1>12 DEF OnClosed, TypeOK
<1>13. ASSUME Crash PROVE TypeOK'
  BY <1>13 DEF Crash, TypeOK
<1>14. ASSUME UNCHANGED vars PROVE TypeOK'
  BY <1>14 DEF vars, TypeOK
<1> QED
  BY <1>1, <1>2, <1>3, <1>4, <1>5, <1>6, <1>7, <1>8, <1>9, <1>10, <1>11,
     <1>12, <1>13, <1>14 DEF Next

-----------------------------------------------------------------------------
(* The invariant of one run. *)

\* finishRun changes two columns of one row.
LEMMA FinishedRow ==
    ASSUME TypeOK, NEW r \in Run, NEW ref \in Run \cup {NoRun},
           FinishRun(r, ref)
    PROVE  /\ rows'[r].status = "done"
           /\ rows'[r].summary = FinalSnapshot(r, ref)
           /\ rows'[r].ceiling = rows[r].ceiling
           /\ rows'[r].startedAt = rows[r].startedAt
           /\ \A q \in Run \ {r} : rows'[q] = rows[q]
  BY DEF FinishRun, Stop, Store, Done, TypeOK, Row

\* A run that a step does not touch keeps its invariant.
LEMMA RunInvFrame ==
    ASSUME NEW q \in Run, RunInvOf(q),
           phase'[q] = phase[q], timers'[q] = timers[q], rows'[q] = rows[q],
           inflight'[q] = inflight[q], sent'[q] = sent[q],
           q \in registry' <=> q \in registry
    PROVE  RunInvOf(q)'
  BY DEF RunInvOf

LEMMA RunStep == IInv /\ [Next]_vars => RunInv'
<1> SUFFICES ASSUME IInv, [Next]_vars, NEW q \in Run PROVE RunInvOf(q)'
  BY DEF RunInv
<1> USE DEF IInv
<1>0. TypeOK /\ RunInvOf(q)
  BY DEF RunInv
<1>1. ASSUME NEW r \in Run, NEW ceiling \in BOOLEAN, NEW warm \in BOOLEAN,
             NEW now \in {clock, clock + 1}, StartRun(r, ceiling, warm, now)
      PROVE  RunInvOf(q)'
  <2>1. CASE q = r
    <3>1. /\ q \in registry'
          /\ phase'[q] = IF warm THEN "warmup" ELSE "running"
          /\ rows'[q].status = IF warm THEN "warmup" ELSE "running"
          /\ rows'[q].summary = NoSnapshot
          /\ timers'[q] = {"request", "ui"}
                            \cup (IF ceiling THEN {} ELSE {"memory"})
                            \cup (IF warm THEN {"warmup"} ELSE {"finish"})
      BY <1>1, <2>1 DEF StartRun, Register, TypeOK
    <3> QED
      BY <3>1 DEF RunInvOf, DrivingTimer, LiveTimer, ActivePhase
  <2>2. CASE q # r
    BY <1>0, <1>1, <2>2, RunInvFrame DEF StartRun, Register, TypeOK
  <2> QED
    BY <2>1, <2>2
<1>2. ASSUME NEW r \in Run, NEW ceiling \in BOOLEAN, NEW warm \in BOOLEAN,
             StartRunInsertFails(r, ceiling, warm)
      PROVE  RunInvOf(q)'
  BY <1>0, <1>2 DEF StartRunInsertFails, Register, TypeOK, RunInvOf, NoRow,
                    DrivingTimer
<1>3. ASSUME NEW r \in Run, Fire(r) PROVE RunInvOf(q)'
  BY <1>0, <1>3 DEF Fire, TypeOK, RunInvOf
<1>4. ASSUME NEW r \in Run, Respond(r) PROVE RunInvOf(q)'
  BY <1>0, <1>4 DEF Respond, TypeOK, RunInvOf
<1>5. ASSUME NEW r \in Run, WarmupEnds(r) PROVE RunInvOf(q)'
  <2>1. CASE q = r
    <3>1. /\ phase'[q] = "running"
          /\ timers'[q] = (timers[q] \ {"warmup"}) \cup {"finish"}
          /\ UNCHANGED <<rows, registry>>
          /\ "warmup" \in timers[q]
      BY <1>5, <2>1 DEF WarmupEnds, ResetCounts, TypeOK
    <3>2. "cleanup" \notin timers[q] /\ rows[q].status # "done"
      BY <1>0, <3>1 DEF RunInvOf
    <3> QED
      BY <1>0, <3>1, <3>2 DEF RunInvOf, DrivingTimer, LiveTimer
  <2>2. CASE q # r
    BY <1>0, <1>5, <2>2, RunInvFrame DEF WarmupEnds, ResetCounts, TypeOK
  <2> QED
    BY <2>1, <2>2
<1>6. ASSUME NEW r \in Run, FinishRunStoreFails(r) PROVE RunInvOf(q)'
  BY <1>0, <1>6 DEF FinishRunStoreFails, Stop, TypeOK, RunInvOf, DrivingTimer
<1>7. ASSUME NEW r \in Run, Cleanup(r) PROVE RunInvOf(q)'
  <2>1. CASE q = r
    <3>1. phase[q] = "done" /\ timers[q] \subseteq {"cleanup"}
      BY <1>0, <1>7, <2>1 DEF Cleanup, RunInvOf
    <3> QED
      BY <1>0, <1>7, <2>1, <3>1 DEF Cleanup, TypeOK, RunInvOf, DrivingTimer,
                                    LiveTimer
  <2>2. CASE q # r
    BY <1>0, <1>7, <2>2, RunInvFrame DEF Cleanup, TypeOK
  <2> QED
    BY <2>1, <2>2
<1>8. ASSUME NEW r \in Run, NEW ref \in Run \cup {NoRun}, UiTick(r, ref)
      PROVE  RunInvOf(q)'
  BY <1>0, <1>8, RunInvFrame DEF UiTick, procVars
<1>9. ASSUME NEW r \in Run, NEW ref \in Run \cup {NoRun}, FinishRun(r, ref)
      PROVE  RunInvOf(q)'
  <2>1. CASE q = r
    <3>1. /\ phase'[q] = "done"
          /\ timers'[q] = {"cleanup"}
          /\ rows'[q].status = "done"
      BY <1>0, <1>9, <2>1, FinishedRow DEF FinishRun, Stop, Store, Done, TypeOK
    <3> QED
      BY <3>1 DEF RunInvOf, DrivingTimer, LiveTimer
  <2>2. CASE q # r
    <3>1. rows'[q] = rows[q]
      BY <1>0, <1>9, <2>2, FinishedRow
    <3> QED
      BY <1>0, <1>9, <2>2, <3>1, RunInvFrame DEF FinishRun, Stop, Store, Done, TypeOK
  <2> QED
    BY <2>1, <2>2
<1>10. ASSUME NEW s \in Stream, NEW r \in Run, NEW ref \in Run \cup {NoRun},
              OpenStream(s, r, ref)
       PROVE  RunInvOf(q)'
  BY <1>0, <1>10, RunInvFrame DEF OpenStream
<1>11. ASSUME NEW s \in Stream, DropStream(s) PROVE RunInvOf(q)'
  BY <1>0, <1>11, RunInvFrame DEF DropStream, procVars
<1>12. ASSUME NEW s \in Stream, OnClosed(s) PROVE RunInvOf(q)'
  BY <1>0, <1>12, RunInvFrame DEF OnClosed
<1>13. ASSUME Crash PROVE RunInvOf(q)'
  BY <1>0, <1>13 DEF Crash, TypeOK, RunInvOf
<1>14. ASSUME UNCHANGED vars PROVE RunInvOf(q)'
  BY <1>0, <1>14, RunInvFrame DEF vars
<1> QED
  BY <1>1, <1>2, <1>3, <1>4, <1>5, <1>6, <1>7, <1>8, <1>9, <1>10, <1>11,
     <1>12, <1>13, <1>14 DEF Next

-----------------------------------------------------------------------------
(* The listeners of a run. *)

LEMMA ListenersStep == IInv /\ [Next]_vars => ListenersMatchStreams'
<1> SUFFICES ASSUME IInv, [Next]_vars, NEW q \in Run
             PROVE  (listeners[q] = {s \in Stream :
                        conn[s] \in {"open", "closing"} /\ topic[s] = q})'
  BY DEF ListenersMatchStreams
<1>0. /\ TypeOK
      /\ listeners[q] = {s \in Stream :
                           conn[s] \in {"open", "closing"} /\ topic[s] = q}
      /\ \A s \in Stream : conn[s] = "unopened" => topic[s] = NoRun
  BY DEF IInv, ListenersMatchStreams, StreamInv, StreamInvOf
<1>1. CASE UNCHANGED <<listeners, conn, topic>>
  BY <1>0, <1>1
<1>2. ASSUME NEW r \in Run, NEW e, Publish(r, e), UNCHANGED listeners
      PROVE  (listeners[q] = {s \in Stream :
                        conn[s] \in {"open", "closing"} /\ topic[s] = q})'
  <2>1. \A s \in Stream :
          conn'[s] \in {"open", "closing"} <=> conn[s] \in {"open", "closing"}
    BY <1>0, <1>2 DEF Publish, Reached, TypeOK
  <2> QED
    BY <1>0, <1>2, <2>1 DEF Publish
<1>3. ASSUME NEW s \in Stream, NEW r \in Run, NEW ref \in Run \cup {NoRun},
             OpenStream(s, r, ref)
      PROVE  (listeners[q] = {t \in Stream :
                        conn[t] \in {"open", "closing"} /\ topic[t] = q})'
  <2>1. /\ conn'[s] = "open" /\ topic'[s] = r
        /\ conn[s] = "unopened"
        /\ \A t \in Stream \ {s} : conn'[t] = conn[t] /\ topic'[t] = topic[t]
    BY <1>0, <1>3 DEF OpenStream, TypeOK
  <2>2. CASE q = r
    <3>1. listeners'[q] = listeners[q] \cup {s}
      BY <1>0, <1>3, <2>2 DEF OpenStream, TypeOK
    <3> QED
      BY <1>0, <2>1, <2>2, <3>1
  <2>3. CASE q # r
    <3>1. listeners'[q] = listeners[q]
      BY <1>0, <1>3, <2>3 DEF OpenStream, TypeOK
    <3> QED
      BY <1>0, <2>1, <2>3, <3>1
  <2> QED
    BY <2>2, <2>3
<1>4. ASSUME NEW s \in Stream, DropStream(s)
      PROVE  (listeners[q] = {t \in Stream :
                        conn[t] \in {"open", "closing"} /\ topic[t] = q})'
  <2>1. \A t \in Stream :
          conn'[t] \in {"open", "closing"} <=> conn[t] \in {"open", "closing"}
    BY <1>0, <1>4 DEF DropStream, TypeOK
  <2> QED
    BY <1>0, <1>4, <2>1 DEF DropStream, procVars
<1>5. ASSUME NEW s \in Stream, OnClosed(s)
      PROVE  (listeners[q] = {t \in Stream :
                        conn[t] \in {"open", "closing"} /\ topic[t] = q})'
  <2>1. /\ conn'[s] = "closed" /\ conn[s] = "closing"
        /\ topic' = topic
        /\ \A t \in Stream \ {s} : conn'[t] = conn[t]
    BY <1>0, <1>5 DEF OnClosed, TypeOK
  <2>2. CASE topic[s] = q
    <3>1. listeners'[q] = listeners[q] \ {s}
      BY <1>0, <1>5, <2>2 DEF OnClosed, TypeOK
    <3> QED
      BY <1>0, <2>1, <3>1
  <2>3. CASE topic[s] # q
    <3>1. listeners'[q] = listeners[q]
      BY <1>0, <1>5, <2>3 DEF OnClosed, TypeOK
    <3> QED
      BY <1>0, <2>1, <2>3, <3>1
  <2> QED
    BY <2>2, <2>3
<1>6. ASSUME Crash
      PROVE  (listeners[q] = {t \in Stream :
                        conn[t] \in {"open", "closing"} /\ topic[t] = q})'
  BY <1>0, <1>6 DEF Crash, TypeOK
<1> QED
  BY <1>1, <1>2, <1>3, <1>4, <1>5, <1>6
     DEF Next, vars, procVars, streamVars, StartRun, Register,
         StartRunInsertFails, Fire, Respond, WarmupEnds, ResetCounts, FinishRunStoreFails, Stop,
         Cleanup, UiTick, FinishRun, Stop, Store, Done

-----------------------------------------------------------------------------
(* The invariant of one stream. *)

\* The phases of a run in their order.
LEMMA ProgressValues ==
    /\ Progress("none") = 0 /\ Progress("warmup") = 1
    /\ Progress("running") = 2 /\ Progress("done") = 3
  BY DEF Progress

\* A stream that a step leaves alone keeps its invariant when the run it
\* follows keeps its phase and result, and counts no less.
LEMMA StreamInvFrame ==
    ASSUME NEW t \in Stream, TypeOK, StreamInvOf(t),
           conn'[t] = conn[t], topic'[t] = topic[t], last'[t] = last[t],
           conn[t] # "unopened" =>
              /\ phase'[topic[t]] = phase[topic[t]]
              /\ sent'[topic[t]] \in Nat
              /\ sent[topic[t]] <= sent'[topic[t]]
              /\ rows'[topic[t]].status = rows[topic[t]].status
              /\ rows'[topic[t]].summary = rows[topic[t]].summary
    PROVE  StreamInvOf(t)'
<1>1. CASE conn[t] = "unopened"
  BY <1>1 DEF StreamInvOf, NoEvent
<1>2. CASE conn[t] # "unopened"
  <2>1. topic[t] \in Run /\ sent[topic[t]] \in Nat /\ last[t].snap.sent \in Nat
    BY <1>2 DEF StreamInvOf, TypeOK, Event, Snapshot
  <2> QED
    BY <1>2, <2>1 DEF StreamInvOf
<1> QED
  BY <1>1, <1>2

LEMMA StreamStep == IInv /\ [Next]_vars => StreamInv'
<1> SUFFICES ASSUME IInv, [Next]_vars, NEW t \in Stream PROVE StreamInvOf(t)'
  BY DEF StreamInv
<1>0. /\ TypeOK
      /\ StreamInvOf(t)
      /\ \A q \in Run : RunInvOf(q)
      /\ conn[t] # "unopened" => topic[t] \in Run
  BY DEF IInv, StreamInv, StreamInvOf, RunInv
<1>00. \A r \in Run : conn[t] = "open" /\ topic[t] = r => t \in listeners[r]
  BY DEF IInv, ListenersMatchStreams
<1>000. TypeOK'
  BY TypeStep
<1>1. ASSUME NEW r \in Run, phase[r] = "unused", phase'[r] # "unused",
             \A q \in Run \ {r} : /\ phase'[q] = phase[q]
                                  /\ rows'[q] = rows[q],
             UNCHANGED <<sent, conn, topic, last>>
      PROVE  StreamInvOf(t)'
  BY <1>0, <1>1, StreamInvFrame DEF StreamInvOf, TypeOK
<1>2. ASSUME UNCHANGED <<phase, rows, conn, topic, last>>,
             \A q \in Run : sent[q] <= sent'[q]
      PROVE  StreamInvOf(t)'
  BY <1>0, <1>000, <1>2, StreamInvFrame DEF TypeOK
<1>3. ASSUME NEW r \in Run, WarmupEnds(r) PROVE StreamInvOf(t)'
  <2>1. /\ phase'[r] = "running" /\ sent'[r] = 0 /\ topic' = topic
        /\ phase[r] = "warmup"
        /\ \A q \in Run \ {r} : phase'[q] = phase[q] /\ sent'[q] = sent[q]
        /\ rows' = rows
    BY <1>0, <1>3 DEF WarmupEnds, ResetCounts, Publish, TypeOK, RunInvOf
  <2>2. CASE t \in Reached(r)
    <3>1. /\ last'[t] = PhaseEvent /\ conn'[t] = conn[t]
          /\ conn[t] = "open" /\ topic[t] = r
      BY <1>3, <2>2, <1>0 DEF WarmupEnds, ResetCounts, Publish, Reached, PhaseEvent, TypeOK,
                              IInv, ListenersMatchStreams
    <3> QED
      BY <1>0, <2>1, <3>1, ProgressValues DEF StreamInvOf, PhaseEvent
  <2>3. CASE t \notin Reached(r)
    <3>1. last'[t] = last[t] /\ conn'[t] = conn[t]
      BY <1>0, <1>3, <2>3 DEF WarmupEnds, ResetCounts, Publish, TypeOK
    <3>2. conn[t] = "open" => topic[t] # r
      BY <1>0, <1>00, <2>3 DEF Reached
    <3> QED
      BY <1>0, <2>1, <3>1, <3>2 DEF StreamInvOf
  <2> QED
    BY <2>2, <2>3
<1>4. ASSUME NEW r \in Run, FinishRunStoreFails(r) PROVE StreamInvOf(t)'
  <2>1. /\ phase'[r] = "done" /\ phase[r] = "running"
        /\ \A q \in Run \ {r} : phase'[q] = phase[q]
        /\ UNCHANGED <<sent, rows, conn, topic, last>>
    BY <1>0, <1>4 DEF FinishRunStoreFails, Stop, TypeOK, RunInvOf, streamVars
  <2>2. last[t].snap.phase \in {"none", "warmup", "running", "done"}
    BY <1>0 DEF TypeOK, Event, Snapshot
  <2> QED
    BY <1>0, <2>1, <2>2, ProgressValues DEF StreamInvOf
<1>5. ASSUME NEW r \in Run, NEW ref \in Run \cup {NoRun}, UiTick(r, ref)
      PROVE  StreamInvOf(t)'
  <2>1. phase[r] \notin {"unused", "lost"}
    BY <1>0, <1>5 DEF UiTick, RunInvOf
  <2>2. CASE t \in Reached(r)
    <3>1. /\ last'[t] = [kind |-> "update", snap |-> SnapshotOf(r, ref)]
          /\ conn'[t] = conn[t] /\ topic' = topic
          /\ conn[t] = "open" /\ topic[t] = r
      BY <1>5, <2>2, <1>0 DEF UiTick, Publish, Reached, TypeOK, IInv,
                              ListenersMatchStreams
    <3>2. /\ last'[t].kind = "update"
          /\ last'[t].snap.phase = phase[r]
          /\ last'[t].snap.sent = sent[r]
      BY <1>0, <2>1, <3>1, SnapshotOfType
    <3>3. UNCHANGED <<phase, sent, rows>>
      BY <1>5 DEF UiTick, procVars
    <3>4. phase[r] \in {"warmup", "running", "done"} /\ sent[r] \in Nat
      BY <1>0, <2>1 DEF TypeOK
    <3> QED
      BY <1>0, <3>1, <3>2, <3>3, <3>4, ProgressValues DEF StreamInvOf
  <2>3. CASE t \notin Reached(r)
    <3>1. last'[t] = last[t] /\ conn'[t] = conn[t] /\ topic' = topic
      BY <1>0, <1>5, <2>3 DEF UiTick, Publish, TypeOK
    <3>2. UNCHANGED <<phase, sent, rows>>
      BY <1>5 DEF UiTick, procVars
    <3> QED
      BY <1>0, <3>1, <3>2 DEF StreamInvOf
  <2> QED
    BY <2>2, <2>3
<1>6. ASSUME NEW r \in Run, NEW ref \in Run \cup {NoRun}, FinishRun(r, ref)
      PROVE  StreamInvOf(t)'
  <2>1. /\ phase'[r] = "done" /\ topic' = topic /\ sent' = sent
        /\ \A q \in Run \ {r} : phase'[q] = phase[q] /\ rows'[q] = rows[q]
        /\ rows'[r].status = "done"
        /\ rows'[r].summary = FinalSnapshot(r, ref)
    BY <1>0, <1>6, FinishedRow DEF FinishRun, Stop, Store, Done, Publish, TypeOK
  <2>2. CASE t \in Reached(r)
    <3> DEFINE e == [kind |-> "done", snap |-> FinalSnapshot(r, ref)]
    <3>1. last'[t] = e /\ conn[t] = "open" /\ topic[t] = r
      BY <1>6, <2>2, <1>0 DEF FinishRun, Stop, Store, Done, Publish, Reached, IInv,
                              ListenersMatchStreams
    <3>2. conn'[t] = "closing"
      BY <1>6, <2>2 DEF FinishRun, Stop, Store, Done, Publish
    <3> QED
      BY <1>0, <2>1, <3>1, <3>2 DEF StreamInvOf
  <2>3. CASE t \notin Reached(r)
    <3>1. last'[t] = last[t] /\ conn'[t] = conn[t]
      BY <1>0, <1>6, <2>3 DEF FinishRun, Stop, Store, Done, Publish, TypeOK
    <3>2. conn[t] = "open" => topic[t] # r
      BY <1>0, <1>00, <2>3 DEF Reached
    <3>3. rows[r].status # "done"
      BY <1>0, <1>6 DEF FinishRun, Stop, Store, Done, RunInvOf, DrivingTimer, ActivePhase
    <3> QED
      BY <1>0, <2>1, <3>1, <3>2, <3>3 DEF StreamInvOf
  <2> QED
    BY <2>2, <2>3
<1>7. ASSUME NEW s \in Stream, NEW r \in Run, NEW ref \in Run \cup {NoRun},
             OpenStream(s, r, ref)
      PROVE  StreamInvOf(t)'
  <2>1. CASE t = s
    <3>1. /\ conn'[t] = "open" /\ topic'[t] = r
          /\ last'[t] = [kind |-> "update", snap |-> SnapshotOf(r, ref)]
          /\ UNCHANGED <<phase, sent, rows>>
          /\ rows[r].status # "absent" /\ r \in registry
      BY <1>0, <1>7, <2>1 DEF OpenStream, TypeOK
    <3>2. phase[r] \notin {"unused", "lost"}
      BY <1>0, <3>1 DEF RunInvOf
    <3>3. /\ last'[t].kind = "update"
          /\ last'[t].snap.phase = phase[r]
          /\ last'[t].snap.sent = sent[r]
      BY <1>0, <3>1, <3>2, SnapshotOfType
    <3>4. phase[r] \in {"warmup", "running", "done"} /\ sent[r] \in Nat
      BY <1>0, <3>2 DEF TypeOK
    <3> QED
      BY <3>1, <3>3, <3>4, ProgressValues DEF StreamInvOf
  <2>2. CASE t # s
    BY <1>0, <1>7, <2>2 DEF OpenStream, StreamInvOf, TypeOK
  <2> QED
    BY <2>1, <2>2
<1>8. ASSUME NEW s \in Stream, DropStream(s) PROVE StreamInvOf(t)'
  BY <1>0, <1>8 DEF DropStream, StreamInvOf, TypeOK, procVars
<1>9. ASSUME NEW s \in Stream, OnClosed(s) PROVE StreamInvOf(t)'
  BY <1>0, <1>9 DEF OnClosed, StreamInvOf, TypeOK
<1>10. ASSUME Crash PROVE StreamInvOf(t)'
  BY <1>0, <1>10 DEF Crash, StreamInvOf, TypeOK
<1>11. ASSUME NEW r \in Run, NEW ceiling \in BOOLEAN, NEW warm \in BOOLEAN,
              NEW now \in {clock, clock + 1}, StartRun(r, ceiling, warm, now)
       PROVE  StreamInvOf(t)'
  BY <1>0, <1>1, <1>11 DEF StartRun, Register, TypeOK, streamVars
<1>12. ASSUME NEW r \in Run, NEW ceiling \in BOOLEAN, NEW warm \in BOOLEAN,
              StartRunInsertFails(r, ceiling, warm)
       PROVE  StreamInvOf(t)'
  BY <1>0, <1>1, <1>12 DEF StartRunInsertFails, Register, TypeOK, streamVars
<1>13. ASSUME NEW r \in Run, Fire(r) PROVE StreamInvOf(t)'
  BY <1>0, <1>2, <1>13 DEF Fire, streamVars, TypeOK
<1>14. ASSUME NEW r \in Run, Respond(r) PROVE StreamInvOf(t)'
  BY <1>0, <1>2, <1>14 DEF Respond, streamVars, TypeOK
<1>15. ASSUME NEW r \in Run, Cleanup(r) PROVE StreamInvOf(t)'
  BY <1>0, <1>2, <1>15 DEF Cleanup, streamVars, TypeOK
<1>16. ASSUME UNCHANGED vars PROVE StreamInvOf(t)'
  BY <1>0, <1>2, <1>16 DEF vars, TypeOK
<1> QED
  BY <1>3, <1>4, <1>5, <1>6, <1>7, <1>8, <1>9, <1>10, <1>11, <1>12, <1>13,
     <1>14, <1>15, <1>16 DEF Next

-----------------------------------------------------------------------------
(* Theorems. *)

\* The strengthening is an invariant.
LEMMA Invariance == Spec => []IInv
<1>1. Init => IInv
  BY InitIInv
<1>2. IInv /\ [Next]_vars => IInv'
  BY TypeStep, RunStep, StreamStep, ListenersStep DEF IInv
<1> QED
  BY <1>1, <1>2, PTL DEF Spec

\* Every variable of the run manager always holds a value of its kind.
THEOREM TypeCorrect == Spec => []TypeOK
<1>1. IInv => TypeOK
  BY DEF IInv
<1> QED
  BY <1>1, Invariance, PTL

\* No stream is told 'done' but with the result the table holds for its run,
\* whatever writes fail and whenever the process dies.
THEOREM DoneIsStored == Spec => []DoneToldOnlyAfterStored
<1>1. IInv => DoneToldOnlyAfterStored
  BY DEF IInv, StreamInv, StreamInvOf, DoneToldOnlyAfterStored
<1> QED
  BY <1>1, Invariance, PTL

\* A run that generates load is registered, recorded as unfinished, and has
\* one timer armed that leads to its end.
THEOREM LoadIsAccountedFor == Spec => []LoadHasRecordAndEnd
<1>1. IInv => LoadHasRecordAndEnd
  BY DEF IInv, RunInv, RunInvOf, LoadHasRecordAndEnd, DrivingTimer
<1> QED
  BY <1>1, Invariance, PTL

\* A run's listeners are its streams that are not closed.
THEOREM ListenersAreStreams == Spec => []ListenersMatchStreams
<1>1. IInv => ListenersMatchStreams
  BY DEF IInv
<1> QED
  BY <1>1, Invariance, PTL

\* No step takes back a result, or a row.
LEMMA RowsStep ==
    ASSUME IInv, [Next]_vars
    PROVE  \A r \in Run :
              /\ rows[r].status = "done" => rows'[r] = rows[r]
              /\ rows[r].status # "absent" => rows'[r].status # "absent"
<1> DEFINE Keeps == \A r \in Run :
              /\ rows[r].status = "done" => rows'[r] = rows[r]
              /\ rows[r].status # "absent" => rows'[r].status # "absent"
<1>0. /\ TypeOK
      /\ \A q \in Run : RunInvOf(q)
  BY DEF IInv, RunInv
<1>1. ASSUME NEW r \in Run, NEW ceiling \in BOOLEAN, NEW warm \in BOOLEAN,
             NEW now \in {clock, clock + 1}, StartRun(r, ceiling, warm, now)
      PROVE  Keeps
  <2>1. rows[r].status = "absent"
    BY <1>0, <1>1 DEF StartRun, Register, RunInvOf, NoRow
  <2> QED
    BY <1>0, <1>1, <2>1 DEF StartRun, TypeOK
<1>2. ASSUME NEW r \in Run, NEW ref \in Run \cup {NoRun}, FinishRun(r, ref)
      PROVE  Keeps
  <2>1. rows[r].status # "done"
    BY <1>0, <1>2 DEF FinishRun, Stop, RunInvOf, DrivingTimer, ActivePhase
  <2> QED
    BY <1>0, <1>2, <2>1, FinishedRow
<1>3. CASE UNCHANGED rows
  BY <1>3
<1> QED
  BY <1>1, <1>2, <1>3 DEF Next, vars, StartRunInsertFails, Fire,
     Respond, WarmupEnds, ResetCounts, FinishRunStoreFails, Stop, Cleanup, UiTick,
     OpenStream, DropStream, OnClosed, Crash

\* A run that has its result keeps its row for ever.
THEOREM ResultsAreFinal == Spec => ResultImmutable
<1>1. IInv /\ [Next]_vars =>
          [\A r \in Run :
              /\ rows[r].status = "done" => rows'[r] = rows[r]
              /\ rows[r].status # "absent" => rows'[r].status # "absent"]_vars
  BY RowsStep
<1> QED
  BY <1>1, Invariance, PTL DEF Spec, ResultImmutable

\* A run that is over sends nothing more.
THEOREM LoadStops == Spec => LoadStopsAtFinish
<1> DEFINE Drains == \A r \in Run :
              phase[r] \in {"done", "lost"} => inflight'[r] <= inflight[r]
<1>1. ASSUME IInv, [Next]_vars PROVE Drains
  <2>0. /\ TypeOK
        /\ \A q \in Run : RunInvOf(q)
    BY <1>1 DEF IInv, RunInv
  <2>1. ASSUME NEW r \in Run, Fire(r) PROVE Drains
    <3>1. phase[r] \notin {"done", "lost"}
      BY <2>0, <2>1 DEF Fire, RunInvOf
    <3> QED
      BY <2>0, <2>1, <3>1 DEF Fire, TypeOK
  <2>2. ASSUME NEW r \in Run, Respond(r) PROVE Drains
    BY <2>0, <2>2 DEF Respond, TypeOK
  <2>3. CASE Crash
    BY <2>0, <2>3 DEF Crash, TypeOK
  <2>4. CASE UNCHANGED inflight
    BY <2>0, <2>4 DEF TypeOK
  <2> QED
    BY <1>1, <2>1, <2>2, <2>3, <2>4 DEF Next, vars, procVars, StartRun,
       StartRunInsertFails, Register, WarmupEnds, ResetCounts, FinishRunStoreFails, Stop, Cleanup,
       UiTick, FinishRun, Stop, Store, Done, OpenStream, DropStream, OnClosed
<1> QED
  BY <1>1, Invariance, PTL DEF Spec, LoadStopsAtFinish

\* The reference ceiling never disappears and never goes back to a check that
\* was started earlier.
THEOREM CeilingIsKept == Spec => CeilingNeverForgotten
<1> DEFINE Kept == \A r \in LatestCeiling \ {NoRun} : \A q \in LatestCeiling' :
              q # NoRun /\ rows[r].startedAt <= rows'[q].startedAt
<1>1. ASSUME IInv, [Next]_vars PROVE Kept
  <2>0. /\ TypeOK
        /\ \A q \in Run : RunInvOf(q)
    BY <1>1 DEF IInv, RunInv
  <2>1. \A r \in Run : Measured(r) =>
           /\ Measured(r)'
           /\ rows'[r].startedAt = rows[r].startedAt
    BY <1>1, RowsStep DEF Measured
  <2>2. \A r \in LatestCeiling \ {NoRun} : r \in Run /\ Measured(r)
    BY DEF LatestCeiling
  <2>3. ASSUME NEW r \in Run, Measured(r)', NEW q \in LatestCeiling'
        PROVE  q \in Run /\ rows'[r].startedAt <= rows'[q].startedAt
    BY <2>3 DEF LatestCeiling
  <2> QED
    BY <2>1, <2>2, <2>3, NoRunAssumption
<1> QED
  BY <1>1, Invariance, PTL DEF Spec, CeilingNeverForgotten

\* What a step can make of a summary: nothing, none for a run that starts, and
\* for one that ends a snapshot that cites a stored check, not the run itself.
LEMMA SummaryStep ==
    ASSUME IInv, [Next]_vars, NEW q \in Run
    PROVE  \/ rows'[q].summary = rows[q].summary
           \/ rows'[q].summary.ref = NoRun
           \/ /\ rows'[q].summary.ref \in LatestCeiling
              /\ rows'[q].summary.ref # q
<1>0. /\ TypeOK
      /\ RunInvOf(q)
  BY DEF IInv, RunInv
<1>1. ASSUME NEW r \in Run, NEW ceiling \in BOOLEAN, NEW warm \in BOOLEAN,
             NEW now \in {clock, clock + 1}, StartRun(r, ceiling, warm, now)
      PROVE  rows'[q].summary = rows[q].summary \/ rows'[q].summary.ref = NoRun
  BY <1>0, <1>1 DEF StartRun, TypeOK, NoSnapshot
<1>2. ASSUME NEW r \in Run, NEW ref \in Run \cup {NoRun}, FinishRun(r, ref)
      PROVE  \/ rows'[q].summary = rows[q].summary
             \/ /\ rows'[q].summary.ref \in LatestCeiling
                /\ rows'[q].summary.ref # q
  <2>1. CASE q = r
    <3>1. rows[q].status # "done" /\ q # NoRun
      BY <1>0, <1>2, <2>1, NoRunAssumption
      DEF FinishRun, Stop, RunInvOf, DrivingTimer, ActivePhase
    <3>2. q \notin LatestCeiling
      BY <3>1 DEF LatestCeiling, Measured
    <3>3. rows'[q].summary.ref = ref /\ ref \in LatestCeiling
      BY <1>0, <1>2, <2>1, FinishedRow DEF FinalSnapshot, FinishRun
    <3> QED
      BY <3>2, <3>3
  <2>2. CASE q # r
    BY <1>0, <1>2, <2>2, FinishedRow
  <2> QED
    BY <2>1, <2>2
<1>3. CASE UNCHANGED rows
  BY <1>3
<1> QED
  BY <1>1, <1>2, <1>3 DEF Next, vars, StartRunInsertFails, Fire,
     Respond, WarmupEnds, ResetCounts, FinishRunStoreFails, Stop, Cleanup, UiTick,
     OpenStream, DropStream, OnClosed, Crash

\* What a step can make of the last event of a stream.
LEMMA EventStep ==
    ASSUME IInv, [Next]_vars, NEW s \in Stream
    PROVE  \/ last'[s] = last[s]
           \/ last'[s].snap.ref = NoRun
           \/ last'[s].snap.ref \in LatestCeiling
<1>0. TypeOK
  BY DEF IInv
<1>1. ASSUME NEW r \in Run, WarmupEnds(r)
      PROVE  last'[s] = last[s] \/ last'[s].snap.ref = NoRun
  BY <1>1 DEF WarmupEnds, ResetCounts, Publish, PhaseEvent
<1>2. ASSUME NEW r \in Run, NEW ref \in Run \cup {NoRun}, UiTick(r, ref)
      PROVE  last'[s] = last[s] \/ last'[s].snap.ref \in LatestCeiling
  BY <1>2 DEF UiTick, Publish, SnapshotOf
<1>3. ASSUME NEW r \in Run, NEW ref \in Run \cup {NoRun}, FinishRun(r, ref)
      PROVE  last'[s] = last[s] \/ last'[s].snap.ref \in LatestCeiling
  BY <1>3 DEF FinishRun, Publish, Done, FinalSnapshot
<1>4. ASSUME NEW u \in Stream, NEW r \in Run, NEW ref \in Run \cup {NoRun},
             OpenStream(u, r, ref)
      PROVE  last'[s] = last[s] \/ last'[s].snap.ref \in LatestCeiling
  BY <1>0, <1>4 DEF OpenStream, SnapshotOf, TypeOK
<1>5. CASE UNCHANGED last
  BY <1>5
<1> QED
  BY <1>1, <1>2, <1>3, <1>4, <1>5 DEF Next, vars, streamVars, StartRun, Register,
     StartRunInsertFails, Fire, Respond, FinishRunStoreFails, Stop, Cleanup,
     DropStream, OnClosed, Crash

\* A result is compared with an earlier one, never with itself, and what it
\* was compared with can be looked up. The part about 'done' needs no induction
\* of its own: the snapshot told is the one stored.
THEOREM CitedCeilingsAreInTheTable == Spec => []CitedCeilingsAreStored
<1> DEFINE Cited ==
              /\ \A r \in Run :
                    rows[r].summary.ref \in Run =>
                        Measured(rows[r].summary.ref) /\ rows[r].summary.ref # r
              /\ \A s \in Stream :
                    last[s].snap.ref \in Run => Measured(last[s].snap.ref)
<1>1. Init => Cited
  BY NoRunAssumption DEF Init, NoRow, NoEvent, NoSnapshot
<1>2. ASSUME IInv, Cited, [Next]_vars PROVE Cited'
  <2>1. \A q \in Run : Measured(q) => Measured(q)'
    BY <1>2, RowsStep DEF Measured
  <2>2. \A q \in LatestCeiling : q \in Run => Measured(q)
    BY NoRunAssumption DEF LatestCeiling
  <2>3. ASSUME NEW r \in Run, rows'[r].summary.ref \in Run
        PROVE  Measured(rows[r].summary.ref)' /\ rows'[r].summary.ref # r
    BY <1>2, <2>1, <2>2, <2>3, SummaryStep, NoRunAssumption
  <2>4. ASSUME NEW s \in Stream, last'[s].snap.ref \in Run
        PROVE  Measured(last[s].snap.ref)'
    BY <1>2, <2>1, <2>2, <2>4, EventStep, NoRunAssumption
  <2> QED
    BY <2>3, <2>4
<1>3. IInv /\ Cited => CitedCeilingsAreStored
  BY DEF CitedCeilingsAreStored, IInv, StreamInv, StreamInvOf
<1> QED
  BY <1>1, <1>2, <1>3, Invariance, PTL DEF Spec

\* A run that is over arms no timer, and its row stays as it is.
LEMMA RunOverStays ==
    ASSUME IInv, [Next]_vars, NEW r \in Run, phase[r] = "done", timers[r] = {}
    PROVE  timers'[r] = {} /\ rows'[r] = rows[r]
<1>0. TypeOK
  BY DEF IInv
<1>1. ASSUME NEW q \in Run, NEW ceiling \in BOOLEAN, NEW warm \in BOOLEAN,
             \/ \E now \in {clock, clock + 1} : StartRun(q, ceiling, warm, now)
             \/ StartRunInsertFails(q, ceiling, warm)
      PROVE  timers'[r] = {} /\ rows'[r] = rows[r]
  BY <1>0, <1>1 DEF StartRun, StartRunInsertFails, Register, TypeOK
<1>2. ASSUME NEW q \in Run, WarmupEnds(q) \/ FinishRunStoreFails(q) \/ Cleanup(q)
      PROVE  timers'[r] = {} /\ rows'[r] = rows[r]
  BY <1>0, <1>2 DEF WarmupEnds, ResetCounts, FinishRunStoreFails, Stop, Cleanup, TypeOK
<1>3. ASSUME NEW q \in Run, NEW ref \in Run \cup {NoRun}, FinishRun(q, ref)
      PROVE  timers'[r] = {} /\ rows'[r] = rows[r]
  <2>1. q # r
    BY <1>3 DEF FinishRun, Stop
  <2> QED
    BY <1>0, <1>3, <2>1, FinishedRow DEF FinishRun, Stop, TypeOK
<1>4. CASE Crash
  BY <1>0, <1>4 DEF Crash
<1>5. CASE UNCHANGED <<timers, rows>>
  BY <1>5
<1> QED
  BY <1>1, <1>2, <1>3, <1>4, <1>5 DEF Next, vars, procVars, Fire, Respond,
     UiTick, OpenStream, DropStream, OnClosed

\* Nobody is left with a picture of a run that goes on: a stream that is open
\* on a finished run joined when it was finished, and was shown that.
THEOREM LateJoinersAreShownTheEnd == Spec => []LateJoinersSeeTheEnd
<1> DEFINE Shown(s) ==
              conn[s] = "open" /\ phase[topic[s]] = "done" =>
                  last[s].snap.phase = "done" \/ Abandoned(topic[s])
           AllShown == \A s \in Stream : Shown(s)
<1>1. Init => AllShown
  BY DEF Init
<1>2. ASSUME IInv, AllShown, [Next]_vars PROVE AllShown'
  <2> SUFFICES ASSUME NEW s \in Stream, conn'[s] = "open",
                      phase'[topic'[s]] = "done"
               PROVE  last'[s].snap.phase = "done" \/ Abandoned(topic[s])'
    OBVIOUS
  <2> DEFINE Knows == last'[s].snap.phase = "done" \/ Abandoned(topic[s])'
  <2>0. /\ TypeOK
        /\ \A q \in Run : RunInvOf(q)
        /\ StreamInvOf(s)
        /\ \A q \in Run : conn[s] = "open" /\ topic[s] = q => s \in listeners[q]
    BY <1>2 DEF IInv, RunInv, StreamInv, ListenersMatchStreams
  <2>1. CASE /\ conn[s] = "open" /\ topic'[s] = topic[s] /\ last'[s] = last[s]
             /\ phase[topic[s]] = "done"
    <3>1. CASE Abandoned(topic[s])
      <4>1. timers'[topic[s]] = {} /\ rows'[topic[s]] = rows[topic[s]]
        BY <1>2, <2>0, <2>1, <3>1, RunOverStays DEF Abandoned, StreamInvOf
      <4> QED
        BY <2>1, <3>1, <4>1 DEF Abandoned
    <3> QED
      BY <1>2, <2>1, <3>1
  <2>2. ASSUME NEW r \in Run, WarmupEnds(r)
        PROVE  Knows
    <3>1. /\ topic' = topic /\ conn[s] = "open" /\ phase'[r] = "running"
          /\ \A q \in Run \ {r} : phase'[q] = phase[q]
          /\ s \notin Reached(r) => last'[s] = last[s]
      BY <2>0, <2>2 DEF WarmupEnds, ResetCounts, Publish, PhaseEvent, TypeOK
    <3>2. topic[s] \in Run \ {r} /\ s \notin Reached(r)
      BY <1>2, <2>0, <3>1 DEF StreamInvOf, Reached, IInv, ListenersMatchStreams
    <3> QED
      BY <2>1, <3>1, <3>2
  <2>3. ASSUME NEW r \in Run, NEW ref \in Run \cup {NoRun}, UiTick(r, ref)
        PROVE  Knows
    <3>1. /\ topic' = topic /\ conn[s] = "open" /\ phase' = phase
          /\ s \notin Reached(r) => last'[s] = last[s]
          /\ phase[r] # "done"
      BY <2>0, <2>3 DEF UiTick, Publish, procVars, TypeOK, RunInvOf
    <3>2. topic[s] \in Run \ {r} /\ s \notin Reached(r)
      BY <1>2, <2>0, <3>1 DEF StreamInvOf, Reached, IInv, ListenersMatchStreams
    <3> QED
      BY <2>1, <3>1, <3>2
  <2>4. ASSUME NEW r \in Run, NEW ref \in Run \cup {NoRun}, FinishRun(r, ref)
        PROVE  Knows
    <3>1. /\ topic' = topic
          /\ \A q \in Run \ {r} : phase'[q] = phase[q]
          /\ s \notin Reached(r) => last'[s] = last[s] /\ conn'[s] = conn[s]
          /\ s \in Reached(r) => conn'[s] = "closing"
      BY <2>0, <2>4 DEF FinishRun, Stop, Done, Publish, TypeOK
    <3>2. s \notin Reached(r) /\ conn[s] = "open" /\ topic[s] \in Run \ {r}
      BY <2>0, <3>1 DEF Reached, StreamInvOf
    <3> QED
      BY <2>1, <3>1, <3>2
  <2>5. ASSUME NEW r \in Run, FinishRunStoreFails(r)
        PROVE  Knows
    <3>1. /\ timers'[r] = {} /\ rows' = rows /\ rows[r].status # "done"
          /\ \A q \in Run \ {r} : phase'[q] = phase[q]
          /\ UNCHANGED <<conn, topic, last>>
      BY <2>0, <2>5 DEF FinishRunStoreFails, Stop, TypeOK, RunInvOf, streamVars
    <3>2. topic[s] \in Run
      BY <2>0, <3>1 DEF StreamInvOf
    <3>3. CASE topic[s] = r
      BY <3>1, <3>3 DEF Abandoned
    <3> QED
      BY <2>1, <3>1, <3>2, <3>3
  <2>6. ASSUME NEW u \in Stream, NEW r \in Run, NEW ref \in Run \cup {NoRun},
               OpenStream(u, r, ref)
        PROVE  Knows
    <3>1. phase' = phase
      BY <2>6 DEF OpenStream
    <3>2. CASE s = u
      BY <2>0, <2>6, <3>1, <3>2 DEF OpenStream, SnapshotOf, TypeOK
    <3>3. CASE s # u
      BY <2>0, <2>1, <2>6, <3>1, <3>3 DEF OpenStream, TypeOK
    <3> QED
      BY <3>2, <3>3
  <2>7. ASSUME NEW r \in Run, NEW ceiling \in BOOLEAN, NEW warm \in BOOLEAN,
               Register(r, ceiling, warm)
        PROVE  Knows
    BY <2>0, <2>1, <2>7 DEF Register, streamVars, TypeOK
  <2>8. CASE Crash
    BY <2>0, <2>8 DEF Crash
  <2>9. CASE UNCHANGED <<phase, topic, last>> /\ conn'[s] = conn[s]
    BY <2>1, <2>9
  <2>10. ASSUME NEW u \in Stream, DropStream(u) \/ OnClosed(u)
         PROVE  UNCHANGED <<phase, topic, last>> /\ conn'[s] = conn[s]
    BY <2>0, <2>10 DEF DropStream, OnClosed, procVars, TypeOK
  <2> QED
    BY <1>2, <2>2, <2>3, <2>4, <2>5, <2>6, <2>7, <2>8, <2>9, <2>10
    DEF Next, vars, streamVars, StartRun, StartRunInsertFails, Fire, Respond, Cleanup
<1>3. IInv /\ AllShown => LateJoinersSeeTheEnd
  BY DEF LateJoinersSeeTheEnd
<1> QED
  BY <1>1, <1>2, <1>3, Invariance, PTL DEF Spec

\* What a stream is told of its run only goes forwards, and ends with 'done'.
THEOREM StreamsTellForwards == Spec => StreamTellsForwards
<1> DEFINE Forwards == \A s \in Stream :
              last'[s] # last[s] =>
                 /\ last[s].kind # "done"
                 /\ Progress(last[s].snap.phase) <= Progress(last'[s].snap.phase)
                 /\ last[s].snap.phase = last'[s].snap.phase =>
                       last[s].snap.sent <= last'[s].snap.sent
<1>1. ASSUME IInv, [Next]_vars PROVE Forwards
  <2> SUFFICES ASSUME NEW s \in Stream, last'[s] # last[s]
               PROVE  /\ last[s].kind # "done"
                      /\ Progress(last[s].snap.phase)
                            <= Progress(last'[s].snap.phase)
                      /\ last[s].snap.phase = last'[s].snap.phase =>
                            last[s].snap.sent <= last'[s].snap.sent
    OBVIOUS
  <2>0. /\ TypeOK
        /\ StreamInvOf(s)
        /\ \A q \in Run : RunInvOf(q)
        /\ \A q \in Run : s \in listeners[q] =>
              conn[s] \in {"open", "closing"} /\ topic[s] = q
    BY <1>1 DEF IInv, RunInv, StreamInv, ListenersMatchStreams
  <2>1. ASSUME NEW r \in Run, WarmupEnds(r)
        PROVE  /\ s \in Reached(r) /\ last'[s].snap.phase = "running"
               /\ last'[s].snap.sent = 0 /\ phase[r] = "warmup"
    BY <2>0, <2>1 DEF WarmupEnds, ResetCounts, Publish, PhaseEvent, RunInvOf, TypeOK
  <2>2. ASSUME NEW r \in Run, NEW ref \in Run \cup {NoRun}, UiTick(r, ref)
        PROVE  /\ s \in Reached(r) /\ last'[s].snap.phase = phase[r]
               /\ last'[s].snap.sent = sent[r]
               /\ phase[r] \in {"warmup", "running", "done"}
    BY <2>0, <2>2 DEF UiTick, Publish, SnapshotOf, RunInvOf, TypeOK
  <2>3. ASSUME NEW r \in Run, NEW ref \in Run \cup {NoRun}, FinishRun(r, ref)
        PROVE  /\ s \in Reached(r) /\ last'[s].snap.phase = "done"
               /\ last'[s].snap.sent = sent[r] /\ phase[r] = "running"
    BY <2>0, <2>3 DEF FinishRun, Stop, Store, Done, Publish, FinalSnapshot, RunInvOf, TypeOK
  <2>4. ASSUME NEW r \in Run, s \in Reached(r)
        PROVE  /\ conn[s] = "open" /\ topic[s] = r
               /\ last[s].kind # "done"
               /\ last[s].snap.phase \in {"none", "warmup", "running", "done"}
               /\ last[s].snap.sent \in Nat /\ sent[r] \in Nat
               /\ Progress(last[s].snap.phase) <= Progress(phase[r])
               /\ last[s].snap.phase = phase[r] => last[s].snap.sent <= sent[r]
    BY <2>0, <2>4 DEF Reached, StreamInvOf, TypeOK, Event, Snapshot
  <2>5. ASSUME NEW u \in Stream, NEW r \in Run, NEW ref \in Run \cup {NoRun},
               OpenStream(u, r, ref)
        PROVE  last[s] = NoEvent /\ last'[s].snap.phase = phase[r]
                 /\ phase[r] \in {"warmup", "running", "done"}
    <3>1. s = u
      BY <2>0, <2>5 DEF OpenStream, TypeOK
    <3>2. phase[r] \in {"warmup", "running", "done"}
      BY <2>0, <2>5 DEF OpenStream, RunInvOf, NoRow, TypeOK
    <3>3. last'[s].snap.phase = phase[r]
      BY <2>0, <2>5, <3>1 DEF OpenStream, SnapshotOf, TypeOK
    <3> QED
      BY <2>0, <2>5, <3>1, <3>2, <3>3 DEF OpenStream, StreamInvOf
  <2>6. ASSUME NEW r \in Run, WarmupEnds(r)
        PROVE  /\ last[s].kind # "done"
               /\ Progress(last[s].snap.phase) <= Progress(last'[s].snap.phase)
               /\ last[s].snap.phase # last'[s].snap.phase
    BY <2>1, <2>4, <2>6, ProgressValues
  <2>7. ASSUME NEW r \in Run, NEW ref \in Run \cup {NoRun}, FinishRun(r, ref)
        PROVE  /\ last[s].kind # "done"
               /\ Progress(last[s].snap.phase) <= Progress(last'[s].snap.phase)
               /\ last[s].snap.phase # last'[s].snap.phase
    BY <2>3, <2>4, <2>7, ProgressValues
  <2>8. ASSUME NEW u \in Stream, NEW r \in Run, NEW ref \in Run \cup {NoRun},
               OpenStream(u, r, ref)
        PROVE  /\ last[s].kind # "done"
               /\ Progress(last[s].snap.phase) <= Progress(last'[s].snap.phase)
               /\ last[s].snap.phase # last'[s].snap.phase
    BY <2>5, <2>8, ProgressValues DEF NoEvent, NoSnapshot
  <2>9. ~UNCHANGED last
    OBVIOUS
  <2> QED
    BY <1>1, <2>2, <2>4, <2>6, <2>7, <2>8, <2>9 DEF Next, vars, streamVars,
       StartRun, Register, StartRunInsertFails, Fire, Respond,
       FinishRunStoreFails, Stop, Cleanup, DropStream, OnClosed, Crash
<1> QED
  BY <1>1, Invariance, PTL DEF Spec, StreamTellsForwards

-----------------------------------------------------------------------------
(* Refinement. *)

\* A step that leaves the table alone and tells no stream 'done' stutters.
LEMMA LedgerStutters ==
    ASSUME UNCHANGED rows, \A s \in Stream : Told(s)' = Told(s)
    PROVE  UNCHANGED Ledger!ledgerVars
<1>1. \A r \in Run : Stage(r)' = Stage(r)
  BY DEF Stage
<1> QED
  BY <1>1 DEF Ledger!ledgerVars

LEMMA LedgerInit == Init => Ledger!Init
<1> SUFFICES ASSUME Init PROVE Ledger!Init
  OBVIOUS
<1>1. \A r \in Run : rows[r] = NoRow
  BY DEF Init
<1>2. \A r \in Run : Stage(r) = "absent" /\ rows[r].summary = NoSnapshot
  <2>1. NoRow.status = "absent" /\ NoRow.summary = NoSnapshot
    BY DEF NoRow
  <2> QED
    BY <1>1, <2>1 DEF Stage, ActivePhase
<1>3. \A s \in Stream : Told(s) = <<NoRun, NoSnapshot>>
  BY DEF Init, Told, NoEvent
<1> QED
  BY <1>2, <1>3 DEF Ledger!Init

LEMMA LedgerStep == IInv /\ [Next]_vars => [Ledger!Next]_(Ledger!ledgerVars)
<1> SUFFICES ASSUME IInv, [Next]_vars
             PROVE  [Ledger!Next]_(Ledger!ledgerVars)
  OBVIOUS
<1>0. /\ TypeOK
      /\ \A q \in Run : RunInvOf(q)
      /\ \A s \in Stream : StreamInvOf(s)
      /\ \A q \in Run : \A s \in listeners[q] :
            s \in Stream /\ topic[s] = q
  BY DEF IInv, RunInv, StreamInv, ListenersMatchStreams
<1>1. ASSUME NEW r \in Run, NEW ceiling \in BOOLEAN, NEW warm \in BOOLEAN,
             NEW now \in {clock, clock + 1}, StartRun(r, ceiling, warm, now)
      PROVE  Ledger!Next
  <2>1. rows[r] = NoRow
    BY <1>0, <1>1 DEF StartRun, Register, RunInvOf
  <2>2. /\ rows'[r].status \in ActivePhase
        /\ rows'[r].summary = NoSnapshot
        /\ \A q \in Run \ {r} : rows'[q] = rows[q]
    BY <1>0, <1>1 DEF StartRun, TypeOK, ActivePhase
  <2>3. /\ Stage(r) = "absent" /\ Stage(r)' = "open"
        /\ \A q \in Run \ {r} : Stage(q)' = Stage(q)
    <3>1. rows[r].status = "absent"
      BY <2>1 DEF NoRow
    <3> QED
      BY <2>2, <3>1 DEF Stage, ActivePhase
  <2>4. \A q \in Run : rows'[q].summary = rows[q].summary
    BY <2>1, <2>2 DEF NoRow
  <2>5. \A s \in Stream : Told(s)' = Told(s)
    BY <1>1 DEF StartRun, Register, streamVars, Told
  <2> QED
    BY <2>3, <2>4, <2>5 DEF Ledger!Begin, Ledger!Next
<1>2. ASSUME NEW r \in Run, NEW ref \in Run \cup {NoRun}, FinishRun(r, ref)
      PROVE  Ledger!Next
  <2> DEFINE e == [kind |-> "done", snap |-> FinalSnapshot(r, ref)]
  <2>1. rows[r].status \in ActivePhase
    BY <1>0, <1>2 DEF FinishRun, Stop, Store, Done, RunInvOf, DrivingTimer
  <2>2. /\ Stage(r) = "open" /\ Stage(r)' = "closed"
        /\ \A q \in Run \ {r} : Stage(q)' = Stage(q)
    BY <1>0, <1>2, <2>1, FinishedRow DEF Stage, ActivePhase
  <2>3. /\ rows'[r].summary = FinalSnapshot(r, ref)
        /\ FinalSnapshot(r, ref) \in Snapshot
        /\ \A q \in Run \ {r} : rows'[q].summary = rows[q].summary
    BY <1>0, <1>2, FinishedRow, FinalSnapshotType
  <2>4. \A s \in Reached(r) : Told(s) = <<NoRun, NoSnapshot>>
    BY <1>0 DEF Reached, StreamInvOf, Told
  <2>5. /\ topic' = topic
        /\ last' = [s \in Stream |-> IF s \in Reached(r) THEN e ELSE last[s]]
    BY <1>2 DEF FinishRun, Stop, Store, Done, Publish
  <2>6. ASSUME NEW s \in Stream
        PROVE  Told(s)' = IF s \in Reached(r)
                            THEN <<r, rows'[r].summary>> ELSE Told(s)
    BY <1>0, <2>3, <2>5 DEF Told, Reached
  <2>7. [q \in Run |-> Stage(q)]' = [[q \in Run |-> Stage(q)] EXCEPT ![r] = "closed"]
    BY <2>2
  <2>8. [q \in Run |-> rows[q].summary]'
           = [[q \in Run |-> rows[q].summary] EXCEPT ![r] = rows'[r].summary]
    BY <2>3
  <2>9. [s \in Stream |-> Told(s)]'
           = [s \in Stream |-> IF s \in Reached(r)
                                 THEN <<r, rows'[r].summary>> ELSE Told(s)]
    BY <2>6
  <2>10. /\ [q \in Run |-> Stage(q)][r] = "open"
         /\ ([q \in Run |-> rows[q].summary]')[r] = rows'[r].summary
         /\ rows'[r].summary \in Snapshot
         /\ \A v \in Reached(r) :
               v \in Stream /\ [s \in Stream |-> Told(s)][v] = <<NoRun, NoSnapshot>>
    BY <1>0, <2>2, <2>3, <2>4 DEF Reached
  <2>11. [s \in Stream |-> Told(s)]'
            = [v \in Stream |-> IF v \in Reached(r)
                                  THEN <<r, rows'[r].summary>>
                                  ELSE [s \in Stream |-> Told(s)][v]]
    BY <2>9
  <2>12. PICK V \in SUBSET Stream : V = Reached(r)
    BY <2>10
  <2>13. Ledger!Complete(r, V)
    BY <2>7, <2>8, <2>10, <2>11, <2>12, Zenon DEF Ledger!Complete
  <2> QED
    BY <2>13 DEF Ledger!Next
<1>3. ASSUME NEW r \in Run, WarmupEnds(r)
      PROVE  UNCHANGED Ledger!ledgerVars
  <2>1. \A s \in Reached(r) : last[s].kind # "done"
    BY <1>0 DEF Reached, StreamInvOf
  <2> QED
    BY <1>3, <2>1, LedgerStutters DEF WarmupEnds, ResetCounts, Publish, PhaseEvent, Told
<1>4. ASSUME NEW r \in Run, NEW ref \in Run \cup {NoRun}, UiTick(r, ref)
      PROVE  UNCHANGED Ledger!ledgerVars
  <2>1. \A s \in Reached(r) : last[s].kind # "done"
    BY <1>0 DEF Reached, StreamInvOf
  <2> QED
    BY <1>4, <2>1, LedgerStutters DEF UiTick, Publish, Told
<1>5. ASSUME NEW u \in Stream, NEW r \in Run, NEW ref \in Run \cup {NoRun},
             OpenStream(u, r, ref)
      PROVE  UNCHANGED Ledger!ledgerVars
  <2>1. last[u].kind # "done"
    BY <1>0, <1>5 DEF OpenStream, StreamInvOf
  <2> QED
    BY <1>0, <1>5, <2>1, LedgerStutters DEF OpenStream, Told, TypeOK
<1>6. CASE UNCHANGED <<rows, topic, last>>
  <2>1. UNCHANGED Ledger!ledgerVars
    BY <1>6, LedgerStutters DEF Told
  <2> QED
    BY <2>1
<1>7. \/ UNCHANGED <<rows, topic, last>>
      \/ \E r \in Run, ceiling, warm \in BOOLEAN :
            \E now \in {clock, clock + 1} : StartRun(r, ceiling, warm, now)
      \/ \E r \in Run : WarmupEnds(r)
      \/ \E r \in Run, ref \in Run \cup {NoRun} : UiTick(r, ref) \/ FinishRun(r, ref)
      \/ \E s \in Stream, r \in Run, ref \in Run \cup {NoRun} :
            OpenStream(s, r, ref)
  BY DEF Next, vars, streamVars, StartRunInsertFails, Register, Fire, Respond,
         FinishRunStoreFails, Stop, Cleanup, DropStream, OnClosed, Crash
<1> QED
  BY <1>1, <1>2, <1>3, <1>4, <1>5, <1>6, <1>7

\* The run manager implements the ledger: every run is recorded at most once,
\* and its viewers hear what was recorded, in the step that records it.
THEOREM RefinesLedger == Spec => ImplementsLedger
<1>1. Init => Ledger!Init
  BY LedgerInit
<1>2. IInv /\ [Next]_vars => [Ledger!Next]_(Ledger!ledgerVars)
  BY LedgerStep
<1> QED
  BY <1>1, <1>2, Invariance, PTL DEF Spec, ImplementsLedger, Ledger!Spec

-----------------------------------------------------------------------------
(* Refinement of the counting. *)

LEMMA CountingStep == IInv /\ [Next]_vars => [Counting!Next]_(Counting!countingVars)
<1> SUFFICES ASSUME IInv, [Next]_vars
             PROVE  [Counting!Next]_(Counting!countingVars)
  OBVIOUS
<1> USE DEF Counting!Next, Counting!Advance
<1>0. /\ TypeOK
      /\ \A q \in Run : RunInvOf(q)
  BY DEF IInv, RunInv
<1>1. ASSUME NEW r \in Run, NEW ceiling \in BOOLEAN, NEW warm \in BOOLEAN,
             Register(r, ceiling, warm)
      PROVE  Counting!Next
  <2>1. /\ phase[r] = "unused" /\ UNCHANGED inflight
        /\ phase' = [phase EXCEPT ![r] = IF warm THEN "warmup" ELSE "running"]
        /\ sent' = [sent EXCEPT ![r] = sent[r]]
    BY <1>0, <1>1 DEF Register, TypeOK
  <2> QED
    BY <2>1
<1>2. ASSUME NEW r \in Run, Fire(r) PROVE Counting!Next
  <2>1. phase[r] \in {"warmup", "running"}
    BY <1>0, <1>2 DEF Fire, RunInvOf, TypeOK
  <2> QED
    BY <1>2, <2>1 DEF Fire, Counting!Leave
<1>3. ASSUME NEW r \in Run, Respond(r) PROVE Counting!Next
  BY <1>3 DEF Respond, Counting!Settle
<1>4. ASSUME NEW r \in Run, WarmupEnds(r) PROVE Counting!Next
  <2>1. phase[r] = "warmup"
    BY <1>0, <1>4 DEF WarmupEnds, ResetCounts, RunInvOf
  <2> QED
    BY <1>4, <2>1 DEF WarmupEnds, ResetCounts
<1>5. ASSUME NEW r \in Run, NEW armed, Stop(r, armed) PROVE Counting!Next
  <2>1. /\ phase[r] = "running" /\ UNCHANGED inflight
        /\ phase' = [phase EXCEPT ![r] = "done"]
        /\ sent' = [sent EXCEPT ![r] = sent[r]]
    BY <1>0, <1>5 DEF Stop, RunInvOf, TypeOK
  <2> QED
    BY <2>1
<1>6. CASE Crash
  BY <1>6 DEF Crash, Counting!Lose
<1>7. CASE UNCHANGED <<phase, inflight, sent>>
  BY <1>7 DEF Counting!countingVars
<1> QED
  BY <1>1, <1>2, <1>3, <1>4, <1>5, <1>6, <1>7
  DEF Next, vars, procVars, StartRun, StartRunInsertFails, FinishRun,
      FinishRunStoreFails, Cleanup, UiTick, OpenStream, DropStream, OnClosed

\* The run manager implements the counting, for any number of runs, crashes and
\* failed writes: its timers alone keep the phases in order and the load within
\* them.
THEOREM RefinesCounting == Spec => ImplementsCounting
<1>1. Init => Counting!Init
  BY DEF Init, Counting!Init
<1> QED
  BY <1>1, CountingStep, Invariance, PTL DEF Spec, ImplementsCounting, Counting!Spec
=============================================================================
