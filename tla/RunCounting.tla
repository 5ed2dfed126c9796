----------------------------- MODULE RunCounting -----------------------------
(***************************************************************************)
(* What becomes of a run's requests, as the run manager counts them and    *)
(* the load generator makes them: requests leave while the run is active,  *)
(* each is counted when it settles, be that after the end of the run, and  *)
(* the count starts again once, when the warm-up is over. RunManager and   *)
(* LoadGenerator both implement it.                                        *)
(***************************************************************************)
EXTENDS Naturals

CONSTANT Run    \* the runs

VARIABLES
    stage,      \* how far each run is
    inflight,   \* requests that left and did not settle
    counted     \* requests counted

countingVars == <<stage, inflight, counted>>

\* A run is yet to be started, or has just started.
Init ==
    /\ stage \in [Run -> {"unused", "warmup", "running"}]
    /\ inflight = [r \in Run |-> 0]
    /\ counted = [r \in Run |-> 0]

\* A run's stages follow each other; the count is kept, or starts again.
Advance(r, from, to, count) ==
    /\ stage[r] = from
    /\ stage' = [stage EXCEPT ![r] = to]
    /\ counted' = [counted EXCEPT ![r] = count]
    /\ UNCHANGED inflight

Leave(r) ==
    /\ stage[r] \in {"warmup", "running"}
    /\ inflight' = [inflight EXCEPT ![r] = @ + 1]
    /\ UNCHANGED <<stage, counted>>

Settle(r) ==
    /\ inflight[r] > 0
    /\ inflight' = [inflight EXCEPT ![r] = @ - 1]
    /\ counted' = [counted EXCEPT ![r] = @ + 1]
    /\ UNCHANGED stage

\* The process dies, and with it every run that was started.
Lose ==
    /\ stage' = [r \in Run |-> IF stage[r] = "unused" THEN "unused" ELSE "lost"]
    /\ inflight' = [r \in Run |-> 0]
    /\ counted' = [r \in Run |-> 0]

Next ==
    \/ \E r \in Run :
          \/ Advance(r, "unused", "warmup", counted[r])
          \/ Advance(r, "unused", "running", counted[r])
          \/ Advance(r, "warmup", "running", 0)
          \/ Advance(r, "running", "done", counted[r])
          \/ Leave(r)
          \/ Settle(r)
    \/ Lose

Spec == Init /\ [][Next]_countingVars
=============================================================================
