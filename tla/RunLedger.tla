------------------------------ MODULE RunLedger ------------------------------
(***************************************************************************)
(* What the run manager promises to the people who run load tests: a run   *)
(* that is recorded ends with one result, that result never changes, and   *)
(* whoever is told that a run is over is told the result the ledger holds, *)
(* in the step that records it. RunManager implements it.                  *)
(***************************************************************************)
CONSTANTS
    Run,        \* the runs
    Viewer,     \* those who can be told of a run's end
    Result,     \* the results a run can have
    NoResult,   \* the result of a run without one
    NotTold     \* what a viewer knows before it is told of an end

VARIABLES
    stage,      \* "absent", "open" or "closed"
    result,     \* the recorded result of each run
    told        \* the run and the result a viewer was told

ledgerVars == <<stage, result, told>>

Init ==
    /\ stage = [r \in Run |-> "absent"]
    /\ result = [r \in Run |-> NoResult]
    /\ told = [v \in Viewer |-> NotTold]

\* A run is entered in the ledger.
Begin(r) ==
    /\ stage[r] = "absent"
    /\ stage' = [stage EXCEPT ![r] = "open"]
    /\ UNCHANGED <<result, told>>

\* A run gets its result, and the viewers in V, told nothing so far, hear of it.
Complete(r, V) ==
    /\ stage[r] = "open"
    /\ stage' = [stage EXCEPT ![r] = "closed"]
    /\ result'[r] \in Result
    /\ result' = [result EXCEPT ![r] = result'[r]]
    /\ \A v \in V : told[v] = NotTold
    /\ told' = [v \in Viewer |-> IF v \in V THEN <<r, result'[r]>> ELSE told[v]]

Next ==
    \E r \in Run :
        \/ Begin(r)
        \/ \E V \in SUBSET Viewer : Complete(r, V)

Spec == Init /\ [][Next]_ledgerVars
=============================================================================
