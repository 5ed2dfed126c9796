----------------------------- MODULE MCRunTimes -----------------------------
(* Small instances of RunTimes for TLC. *)
EXTENDS RunTimes

\* Numbers on both sides of each edge: below zero, none, two that a timer holds
\* and one that it does not.
Forms == {-1, 0, 1, 2, 3}
=============================================================================
