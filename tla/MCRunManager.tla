---------------------------- MODULE MCRunManager ----------------------------
(* Small instances of RunManager for TLC. *)
EXTENDS RunManager, TLC

\* Runs and streams are interchangeable: no definition of RunManager tells
\* one from another. Used for safety only.
Symmetry == Permutations(Run) \cup Permutations(Stream)
=============================================================================
