--------------------------- MODULE MCLoadGenerator ---------------------------
(* Small instances of LoadGenerator for TLC. *)
EXTENDS LoadGenerator, TLC

\* Slots are interchangeable, and so are the ids a backend mints.
Symmetry == Permutations(Slot) \cup Permutations(Id)
=============================================================================
