--------------------------- MODULE MCAdminManager ---------------------------
(* TLC instances of AdminManager. *)
EXTENDS AdminManager, TLC

\* Names and schedules are interchangeable; sound for the safety properties.
Symmetry == Permutations(Names) \cup Permutations(Scheds)
=============================================================================
