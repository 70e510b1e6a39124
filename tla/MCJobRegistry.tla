--------------------------- MODULE MCJobRegistry ---------------------------
(* Model checking JobRegistry: the symmetry of the safety runs.            *)
EXTENDS JobRegistry, TLC

Symmetry == Permutations(Jobs) \cup Permutations(Requests)
=============================================================================
