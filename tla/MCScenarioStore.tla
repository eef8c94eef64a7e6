--------------------------- MODULE MCScenarioStore ---------------------------
(* Instances of ScenarioStore for TLC. *)
EXTENDS ScenarioStore, TLC

CONSTANTS p1, p2

Requests == {p1, p2}
Symmetry == Permutations(Requests)
=============================================================================
