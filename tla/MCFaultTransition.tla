------------------------- MODULE MCFaultTransition -------------------------
(* Small instances of FaultTransition for TLC. *)
EXTENDS FaultTransition, TLC

\* Vehicles, missions and requests are interchangeable in every safety run.
Symmetry == Permutations(Vehicles) \cup Permutations(Missions) \cup Permutations(Requests)
=============================================================================
