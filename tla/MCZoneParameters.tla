-------------------------- MODULE MCZoneParameters --------------------------
(***************************************************************************)
(* ZoneParameters for model checking: batches, editors, clients and values *)
(* are interchangeable.                                                    *)
(***************************************************************************)
EXTENDS ZoneParameters, TLC

Symmetry ==
  Permutations(Values) \cup Permutations(Batches)
    \cup Permutations(Editors) \cup Permutations(Clients)
=============================================================================
