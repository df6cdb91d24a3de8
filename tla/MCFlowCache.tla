---------------------------- MODULE MCFlowCache ----------------------------
(***************************************************************************)
(* FlowCache for model checking: stacks and requests are interchangeable.  *)
(***************************************************************************)
EXTENDS FlowCache, TLC

Symmetry == Permutations(Stacks) \cup Permutations(Requests)
=============================================================================
