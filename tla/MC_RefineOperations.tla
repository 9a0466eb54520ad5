------------------------ MODULE MC_RefineOperations ------------------------
(* Instances of RefineOperations: model values for processes and requests. *)
EXTENDS RefineOperations, TLC

RequestSymmetry == Permutations(Request)
=============================================================================
