------------------------- MODULE MC_RuntimeAdapter -------------------------
(* Small instances of RuntimeAdapter. *)
EXTENDS RuntimeAdapter, TLC

CONSTANTS s1, s2, s3, r1

StreamSymmetry == Permutations(Stream)

OneSlotEach == [l \in Lane |-> 1]
EqualWeights == [l \in Lane |-> 1]
NoRequests == [s \in {} |-> r1]
OneRequest == [s \in Refines |-> r1]
=============================================================================
