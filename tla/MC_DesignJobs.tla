----------------------------- MODULE MC_DesignJobs -----------------------------
(* Instances of DesignJobs: model values for the job's variations. *)
EXTENDS DesignJobs, TLC

VariationSymmetry == Permutations(Variation)
=============================================================================
