-------------------------- MODULE MC_DesignJobQueues ---------------------------
(* Instances of DesignJobQueues. *)
EXTENDS DesignJobQueues
=============================================================================
