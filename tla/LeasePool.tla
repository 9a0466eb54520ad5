----------------------------- MODULE LeasePool -----------------------------
(***************************************************************************)
(* What the lane registry and its callers promise together: every lane is  *)
(* a counting semaphore.  A holder takes a slot of a lane that has one     *)
(* left, keeps it on that lane, and gives it back; a process exit gives    *)
(* back everything.                                                        *)
(***************************************************************************)
EXTENDS Integers, FiniteSets

CONSTANTS
    Holder,      \* those who may hold a slot
    SlotLane,    \* lanes
    Slots,       \* lane -> number of slots
    Nowhere      \* marks a holder without a slot

VARIABLE held    \* holder -> lane of its slot, or Nowhere

Holding(l) == {h \in Holder : held[h] = l}

Init == held = [h \in Holder |-> Nowhere]

Take(h, l) ==
    /\ held[h] = Nowhere
    /\ Cardinality(Holding(l)) < Slots[l]
    /\ held' = [held EXCEPT ![h] = l]

GiveBack(h) ==
    /\ held[h] # Nowhere
    /\ held' = [held EXCEPT ![h] = Nowhere]

Exit == held' = [h \in Holder |-> Nowhere]

Next ==
    \/ \E h \in Holder : GiveBack(h) \/ \E l \in SlotLane : Take(h, l)
    \/ Exit

Spec == Init /\ [][Next]_held
=============================================================================
