---------------------------- MODULE RuntimeLane ----------------------------
(***************************************************************************)
(* The runtime lane registry of the runtime adapter                        *)
(* (apps/runtime-adapter/src/runtimeLane.ts).                              *)
(*                                                                         *)
(* A lane is one BabeL-O backend with a capacity.  The registry keeps, per *)
(* lane, a status and the number of leases in flight, and one rotation     *)
(* cursor that breaks ties.  Lanes are numbered in configuration order, as *)
(* the rotation and the "primary" lane depend on that order only.          *)
(*                                                                         *)
(* The registry does not remember who holds a lease: release decrements    *)
(* the lane's counter whoever calls it.  That the counter means anything   *)
(* is therefore a property of the callers, modelled in RuntimeAdapter.     *)
(***************************************************************************)
EXTENDS Integers, FiniteSets

CONSTANTS
    LaneCount,      \* number of configured lanes
    MaxConcurrent,  \* lane -> leases it may have in flight
    Weight          \* lane -> preference among equally loaded lanes

Lane == 0 .. LaneCount - 1

ASSUME LaneCountAssumption == LaneCount \in Nat \ {0}
ASSUME LaneCapacityAssumption == MaxConcurrent \in [Lane -> Nat \ {0}]
ASSUME LaneWeightAssumption == Weight \in [Lane -> Nat \ {0}]

VARIABLES
    inflight,        \* lane -> leases in flight
    laneStatus,      \* lane -> health as the scheduler sees it
    selectionCursor  \* lane the next tie-break rotation starts from

laneVars == <<inflight, laneStatus, selectionCursor>>

(***************************************************************************)
(* "degraded" and "contract_mismatch" are in the source's status type, but *)
(* nothing in the adapter ever sets them.                                  *)
(***************************************************************************)
LaneStatus == {"healthy", "degraded", "unavailable", "contract_mismatch", "draining"}

NoLane == -1

LaneTypeOK ==
    /\ inflight \in [Lane -> Nat]
    /\ \A l \in Lane : inflight[l] <= MaxConcurrent[l]
    /\ laneStatus \in [Lane -> LaneStatus]
    /\ selectionCursor \in Lane

LaneInit ==
    /\ inflight = [l \in Lane |-> 0]
    /\ laneStatus = [l \in Lane |-> "healthy"]
    /\ selectionCursor = 0

-----------------------------------------------------------------------------
(* Selection *)

Accepting(l) == laneStatus[l] \in {"healthy", "degraded"}

\* Mutant: capacity compared with <=.
HasOneTooMany(l) == inflight[l] <= MaxConcurrent[l]

HasCapacity(l) == inflight[l] < MaxConcurrent[l]

Candidates(excluded, ignoreCapacity) ==
    {l \in Lane \ excluded : Accepting(l) /\ (ignoreCapacity \/ HasCapacity(l))}

LeastLoaded(lanes) == {l \in lanes : \A m \in lanes : inflight[l] <= inflight[m]}

Heaviest(lanes) == {l \in lanes : \A m \in lanes : Weight[l] >= Weight[m]}

\* Position of lane l in the lane list rotated to start at the cursor.
Rotation(l) == (l - selectionCursor + LaneCount) % LaneCount

SelectLane(excluded, ignoreCapacity) ==
    LET best == Heaviest(LeastLoaded(Candidates(excluded, ignoreCapacity)))
    IN  {l \in best : \A m \in best : Rotation(l) <= Rotation(m)}

SelectPreferredLane(l, ignoreCapacity, allowDraining) ==
    IF /\ l \in Lane
       /\ Accepting(l) \/ (allowDraining /\ laneStatus[l] = "draining")
       /\ ignoreCapacity \/ HasCapacity(l)
    THEN {l}
    ELSE {}

-----------------------------------------------------------------------------
(* Operations.  Each takes the lane selected, if any; the selection is a   *)
(* set with at most one element, so a guard that fails is an empty choice. *)

AdvanceCursor(l) == selectionCursor' = (l + 1) % LaneCount

\* plan: a preferred lane leaves the cursor alone, a selected one moves it.
Plan(preferred, l) ==
    /\ IF preferred = NoLane
       THEN l \in SelectLane({}, TRUE) /\ AdvanceCursor(l)
       ELSE l \in SelectPreferredLane(preferred, TRUE, FALSE) /\ UNCHANGED selectionCursor
    /\ UNCHANGED <<inflight, laneStatus>>

AcquirePreferred(l, allowDraining) ==
    /\ l \in SelectPreferredLane(l, FALSE, allowDraining)
    /\ inflight' = [inflight EXCEPT ![l] = @ + 1]
    /\ UNCHANGED <<laneStatus, selectionCursor>>

\* Mutant: the capacity filter is skipped, as a plan does.
AcquireLikePlan(excluded, l) ==
    /\ l \in SelectLane(excluded, TRUE)
    /\ inflight' = [inflight EXCEPT ![l] = @ + 1]
    /\ AdvanceCursor(l)
    /\ UNCHANGED laneStatus

AcquireExcluding(excluded, l) ==
    /\ l \in SelectLane(excluded, FALSE)
    /\ inflight' = [inflight EXCEPT ![l] = @ + 1]
    /\ AdvanceCursor(l)
    /\ UNCHANGED laneStatus

\* release: the lane's counter after one release, never below zero.
Released(l) == [inflight EXCEPT ![l] = IF @ > 0 THEN @ - 1 ELSE 0]

Marked(l, status) == [laneStatus EXCEPT ![l] = status]
=============================================================================
