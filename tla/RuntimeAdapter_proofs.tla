----------------------- MODULE RuntimeAdapter_proofs -----------------------
(***************************************************************************)
(* Proofs about RuntimeAdapter, for every number of lanes, streams and     *)
(* requests, every capacity and every option; and, on a state file, that   *)
(* what a client was told survives concurrent and failed saves and any     *)
(* number of restarts.                                                     *)
(***************************************************************************)
EXTENDS RuntimeAdapter, FiniteSetTheorems, SequenceTheorems, TLAPS

-----------------------------------------------------------------------------
(* The lane registry's operations keep its types. *)

LEMMA LanesAreIntegers == Lane \subseteq Int /\ NoLane \notin Lane /\ 0 \in Lane
BY LaneCountAssumption DEF Lane, NoLane

LEMMA CursorStaysInRange ==
    ASSUME NEW l \in Lane PROVE (l + 1) % LaneCount \in Lane
BY LaneCountAssumption DEF Lane

\* What an acquisition guarantees: the lane had a slot left, and has one less.
Acquired(l) ==
    /\ l \in Lane
    /\ HasCapacity(l)
    /\ inflight' = [inflight EXCEPT ![l] = @ + 1]
    /\ laneStatus' = laneStatus

LEMMA AcquirePreferredAcquires ==
    ASSUME NEW l, NEW draining \in BOOLEAN, AcquirePreferred(l, draining)
    PROVE  Acquired(l) /\ selectionCursor' = selectionCursor
<1>1. l \in SelectPreferredLane(l, FALSE, draining)
  BY Zenon DEF AcquirePreferred
<1>2. l \in Lane /\ HasCapacity(l)
  BY <1>1, Zenon DEF SelectPreferredLane
<1>3. QED
  BY <1>2, Zenon DEF AcquirePreferred, Acquired

LEMMA AcquireExcludingAcquires ==
    ASSUME NEW l, NEW excluded, AcquireExcluding(excluded, l)
    PROVE  Acquired(l) /\ AdvanceCursor(l) /\ Accepting(l) /\ l \notin excluded
<1>1. l \in SelectLane(excluded, FALSE)
  BY Zenon DEF AcquireExcluding
<1>2. l \in Candidates(excluded, FALSE)
  BY <1>1, Zenon DEF SelectLane, Heaviest, LeastLoaded
<1>3. l \in Lane /\ HasCapacity(l) /\ Accepting(l) /\ l \notin excluded
  BY <1>2, Zenon DEF Candidates
<1>4. QED
  BY <1>3, Zenon DEF AcquireExcluding, Acquired

LEMMA PlanPlans ==
    ASSUME NEW l \in Lane, NEW preferred, Plan(preferred, l)
    PROVE  /\ selectionCursor' = selectionCursor \/ AdvanceCursor(l)
           /\ inflight' = inflight /\ laneStatus' = laneStatus
BY Zenon DEF Plan

LEMMA PlanType ==
    ASSUME LaneTypeOK, NEW l \in Lane, NEW preferred, Plan(preferred, l)
    PROVE  LaneTypeOK'
BY PlanPlans, CursorStaysInRange DEF LaneTypeOK, AdvanceCursor

LEMMA AcquiredType ==
    ASSUME LaneTypeOK, NEW l, Acquired(l),
           selectionCursor' = selectionCursor \/ AdvanceCursor(l)
    PROVE  LaneTypeOK'
<1>1. inflight' \in [Lane -> Nat]
  BY DEF LaneTypeOK, Acquired
<1>2. \A m \in Lane : inflight'[m] <= MaxConcurrent[m]
  <2>. SUFFICES ASSUME NEW m \in Lane PROVE inflight'[m] <= MaxConcurrent[m]
    OBVIOUS
  <2>1. CASE m = l
    <3>1. inflight[l] \in Nat /\ MaxConcurrent[l] \in Nat /\ inflight[l] < MaxConcurrent[l]
      BY LaneCapacityAssumption DEF LaneTypeOK, Acquired, HasCapacity
    <3>2. inflight'[l] = inflight[l] + 1
      BY DEF LaneTypeOK, Acquired
    <3>3. QED
      BY <2>1, <3>1, <3>2
  <2>2. CASE m # l
    BY <2>2 DEF LaneTypeOK, Acquired
  <2>3. QED
    BY <2>1, <2>2
<1>3. selectionCursor' \in Lane
  BY CursorStaysInRange DEF LaneTypeOK, Acquired, AdvanceCursor
<1>4. QED
  BY <1>1, <1>2, <1>3 DEF LaneTypeOK, Acquired

LEMMA ReleasedType ==
    ASSUME LaneTypeOK, NEW l \in Lane
    PROVE  /\ Released(l) \in [Lane -> Nat]
           /\ \A m \in Lane : Released(l)[m] <= inflight[m]
BY DEF LaneTypeOK, Released

LEMMA ReleaseType ==
    ASSUME LaneTypeOK, NEW l \in Lane, inflight' = Released(l) \/ inflight' = inflight,
           laneStatus' \in [Lane -> LaneStatus], selectionCursor' = selectionCursor
    PROVE  LaneTypeOK'
BY ReleasedType, LaneCapacityAssumption DEF LaneTypeOK

-----------------------------------------------------------------------------
(* Saving keeps the types of the save queue and of the state file. *)

LEMMA EmptySnapshotType == EmptySnapshot \in SnapshotSet
BY DEF EmptySnapshot, SnapshotSet, OpStatus

LEMMA SnapshotType == StreamTypeOK => Snapshot \in SnapshotSet
<1>. SUFFICES ASSUME StreamTypeOK PROVE Snapshot \in SnapshotSet
  OBVIOUS
<1>1. CASE StateStore = "noop"
  BY <1>1, EmptySnapshotType DEF Snapshot
<1>2. CASE StateStore # "noop"
  <2>1. Registered \in SUBSET Stream
    BY DEF Registered
  <2>2. \A s \in Registered : lane[s] \in Lane
    BY DEF Registered, StreamTypeOK
  <2>3. [s \in Stream |-> IF s \in Registered THEN lane[s] ELSE NoLane]
          \in [Stream -> Lane \cup {NoLane}]
    BY <2>2
  <2>4. op \in [Request -> OpStatus]
    BY DEF StreamTypeOK
  <2>5. QED
    BY <1>2, <2>1, <2>2, <2>3, <2>4 DEF Snapshot, SnapshotSet
<1>3. QED
  BY <1>1, <1>2

LEMMA SnapshotTypeNext == StreamTypeOK' => (Snapshot \in SnapshotSet)'
BY SnapshotType, PTL

Save == [by : HandlerSet, snapshot : SnapshotSet]

LEMMA PersistType ==
    ASSUME FileTypeOK, StreamTypeOK', NEW kind, NEW id,
           <<kind, id>> \in HandlerSet, Persist(kind, id)
    PROVE  FileTypeOK'
<1>1. Snapshot' \in SnapshotSet
  BY SnapshotTypeNext
<1>2. saves' \in Seq(Save)
  <2>1. [by |-> <<kind, id>>, snapshot |-> Snapshot'] \in Save
    BY <1>1 DEF Save
  <2>2. QED
    BY <2>1, AppendProperties DEF FileTypeOK, Persist, Save
<1>3. QED
  BY <1>2 DEF FileTypeOK, Persist, Save

LEMMA WrittenType ==
    ASSUME FileTypeOK, NEW kind, NEW id, Written(kind, id)
    PROVE  /\ disk' \in SnapshotSet
           /\ Tail(saves) \in Seq(Save)
<1>1. Head(saves) \in Save /\ Tail(saves) \in Seq(Save)
  BY HeadTailProperties DEF FileTypeOK, Written, Save
<1>2. QED
  BY <1>1 DEF FileTypeOK, Written, Save

LEMMA SavedType ==
    ASSUME FileTypeOK, NEW kind, NEW id, Saved(kind, id)
    PROVE  FileTypeOK'
BY WrittenType DEF FileTypeOK, Saved, Save

LEMMA SavedAndPersistType ==
    ASSUME FileTypeOK, StreamTypeOK', NEW kind, NEW id,
           <<kind, id>> \in HandlerSet, SavedAndPersist(kind, id)
    PROVE  FileTypeOK'
<1>1. Snapshot' \in SnapshotSet
  BY SnapshotTypeNext
<1>2. [by |-> <<kind, id>>, snapshot |-> Snapshot'] \in Save
  BY <1>1 DEF Save
<1>3. Tail(saves) \in Seq(Save) /\ disk' \in SnapshotSet
  BY WrittenType DEF SavedAndPersist
<1>4. Append(Tail(saves), [by |-> <<kind, id>>, snapshot |-> Snapshot']) \in Seq(Save)
  BY <1>2, <1>3, AppendProperties
<1>5. QED
  BY <1>3, <1>4 DEF FileTypeOK, SavedAndPersist, Save
-----------------------------------------------------------------------------
(* Type correctness: one lemma for each group of actions.                   *)

LEMMA DropStreamType ==
    ASSUME TypeOK, NEW s \in Stream, lane[s] \in Lane, DropStream(s),
           op' \in [Request -> OpStatus]
    PROVE  LaneTypeOK' /\ StreamTypeOK'
<1>1. LaneTypeOK'
  BY ReleaseType DEF TypeOK, LaneTypeOK, DropStream
<1>2. StreamTypeOK'
  BY DEF TypeOK, StreamTypeOK, DropStream, Location
<1>3. QED
  BY <1>1, <1>2

LEMMA ConcludeType ==
    ASSUME TypeOK, NEW s \in Stream, lane[s] \in Lane,
           NEW status \in {"completed", "failed"}, Conclude(s, status)
    PROVE  TypeOK'
<1>1. op' \in [Request -> OpStatus]
  BY DEF TypeOK, StreamTypeOK, Conclude, OpStatus
<1>2. LaneTypeOK' /\ StreamTypeOK'
  <2>1. CASE Tracked(s)
    BY <2>1, <1>1 DEF TypeOK, LaneTypeOK, StreamTypeOK, Conclude, Location, laneVars
  <2>2. CASE ~Tracked(s)
    BY <2>2, <1>1, DropStreamType DEF Conclude
  <2>3. QED
    BY <2>1, <2>2
<1>3. <<"stream", s>> \in HandlerSet
  BY DEF HandlerSet
<1>4. FileTypeOK'
  BY <1>2, <1>3, PersistType DEF TypeOK, Conclude, PersistStream
<1>5. QED
  BY <1>2, <1>4 DEF TypeOK, Conclude, clientVars

LEMMA SpawnStepType ==
    ASSUME TypeOK, NEW s \in Stream, SpawnStep(s)
    PROVE  TypeOK'
<1>. <<"spawn", s>> \in HandlerSet /\ <<"stream", s>> \in HandlerSet
  BY DEF HandlerSet
<1>1. CASE \E preferred \in Lane \cup {NoLane} : PlanStream(s, preferred)
  <2>. PICK preferred \in Lane \cup {NoLane}, l \in Lane :
         PlanStream(s, preferred) /\ Plan(preferred, l) /\ lane' = [lane EXCEPT ![s] = l]
    BY <1>1 DEF PlanStream
  <2>1. LaneTypeOK'
    BY PlanType DEF TypeOK
  <2>2. StreamTypeOK'
    BY DEF TypeOK, StreamTypeOK, PlanStream, Location, opVars
  <2>3. QED
    BY <2>1, <2>2 DEF TypeOK, FileTypeOK, PlanStream, opVars, fileVars, clientVars
<1>2. CASE PlanFails(s)
  BY <1>2 DEF TypeOK, LaneTypeOK, StreamTypeOK, FileTypeOK, PlanFails, Location,
     laneVars, opVars, fileVars, clientVars
<1>3. CASE RegisterStream(s)
  <2>1. StreamTypeOK'
    BY <1>3, RequestAssumption DEF TypeOK, StreamTypeOK, RegisterStream, Location, OpStatus
  <2>2. FileTypeOK'
    BY <1>3, <2>1, PersistType, SavedAndPersistType DEF TypeOK, RegisterStream
  <2>3. LaneTypeOK'
    BY <1>3 DEF TypeOK, LaneTypeOK, RegisterStream, laneVars
  <2>4. acked' \subseteq Stream /\ ackedCancel' \subseteq Request /\ cancelling' = cancelling
    BY <1>3 DEF TypeOK, RegisterStream
  <2>5. QED
    BY <2>1, <2>2, <2>3, <2>4 DEF TypeOK
<1>4. CASE AckSpawn(s)
  <2>1. FileTypeOK'
    BY <1>4, SavedType DEF TypeOK, AckSpawn
  <2>2. QED
    BY <1>4, <2>1 DEF TypeOK, LaneTypeOK, StreamTypeOK, AckSpawn, laneVars, streamVars, opVars
<1>5. CASE ConsumeStream(s)
  <2>1. StreamTypeOK'
    BY <1>5 DEF TypeOK, StreamTypeOK, ConsumeStream, Location, OpStatus
  <2>2. FileTypeOK'
    <3>1. CASE Tracked(s)
      BY <1>5, <2>1, <3>1, PersistType DEF TypeOK, ConsumeStream
    <3>2. CASE ~Tracked(s)
      BY <1>5, <3>2 DEF TypeOK, FileTypeOK, ConsumeStream, fileVars
    <3>3. QED
      BY <3>1, <3>2
  <2>3. QED
    BY <1>5, <2>1, <2>2 DEF TypeOK, LaneTypeOK, ConsumeStream, laneVars, clientVars
<1>6. CASE OpenSession(s)
  <2>1. StreamTypeOK'
    BY <1>6 DEF TypeOK, StreamTypeOK, OpenSession, Location, opVars
  <2>2. FileTypeOK'
    BY <1>6, <2>1, PersistType DEF TypeOK, OpenSession
  <2>3. QED
    BY <1>6, <2>1, <2>2 DEF TypeOK, LaneTypeOK, OpenSession, laneVars, opVars, clientVars
<1>7. QED
  BY <1>1, <1>2, <1>3, <1>4, <1>5, <1>6 DEF SpawnStep

\* A handler's segment that only moves on and saves, or resumes after a save.
LEMMA HandlerSavesType ==
    ASSUME TypeOK, NEW s \in Stream,
           \/ StartStream(s) \/ StoreLease(s) \/ StartExecution(s)
           \/ RetryStored(s) \/ RetryExecution(s) \/ CloseStream(s)
    PROVE  TypeOK'
<1>. <<"stream", s>> \in HandlerSet
  BY DEF HandlerSet
<1>1. StreamTypeOK'
  BY DEF TypeOK, StreamTypeOK, StartStream, StoreLease, StartExecution, RetryStored,
     RetryExecution, CloseStream, Location, opVars
<1>2. LaneTypeOK'
  BY DEF TypeOK, LaneTypeOK, StartStream, StoreLease, StartExecution, RetryStored,
     RetryExecution, CloseStream, laneVars
<1>3. Saved("stream", s) \/ Persist("stream", s)
  BY DEF StartStream, StoreLease, StartExecution, RetryStored, RetryExecution,
     CloseStream, PersistStream
<1>4. FileTypeOK'
  BY <1>1, <1>3, SavedType, PersistType DEF TypeOK
<1>5. UNCHANGED <<cancelling, clientVars>>
  BY DEF StartStream, StoreLease, StartExecution, RetryStored, RetryExecution,
     CloseStream, opVars
<1>6. QED
  BY <1>1, <1>2, <1>4, <1>5 DEF TypeOK, clientVars

\* A handler's segment that takes or gives back a lease without saving.
LEMMA HandlerLeasesType ==
    ASSUME TypeOK, NEW s \in Stream,
           \/ AcquireLane(s) \/ RetryAcquire(s) \/ RetryPrepared(s)
           \/ \E unavailable \in BOOLEAN : LaneFails(s, unavailable)
    PROVE  TypeOK'
<1>1. CASE AcquireLane(s)
  <2>1. Acquired(lane[s]) /\ selectionCursor' = selectionCursor
    BY <1>1, AcquirePreferredAcquires DEF AcquireLane, TypeOK, StreamTypeOK
  <2>2. LaneTypeOK'
    BY <2>1, AcquiredType DEF TypeOK
  <2>3. QED
    BY <1>1, <2>2 DEF TypeOK, StreamTypeOK, FileTypeOK, AcquireLane, Location,
       opVars, fileVars, clientVars
<1>2. CASE RetryAcquire(s)
  <2>. PICK l \in Lane : /\ AcquireExcluding(attempted[s], l)
                         /\ retryLane' = [retryLane EXCEPT ![s] = l]
    BY <1>2 DEF RetryAcquire
  <2>1. LaneTypeOK'
    BY AcquireExcludingAcquires, AcquiredType DEF TypeOK
  <2>2. QED
    BY <1>2, <2>1 DEF TypeOK, StreamTypeOK, FileTypeOK, RetryAcquire, Location,
       opVars, fileVars, clientVars
<1>3. CASE RetryPrepared(s)
  BY <1>3 DEF TypeOK, LaneTypeOK, StreamTypeOK, FileTypeOK, RetryPrepared, Location,
     laneVars, opVars, fileVars, clientVars
<1>4. ASSUME NEW unavailable \in BOOLEAN, LaneFails(s, unavailable)
      PROVE  TypeOK'
  <2>1. lane[s] \in Lane
    BY <1>4 DEF TypeOK, StreamTypeOK, LaneFails
  <2>2. laneStatus' \in [Lane -> LaneStatus]
    BY <1>4 DEF TypeOK, LaneTypeOK, LaneFails, Marked, LaneStatus
  <2>3. LaneTypeOK'
    BY <1>4, <2>1, <2>2, ReleaseType DEF TypeOK, LaneFails
  <2>4. QED
    BY <1>4, <2>1, <2>3 DEF TypeOK, StreamTypeOK, FileTypeOK, LaneFails, Location,
       opVars, fileVars, clientVars
<1>5. QED
  BY <1>1, <1>2, <1>3, <1>4

LEMMA StreamStepType ==
    ASSUME TypeOK, NEW s \in Stream, StreamStep(s)
    PROVE  TypeOK'
<1>1. CASE \/ StartStream(s) \/ StoreLease(s) \/ StartExecution(s)
           \/ RetryStored(s) \/ RetryExecution(s) \/ CloseStream(s)
  BY <1>1, HandlerSavesType
<1>2. CASE \/ AcquireLane(s) \/ RetryAcquire(s) \/ RetryPrepared(s)
           \/ \E unavailable \in BOOLEAN : LaneFails(s, unavailable)
  BY <1>2, HandlerLeasesType
<1>3. CASE AcquireTimesOut(s) \/ PrepareFails(s) \/ RetryTimesOut(s)
           \/ RetryPrepareFails(s) \/ RetrySessionFails(s)
  <2>1. lane[s] \in Lane /\ Conclude(s, "failed")
    BY <1>3 DEF TypeOK, StreamTypeOK, AcquireTimesOut, PrepareFails, RetryTimesOut,
       RetryPrepareFails, RetrySessionFails
  <2>2. QED
    BY <2>1, ConcludeType
<1>4. CASE \E status \in {"completed", "failed"} : EndExecution(s, status)
  <2>1. PICK status \in {"completed", "failed"} : lane[s] \in Lane /\ Conclude(s, status)
    BY <1>4 DEF TypeOK, StreamTypeOK, EndExecution
  <2>2. QED
    BY <2>1, ConcludeType
<1>5. CASE FinishStream(s)
  <2>1. lane[s] \in Lane /\ op' \in [Request -> OpStatus]
    BY <1>5 DEF TypeOK, StreamTypeOK, FinishStream, opVars
  <2>2. LaneTypeOK' /\ StreamTypeOK'
    BY <1>5, <2>1, DropStreamType DEF FinishStream
  <2>3. FileTypeOK'
    BY <1>5, <2>2, SavedAndPersistType DEF TypeOK, FinishStream, HandlerSet
  <2>4. QED
    BY <1>5, <2>2, <2>3 DEF TypeOK, FinishStream, opVars, clientVars
<1>6. CASE RejectedSave(s)
  BY <1>6 DEF TypeOK, LaneTypeOK, StreamTypeOK, FileTypeOK, RejectedSave,
     laneVars, streamVars, opVars, clientVars
<1>7. QED
  BY <1>1, <1>2, <1>3, <1>4, <1>5, <1>6, Zenon DEF StreamStep

LEMMA CancelStepType ==
    ASSUME TypeOK, NEW r \in Request, CancelStep(r)
    PROVE  TypeOK'
<1>. <<"cancel", r>> \in HandlerSet
  BY DEF HandlerSet
<1>1. CASE BeginCancel(r) \/ CancelRefused(r)
  BY <1>1 DEF TypeOK, LaneTypeOK, StreamTypeOK, FileTypeOK, BeginCancel, CancelRefused,
     laneVars, streamVars, fileVars, clientVars
<1>2. CASE CancelAccepted(r)
  <2>1. StreamTypeOK'
    BY <1>2 DEF TypeOK, StreamTypeOK, CancelAccepted, OpStatus, streamVars
  <2>2. FileTypeOK'
    BY <1>2, <2>1, PersistType DEF TypeOK, CancelAccepted
  <2>3. QED
    BY <1>2, <2>1, <2>2 DEF TypeOK, LaneTypeOK, CancelAccepted, laneVars, clientVars
<1>3. CASE AckCancel(r)
  <2>1. FileTypeOK'
    BY <1>3, SavedType DEF TypeOK, AckCancel
  <2>2. QED
    BY <1>3, <2>1 DEF TypeOK, LaneTypeOK, StreamTypeOK, AckCancel, laneVars, streamVars
<1>4. QED
  BY <1>1, <1>2, <1>3 DEF CancelStep

LEMMA RestartType ==
    ASSUME TypeOK, Restart
    PROVE  TypeOK'
<1>1. LaneTypeOK'
  <2>1. inflight' = [l \in Lane |-> 0] /\ selectionCursor' = 0
        /\ laneStatus' = [l \in Lane |-> "healthy"]
    BY DEF Restart
  <2>2. \A l \in Lane : 0 <= MaxConcurrent[l]
    BY LaneCapacityAssumption
  <2>3. QED
    BY <2>1, <2>2, LanesAreIntegers DEF LaneTypeOK, LaneStatus
<1>2. disk.registered \subseteq Stream /\ disk.leased \subseteq disk.registered
      /\ disk.lane \in [Stream -> Lane \cup {NoLane}]
      /\ (\A s \in disk.registered : disk.lane[s] \in Lane)
      /\ disk.op \in [Request -> OpStatus]
  BY DEF TypeOK, FileTypeOK, SnapshotSet
<1>3. StreamTypeOK'
  BY <1>2 DEF StreamTypeOK, Restart, Location
<1>4. FileTypeOK'
  BY OptionsAssumption DEF TypeOK, FileTypeOK, Restart
<1>5. QED
  BY <1>1, <1>3, <1>4 DEF TypeOK, Restart, clientVars

LEMMA TypeStep == TypeOK /\ [Next]_vars => TypeOK'
<1>. SUFFICES ASSUME TypeOK, [Next]_vars PROVE TypeOK'
  OBVIOUS
<1>1. ASSUME NEW s \in Stream, SpawnStep(s) \/ StreamStep(s) PROVE TypeOK'
  BY <1>1, SpawnStepType, StreamStepType
<1>2. ASSUME NEW r \in Request, CancelStep(r) PROVE TypeOK'
  BY <1>2, CancelStepType
<1>3. ASSUME NEW l \in Lane, NEW drain \in BOOLEAN, SetDrain(l, drain) PROVE TypeOK'
  BY <1>3 DEF TypeOK, LaneTypeOK, StreamTypeOK, FileTypeOK, SetDrain, Marked, LaneStatus,
     streamVars, opVars, fileVars, clientVars
<1>4. CASE SaveFails
  <2>1. saves' \in Seq([by : HandlerSet, snapshot : SnapshotSet])
    BY <1>4 DEF SaveFails
  <2>2. QED
    BY <1>4, <2>1 DEF TypeOK, LaneTypeOK, StreamTypeOK, FileTypeOK, SaveFails, Location,
       laneVars, clientVars
<1>5. CASE Restart
  BY <1>5, RestartType
<1>6. CASE UNCHANGED vars
  BY <1>6 DEF TypeOK, LaneTypeOK, StreamTypeOK, FileTypeOK, vars, laneVars, streamVars,
     opVars, fileVars, clientVars
<1>7. QED
  BY <1>1, <1>2, <1>3, <1>4, <1>5, <1>6 DEF Next

LEMMA TypeInit == Init => TypeOK
<1>. SUFFICES ASSUME Init PROVE TypeOK
  OBVIOUS
<1>1. LaneTypeOK
  BY LanesAreIntegers, LaneCapacityAssumption DEF Init, LaneInit, LaneTypeOK, LaneStatus
<1>2. StreamTypeOK
  BY DEF Init, StreamTypeOK, Location, OpStatus
<1>3. FileTypeOK
  BY EmptySnapshotType, OptionsAssumption DEF Init, FileTypeOK
<1>4. QED
  BY <1>1, <1>2, <1>3 DEF Init, TypeOK

(***************************************************************************)
(* Type correctness: among other things, a registered stream always has a  *)
(* lane, no lane's counter leaves 0 .. maxConcurrent, and everything ever  *)
(* written to the state file can be restored.                              *)
(***************************************************************************)
THEOREM TypeCorrect == Spec => []TypeOK
<1>1. QED
  BY TypeInit, TypeStep, PTL DEF Spec
-----------------------------------------------------------------------------
(* Which locations carry a lease of this process. *)

LEMMA ConcludePhases ==
    ASSUME TypeOK, LeasePhases, NEW s \in Stream, NEW status, Conclude(s, status)
    PROVE  LeasePhases'
<1>1. CASE Tracked(s)
  BY <1>1 DEF TypeOK, StreamTypeOK, LeasePhases, Conclude
<1>2. CASE ~Tracked(s)
  BY <1>2 DEF TypeOK, StreamTypeOK, LeasePhases, Conclude, DropStream
<1>3. QED
  BY <1>1, <1>2

LEMMA StreamStepPhases ==
    ASSUME TypeOK, LeasePhases, NEW s \in Stream, StreamStep(s)
    PROVE  LeasePhases'
<1>1. CASE StartStream(s) \/ StoreLease(s) \/ StartExecution(s)
  BY <1>1 DEF TypeOK, StreamTypeOK, LeasePhases, StartStream, StoreLease, StartExecution
<1>2. CASE RetryStored(s) \/ RetryExecution(s) \/ CloseStream(s)
  BY <1>2 DEF TypeOK, StreamTypeOK, LeasePhases, RetryStored, RetryExecution, CloseStream
<1>3. CASE AcquireLane(s) \/ RetryAcquire(s) \/ RetryPrepared(s)
  BY <1>3 DEF TypeOK, StreamTypeOK, LeasePhases, AcquireLane, RetryAcquire, RetryPrepared
<1>4. CASE \E unavailable \in BOOLEAN : LaneFails(s, unavailable)
  BY <1>4 DEF TypeOK, StreamTypeOK, LeasePhases, LaneFails
<1>5. CASE \/ AcquireTimesOut(s) \/ PrepareFails(s) \/ RetryTimesOut(s)
           \/ RetryPrepareFails(s) \/ RetrySessionFails(s)
           \/ \E status \in {"completed", "failed"} : EndExecution(s, status)
  <2>1. \E status : Conclude(s, status)
    BY <1>5, Zenon DEF AcquireTimesOut, PrepareFails, RetryTimesOut, RetryPrepareFails,
       RetrySessionFails, EndExecution
  <2>2. QED
    BY <2>1, ConcludePhases
<1>6. CASE FinishStream(s)
  BY <1>6 DEF TypeOK, StreamTypeOK, LeasePhases, FinishStream, DropStream
<1>7. CASE RejectedSave(s)
  BY <1>7 DEF LeasePhases, RejectedSave, streamVars
<1>8. QED
  BY <1>1, <1>2, <1>3, <1>4, <1>5, <1>6, <1>7, Zenon DEF StreamStep

LEMMA SpawnStepPhases ==
    ASSUME TypeOK, LeasePhases, NEW s \in Stream, SpawnStep(s)
    PROVE  LeasePhases'
<1>1. CASE \E preferred \in Lane \cup {NoLane} : PlanStream(s, preferred)
  BY <1>1 DEF TypeOK, StreamTypeOK, LeasePhases, PlanStream
<1>2. CASE PlanFails(s) \/ OpenSession(s) \/ RegisterStream(s)
  BY <1>2 DEF TypeOK, StreamTypeOK, LeasePhases, PlanFails, OpenSession, RegisterStream
<1>3. CASE AckSpawn(s) \/ ConsumeStream(s)
  BY <1>3 DEF TypeOK, StreamTypeOK, LeasePhases, AckSpawn, ConsumeStream, streamVars
<1>4. QED
  BY <1>1, <1>2, <1>3 DEF SpawnStep

LEMMA PhasesStep == TypeOK /\ LeasePhases /\ [Next]_vars => LeasePhases'
<1>. SUFFICES ASSUME TypeOK, LeasePhases, [Next]_vars PROVE LeasePhases'
  OBVIOUS
<1>1. ASSUME NEW s \in Stream, SpawnStep(s) \/ StreamStep(s) PROVE LeasePhases'
  BY <1>1, SpawnStepPhases, StreamStepPhases
<1>2. CASE \/ \E r \in Request : CancelStep(r)
           \/ \E l \in Lane, drain \in BOOLEAN : SetDrain(l, drain)
           \/ UNCHANGED vars
  <2>1. UNCHANGED streamVars
    BY <1>2, Zenon DEF CancelStep, BeginCancel, CancelRefused, CancelAccepted, AckCancel,
       SetDrain, vars
  <2>2. QED
    BY <2>1 DEF LeasePhases, streamVars
<1>3. CASE SaveFails
  BY <1>3 DEF TypeOK, StreamTypeOK, LeasePhases, SaveFails
<1>4. CASE Restart
  BY <1>4 DEF TypeOK, StreamTypeOK, FileTypeOK, SnapshotSet, LeasePhases, Restart
<1>5. QED
  BY <1>1, <1>2, <1>3, <1>4 DEF Next

-----------------------------------------------------------------------------
(* Without a state file, or before the first restart, no lease is stale. *)

\* No handler's segment marks a lease stale or restarts the process, and only
\* the file store changes the state file.
LEMMA HandlersKeepLeases ==
    ASSUME TypeOK, NEW s \in Stream, SpawnStep(s) \/ StreamStep(s)
    PROVE  /\ \A t \in Stream : lease'[t] = "stale" => lease[t] = "stale"
           /\ restarts' = restarts
           /\ StateStore = "noop" => disk' = disk
<1>1. CASE SpawnStep(s)
  BY <1>1 DEF SpawnStep, PlanStream, PlanFails, OpenSession, RegisterStream, AckSpawn,
     ConsumeStream, Persist, Saved, SavedAndPersist, Written, fileVars, streamVars, TypeOK, StreamTypeOK
<1>2. CASE \/ StartStream(s) \/ StoreLease(s) \/ StartExecution(s)
           \/ RetryStored(s) \/ RetryExecution(s) \/ CloseStream(s)
  BY <1>2 DEF StartStream, StoreLease, StartExecution, RetryStored, RetryExecution,
     CloseStream, PersistStream, Persist, Saved, Written
<1>3. CASE AcquireLane(s) \/ RetryAcquire(s) \/ RetryPrepared(s) \/ RejectedSave(s)
  BY <1>3 DEF AcquireLane, RetryAcquire, RetryPrepared, RejectedSave, fileVars, streamVars,
     TypeOK, StreamTypeOK
<1>4. CASE \E unavailable \in BOOLEAN : LaneFails(s, unavailable)
  BY <1>4 DEF LaneFails, fileVars, TypeOK, StreamTypeOK
<1>5. CASE \/ AcquireTimesOut(s) \/ PrepareFails(s) \/ RetryTimesOut(s)
           \/ RetryPrepareFails(s) \/ RetrySessionFails(s)
           \/ \E status \in {"completed", "failed"} : EndExecution(s, status)
  <2>1. PICK status : Conclude(s, status)
    BY <1>5, Zenon DEF AcquireTimesOut, PrepareFails, RetryTimesOut, RetryPrepareFails,
       RetrySessionFails, EndExecution
  <2>2. QED
    BY <2>1 DEF Conclude, DropStream, PersistStream, Persist, TypeOK, StreamTypeOK
<1>6. CASE FinishStream(s)
  BY <1>6 DEF FinishStream, DropStream, SavedAndPersist, Written, TypeOK, StreamTypeOK
<1>7. QED
  BY <1>1, <1>2, <1>3, <1>4, <1>5, <1>6, Zenon DEF StreamStep

LEMMA StaleStep == TypeOK /\ NoStaleLeases /\ [Next]_vars => NoStaleLeases'
<1>. SUFFICES ASSUME TypeOK, NoStaleLeases, [Next]_vars PROVE NoStaleLeases'
  OBVIOUS
<1>1. ASSUME NEW s \in Stream, SpawnStep(s) \/ StreamStep(s) PROVE NoStaleLeases'
  BY <1>1, HandlersKeepLeases DEF NoStaleLeases, LeasesTrusted
<1>2. CASE \/ \E r \in Request : CancelStep(r)
           \/ \E l \in Lane, drain \in BOOLEAN : SetDrain(l, drain)
           \/ SaveFails
           \/ UNCHANGED vars
  <2>1. lease' = lease /\ restarts' = restarts /\ (StateStore = "noop" => disk' = disk)
    BY <1>2 DEF CancelStep, BeginCancel, CancelRefused, CancelAccepted, AckCancel, SetDrain,
       SaveFails, Persist, Saved, Written, vars, streamVars, fileVars
  <2>2. QED
    BY <2>1 DEF NoStaleLeases, LeasesTrusted
<1>3. CASE Restart
  <2>1. restarts' # 0
    BY <1>3 DEF TypeOK, FileTypeOK, Restart
  <2>2. StateStore = "noop" => \A s \in Stream : lease'[s] = "none"
    BY <1>3 DEF NoStaleLeases, EmptySnapshot, Restart
  <2>3. QED
    BY <1>3, <2>1, <2>2 DEF NoStaleLeases, LeasesTrusted, Restart
<1>4. QED
  BY <1>1, <1>2, <1>3 DEF Next
-----------------------------------------------------------------------------
(* Counting the holders of a lane. *)

At(h, k) == {t \in Stream : h[t] = k}

LEMMA AtFinite ==
    ASSUME NEW h, NEW k
    PROVE  IsFiniteSet(At(h, k)) /\ Cardinality(At(h, k)) \in Nat
BY StreamAssumption, FS_Subset, FS_CardinalityType DEF At

LEMMA TakeCounts ==
    ASSUME NEW h \in [Stream -> Lane \cup {NoLane}], NEW s \in Stream, NEW l \in Lane,
           h[s] = NoLane, NEW k \in Lane
    PROVE  Cardinality(At([h EXCEPT ![s] = l], k)) =
             Cardinality(At(h, k)) + (IF k = l THEN 1 ELSE 0)
<1>1. CASE k = l
  <2>1. At([h EXCEPT ![s] = l], k) = At(h, k) \cup {s} /\ s \notin At(h, k)
    BY <1>1, LanesAreIntegers DEF At
  <2>2. QED
    BY <1>1, <2>1, AtFinite, FS_AddElement
<1>2. CASE k # l
  <2>1. At([h EXCEPT ![s] = l], k) = At(h, k)
    BY <1>2, LanesAreIntegers DEF At
  <2>2. QED
    BY <1>2, <2>1, AtFinite
<1>3. QED
  BY <1>1, <1>2

LEMMA GiveCounts ==
    ASSUME NEW h \in [Stream -> Lane \cup {NoLane}], NEW s \in Stream,
           h[s] \in Lane, NEW k \in Lane
    PROVE  Cardinality(At(h, k)) =
             Cardinality(At([h EXCEPT ![s] = NoLane], k)) + (IF k = h[s] THEN 1 ELSE 0)
<1>1. CASE k = h[s]
  <2>1. At(h, k) = At([h EXCEPT ![s] = NoLane], k) \cup {s}
        /\ s \notin At([h EXCEPT ![s] = NoLane], k)
    BY <1>1, LanesAreIntegers DEF At
  <2>2. QED
    BY <1>1, <2>1, AtFinite, FS_AddElement
<1>2. CASE k # h[s]
  <2>1. At([h EXCEPT ![s] = NoLane], k) = At(h, k)
    BY <1>2, LanesAreIntegers DEF At
  <2>2. QED
    BY <1>2, <2>1, AtFinite
<1>3. QED
  BY <1>1, <1>2

LEMMA SlotType == TypeOK => Slot \in [Stream -> Lane \cup {NoLane}]
BY DEF TypeOK, StreamTypeOK, Slot, SlotOf

LEMMA SlotTypeNext == TypeOK' => (Slot \in [Stream -> Lane \cup {NoLane}])'
BY SlotType, PTL

LEMMA HoldersAreAt == \A l : Holders(l) = At(Slot, l)
BY DEF Holders, At, Slot

-----------------------------------------------------------------------------
(* What a step does to the slots: nothing, a slot granted within the lane's *)
(* capacity, one given back, one forgotten by a retry whose workspace could *)
(* not be created, or all of them gone with the process.                    *)

SlotKept == Slot' = Slot /\ inflight' = inflight

SlotGranted(s, l) ==
    /\ Slot[s] = NoLane
    /\ l \in Lane
    /\ HasCapacity(l)
    /\ Slot' = [Slot EXCEPT ![s] = l]
    /\ inflight' = [inflight EXCEPT ![l] = @ + 1]

SlotReturned(s) ==
    /\ Slot[s] \in Lane
    /\ Slot' = [Slot EXCEPT ![s] = NoLane]
    /\ inflight' = Released(Slot[s])

SlotLost(s) ==
    /\ MkdirMayFail
    /\ Slot[s] \in Lane
    /\ Slot' = [Slot EXCEPT ![s] = NoLane]
    /\ inflight' = inflight

SlotsDropped ==
    /\ Slot' = [s \in Stream |-> NoLane]
    /\ inflight' = [l \in Lane |-> 0]

StreamSlotChange(s) ==
    SlotKept \/ (\E l \in Lane : SlotGranted(s, l)) \/ SlotReturned(s) \/ SlotLost(s)

SlotChange == (\E s \in Stream : StreamSlotChange(s)) \/ SlotKept \/ SlotsDropped

LEMMA ConcludeSlots ==
    ASSUME TypeOK, TypeOK', LeasePhases, \A t \in Stream : lease[t] # "stale",
           NEW s \in Stream, lane[s] \in Lane, pc[s] # "retryPreparing",
           NEW status, Conclude(s, status)
    PROVE  SlotKept \/ SlotReturned(s)
<1>1. CASE Tracked(s)
  BY <1>1 DEF TypeOK, StreamTypeOK, Conclude, SlotKept, Slot, SlotOf, laneVars
<1>2. CASE ~Tracked(s) /\ lease[s] = "none"
  BY <1>2 DEF TypeOK, StreamTypeOK, Conclude, DropStream, SlotKept, Slot, SlotOf
<1>3. CASE ~Tracked(s) /\ lease[s] = "live"
  <2>1. Slot[s] = lane[s] /\ inflight' = Released(Slot[s])
    BY <1>3 DEF Conclude, DropStream, Slot, SlotOf
  <2>2. Slot' = [Slot EXCEPT ![s] = NoLane]
    <3>1. /\ pc' = [pc EXCEPT ![s] = "closing"] /\ retryLane' = [retryLane EXCEPT ![s] = NoLane]
          /\ lane' = [lane EXCEPT ![s] = NoLane] /\ lease' = [lease EXCEPT ![s] = "none"]
      BY <1>3 DEF Conclude, DropStream
    <3>2. SlotOf(s)' = NoLane
      BY <3>1 DEF TypeOK, StreamTypeOK, SlotOf
    <3>3. \A t \in Stream \ {s} : SlotOf(t)' = SlotOf(t)
      BY <3>1 DEF TypeOK, StreamTypeOK, SlotOf
    <3>4. QED
      BY <3>2, <3>3 DEF Slot
  <2>3. QED
    BY <2>1, <2>2 DEF SlotReturned
<1>4. QED
  BY <1>1, <1>2, <1>3 DEF TypeOK, StreamTypeOK
LEMMA StreamStepSlots ==
    ASSUME TypeOK, TypeOK', LeasePhases, \A t \in Stream : lease[t] # "stale",
           NEW s \in Stream, StreamStep(s)
    PROVE  StreamSlotChange(s)
<1>1. CASE \/ StartStream(s) \/ StoreLease(s) \/ StartExecution(s)
           \/ RetryStored(s) \/ RetryExecution(s) \/ CloseStream(s) \/ RejectedSave(s)
  <2>1. CASE StartStream(s) \/ StoreLease(s) \/ StartExecution(s)
    BY <2>1 DEF StartStream, StoreLease, StartExecution, TypeOK, StreamTypeOK,
       StreamSlotChange, SlotKept, Slot, SlotOf, laneVars
  <2>2. CASE RetryStored(s) \/ RetryExecution(s) \/ CloseStream(s)
    BY <2>2 DEF RetryStored, RetryExecution, CloseStream, TypeOK, StreamTypeOK,
       StreamSlotChange, SlotKept, Slot, SlotOf, laneVars
  <2>3. CASE RejectedSave(s)
    BY <2>3 DEF RejectedSave, StreamSlotChange, SlotKept, Slot, SlotOf, laneVars, streamVars
  <2>4. QED
    BY <1>1, <2>1, <2>2, <2>3
<1>2. CASE AcquireLane(s)
  <2>1. Acquired(lane[s]) /\ lane[s] \in Lane
    BY <1>2, AcquirePreferredAcquires DEF AcquireLane, TypeOK, StreamTypeOK
  <2>2. Slot[s] = NoLane
    BY <1>2 DEF AcquireLane, LeasePhases, Slot, SlotOf
  <2>3. Slot' = [Slot EXCEPT ![s] = lane[s]]
    BY <1>2 DEF AcquireLane, TypeOK, StreamTypeOK, Slot, SlotOf
  <2>4. QED
    BY <2>1, <2>2, <2>3 DEF StreamSlotChange, SlotGranted, Acquired
<1>3. CASE RetryAcquire(s)
  <2>. PICK l \in Lane : /\ AcquireExcluding(attempted[s], l)
                         /\ retryLane' = [retryLane EXCEPT ![s] = l]
    BY <1>3 DEF RetryAcquire
  <2>1. Acquired(l)
    BY AcquireExcludingAcquires
  <2>2. Slot[s] = NoLane
    BY <1>3 DEF RetryAcquire, LeasePhases, Slot, SlotOf
  <2>3. Slot' = [Slot EXCEPT ![s] = l]
    BY <1>3 DEF RetryAcquire, TypeOK, StreamTypeOK, Slot, SlotOf
  <2>4. QED
    BY <2>1, <2>2, <2>3 DEF StreamSlotChange, SlotGranted, Acquired
<1>4. CASE RetryPrepared(s)
  <2>1. Slot' = Slot
    BY <1>4 DEF RetryPrepared, TypeOK, StreamTypeOK, Slot, SlotOf
  <2>2. QED
    BY <1>4, <2>1 DEF RetryPrepared, StreamSlotChange, SlotKept, laneVars
<1>5. ASSUME NEW unavailable \in BOOLEAN, LaneFails(s, unavailable)
      PROVE  SlotReturned(s)
  <2>1. Slot[s] = lane[s] /\ lane[s] \in Lane /\ inflight' = Released(lane[s])
    BY <1>5 DEF LaneFails, LeasePhases, TypeOK, StreamTypeOK, Slot, SlotOf
  <2>2. Slot' = [Slot EXCEPT ![s] = NoLane]
    BY <1>5 DEF LaneFails, TypeOK, StreamTypeOK, Slot, SlotOf
  <2>3. QED
    BY <2>1, <2>2 DEF SlotReturned
<1>6. CASE \/ AcquireTimesOut(s) \/ PrepareFails(s) \/ RetryTimesOut(s) \/ RetrySessionFails(s)
           \/ \E status \in {"completed", "failed"} : EndExecution(s, status)
  <2>1. /\ pc[s] \in {"acquiring", "preparing", "retryAcquiring", "retrySession", "executing"}
        /\ \E status : Conclude(s, status)
    BY <1>6, Zenon DEF AcquireTimesOut, PrepareFails, RetryTimesOut, RetrySessionFails,
       EndExecution
  <2>2. lane[s] \in Lane /\ pc[s] # "retryPreparing"
    BY <2>1 DEF TypeOK, StreamTypeOK
  <2>3. QED
    BY <2>1, <2>2, ConcludeSlots DEF StreamSlotChange
<1>7. CASE RetryPrepareFails(s)
  <2>1. /\ MkdirMayFail /\ Slot[s] \in Lane /\ lease[s] = "none" /\ Conclude(s, "failed")
    BY <1>7 DEF RetryPrepareFails, LeasePhases, TypeOK, StreamTypeOK, Slot, SlotOf
  <2>2. Slot' = [Slot EXCEPT ![s] = NoLane] /\ inflight' = inflight
    <3>1. CASE Tracked(s)
      <4>1. pc' = [pc EXCEPT ![s] = "finishing"]
            /\ UNCHANGED <<lane, lease, retryLane, inflight>>
        BY <2>1, <3>1, Zenon DEF Conclude, laneVars
      <4>2. QED
        BY <2>1, <4>1 DEF TypeOK, StreamTypeOK, Slot, SlotOf
    <3>2. CASE ~Tracked(s)
      <4>1. DropStream(s)
        BY <2>1, <3>2, Zenon DEF Conclude
      <4>2. QED
        BY <2>1, <4>1 DEF DropStream, TypeOK, StreamTypeOK, Slot, SlotOf
    <3>3. QED
      BY <3>1, <3>2
  <2>3. QED
    BY <2>1, <2>2 DEF StreamSlotChange, SlotLost
<1>8. CASE FinishStream(s)
  <2>1. lane[s] \in Lane /\ DropStream(s) /\ pc[s] = "finishing"
    BY <1>8 DEF FinishStream, TypeOK, StreamTypeOK
  <2>2. CASE lease[s] = "none"
    BY <2>1, <2>2 DEF DropStream, TypeOK, StreamTypeOK, StreamSlotChange, SlotKept, Slot, SlotOf
  <2>3. CASE lease[s] = "live"
    <3>1. Slot[s] = lane[s] /\ inflight' = Released(Slot[s])
      BY <2>1, <2>3 DEF DropStream, Slot, SlotOf
    <3>2. Slot' = [Slot EXCEPT ![s] = NoLane]
      BY <2>1, <2>3 DEF DropStream, TypeOK, StreamTypeOK, Slot, SlotOf
    <3>3. QED
      BY <2>1, <3>1, <3>2 DEF StreamSlotChange, SlotReturned
  <2>4. QED
    BY <2>2, <2>3 DEF TypeOK, StreamTypeOK
<1>9. QED
  BY <1>1, <1>2, <1>3, <1>4, <1>5, <1>6, <1>7, <1>8, Zenon DEF StreamStep, StreamSlotChange

LEMMA SpawnStepSlots ==
    ASSUME TypeOK, TypeOK', LeasePhases, NEW s \in Stream, SpawnStep(s)
    PROVE  SlotKept
<1>1. CASE \E preferred \in Lane \cup {NoLane} : PlanStream(s, preferred)
  <2>. PICK preferred \in Lane \cup {NoLane}, l \in Lane :
         /\ PlanStream(s, preferred) /\ Plan(preferred, l)
         /\ lane' = [lane EXCEPT ![s] = l]
    BY <1>1 DEF PlanStream
  <2>1. inflight' = inflight
    BY PlanPlans
  <2>2. Slot' = Slot
    BY DEF PlanStream, LeasePhases, TypeOK, StreamTypeOK, Slot, SlotOf
  <2>3. QED
    BY <2>1, <2>2 DEF SlotKept
<1>2. CASE PlanFails(s)
  BY <1>2 DEF PlanFails, LeasePhases, TypeOK, StreamTypeOK, SlotKept, Slot, SlotOf, laneVars
<1>3. CASE RegisterStream(s)
  BY <1>3 DEF RegisterStream, LeasePhases, TypeOK, StreamTypeOK, SlotKept, Slot, SlotOf, laneVars
<1>4. CASE AckSpawn(s)
  BY <1>4 DEF AckSpawn, SlotKept, Slot, SlotOf, laneVars, streamVars
<1>5. CASE ConsumeStream(s)
  BY <1>5 DEF ConsumeStream, LeasePhases, TypeOK, StreamTypeOK, SlotKept, Slot, SlotOf, laneVars
<1>6. CASE OpenSession(s)
  BY <1>6 DEF OpenSession, LeasePhases, TypeOK, StreamTypeOK, SlotKept, Slot, SlotOf, laneVars
<1>7. QED
  BY <1>1, <1>2, <1>3, <1>4, <1>5, <1>6 DEF SpawnStep

LEMMA TrustedBefore ==
    TypeOK /\ [Next]_vars /\ LeasesTrusted' => LeasesTrusted
<1>. SUFFICES ASSUME TypeOK, [Next]_vars, LeasesTrusted', StateStore # "noop"
              PROVE  restarts = 0
  BY DEF LeasesTrusted
<1>1. restarts' = 0 /\ restarts \in Nat
  BY OptionsAssumption DEF LeasesTrusted, TypeOK, FileTypeOK
<1>2. CASE Restart
  BY <1>1, <1>2 DEF Restart
<1>3. CASE \E s \in Stream : SpawnStep(s) \/ StreamStep(s)
  BY <1>1, <1>3, HandlersKeepLeases
<1>4. CASE \/ \E r \in Request : CancelStep(r)
           \/ \E l \in Lane, drain \in BOOLEAN : SetDrain(l, drain)
           \/ SaveFails
           \/ UNCHANGED vars
  BY <1>1, <1>4 DEF CancelStep, BeginCancel, CancelRefused, CancelAccepted, AckCancel,
     SetDrain, SaveFails, Persist, Saved, vars, fileVars
<1>5. QED
  BY <1>2, <1>3, <1>4 DEF Next

LEMMA SlotStep ==
    ASSUME TypeOK, TypeOK', LeasePhases, NoStaleLeases, LeasesTrusted', [Next]_vars
    PROVE  SlotChange
<1>. \A t \in Stream : lease[t] # "stale"
  BY TrustedBefore DEF NoStaleLeases
<1>1. ASSUME NEW s \in Stream, SpawnStep(s) \/ StreamStep(s) PROVE SlotChange
  BY <1>1, SpawnStepSlots, StreamStepSlots DEF SlotChange
<1>2. CASE \/ \E r \in Request : CancelStep(r)
           \/ \E l \in Lane, drain \in BOOLEAN : SetDrain(l, drain)
           \/ UNCHANGED vars
  <2>1. UNCHANGED streamVars /\ inflight' = inflight
    BY <1>2, Zenon DEF CancelStep, BeginCancel, CancelRefused, CancelAccepted, AckCancel,
       SetDrain, vars, laneVars
  <2>2. QED
    BY <2>1 DEF SlotChange, SlotKept, Slot, SlotOf, streamVars
<1>3. CASE SaveFails
  BY <1>3 DEF SaveFails, TypeOK, StreamTypeOK, LeasePhases, SlotChange, SlotKept, Slot, SlotOf, laneVars
<1>4. CASE Restart
  <2>1. \A s \in Stream : pc'[s] # "retryPreparing" /\ lease'[s] # "live"
    BY <1>4 DEF Restart
  <2>2. Slot' = [s \in Stream |-> NoLane]
    BY <2>1 DEF Slot, SlotOf
  <2>3. QED
    BY <1>4, <2>2 DEF Restart, SlotChange, SlotsDropped
<1>5. QED
  BY <1>1, <1>2, <1>3, <1>4 DEF Next
-----------------------------------------------------------------------------
(* The invariant. *)

LEMMA ReturnedCounts ==
    ASSUME LaneTypeOK, Slot \in [Stream -> Lane \cup {NoLane}],
           NEW s \in Stream, Slot[s] \in Lane, NEW l \in Lane,
           \A k \in Lane : Cardinality(Holders(k)) <= inflight[k]
    PROVE  LET left == Cardinality(At([Slot EXCEPT ![s] = NoLane], l))
           IN  /\ left <= Released(Slot[s])[l]
               /\ Cardinality(Holders(l)) = inflight[l] => left = Released(Slot[s])[l]
               /\ left <= Cardinality(Holders(l))
<1>. DEFINE left == Cardinality(At([Slot EXCEPT ![s] = NoLane], l))
<1>1. left \in Nat /\ inflight[l] \in Nat /\ Cardinality(Holders(l)) \in Nat
  BY AtFinite, HoldersAreAt DEF LaneTypeOK
<1>2. Cardinality(Holders(l)) = left + (IF l = Slot[s] THEN 1 ELSE 0)
  BY GiveCounts, HoldersAreAt
<1>3. Cardinality(Holders(l)) <= inflight[l]
  OBVIOUS
<1>. HIDE DEF left
<1>4. CASE l = Slot[s]
  <2>1. inflight[l] > 0
    BY <1>1, <1>2, <1>3, <1>4
  <2>2. Released(Slot[s])[l] = inflight[l] - 1
    BY <1>4, <2>1 DEF LaneTypeOK, Released
  <2>3. QED
    BY <1>1, <1>2, <1>3, <1>4, <2>2 DEF left
<1>5. CASE l # Slot[s]
  <2>1. Released(Slot[s])[l] = inflight[l]
    BY <1>5 DEF LaneTypeOK, Released
  <2>2. QED
    BY <1>1, <1>2, <1>3, <1>5, <2>1 DEF left
<1>6. QED
  BY <1>4, <1>5

LEMMA CountStep ==
    ASSUME TypeOK, TypeOK', SlotChange, LeasesTrusted,  SlotsCounted
    PROVE  SlotsCounted'
<1>. SUFFICES ASSUME NEW l \in Lane
              PROVE  /\ Cardinality(Holders(l)') <= inflight'[l]
                     /\ ~MkdirMayFail => Cardinality(Holders(l)') = inflight'[l]
  BY DEF SlotsCounted
<1>1. Slot \in [Stream -> Lane \cup {NoLane}] /\ LaneTypeOK
  BY SlotType DEF TypeOK
<1>2. Holders(l)' = At(Slot', l) /\ \A k \in Lane : Holders(k) = At(Slot, k)
  BY DEF Holders, At, Slot
<1>3. /\ \A k \in Lane : Cardinality(Holders(k)) <= inflight[k]
      /\ ~MkdirMayFail => Cardinality(Holders(l)) = inflight[l]
  BY DEF SlotsCounted
<1>4. inflight[l] \in Nat /\ Cardinality(Holders(l)) \in Nat
  BY <1>1, <1>2, AtFinite DEF LaneTypeOK
<1>5. CASE SlotKept
  BY <1>2, <1>3, <1>5 DEF SlotKept
<1>6. ASSUME NEW s \in Stream, NEW k \in Lane, SlotGranted(s, k)
      PROVE  /\ Cardinality(Holders(l)') <= inflight'[l]
             /\ ~MkdirMayFail => Cardinality(Holders(l)') = inflight'[l]
  <2>1. Cardinality(Holders(l)') = Cardinality(Holders(l)) + (IF l = k THEN 1 ELSE 0)
    <3>1. Slot[s] = NoLane /\ Slot' = [Slot EXCEPT ![s] = k]
      BY <1>6 DEF SlotGranted
    <3>2. Cardinality(At([Slot EXCEPT ![s] = k], l)) =
            Cardinality(At(Slot, l)) + (IF l = k THEN 1 ELSE 0)
      <4>1. Slot \in [Stream -> Lane \cup {NoLane}] /\ Slot[s] = NoLane
        BY <1>1, <3>1
      <4>2. QED
        BY <4>1, TakeCounts, ZenonT(40)
    <3>3. QED
      BY <1>2, <3>1, <3>2
  <2>2. inflight'[l] = inflight[l] + (IF l = k THEN 1 ELSE 0)
    BY <1>1, <1>4, <1>6 DEF SlotGranted, LaneTypeOK
  <2>. HIDE <1>2
  <2>3. QED
    BY <1>3, <1>4, <2>1, <2>2
<1>7. ASSUME NEW s \in Stream, SlotReturned(s) \/ SlotLost(s)
      PROVE  /\ Cardinality(Holders(l)') <= inflight'[l]
             /\ ~MkdirMayFail => Cardinality(Holders(l)') = inflight'[l]
  <2>1. Slot[s] \in Lane /\ Slot' = [Slot EXCEPT ![s] = NoLane]
    BY <1>7 DEF SlotReturned, SlotLost
  <2>2. LET left == Cardinality(Holders(l)')
        IN  /\ left <= Released(Slot[s])[l]
            /\ Cardinality(Holders(l)) = inflight[l] => left = Released(Slot[s])[l]
            /\ left <= Cardinality(Holders(l))
    BY <1>1, <1>2, <1>3, <2>1, ReturnedCounts
  <2>3. Cardinality(Holders(l)') \in Nat
    BY <1>2, AtFinite
  <2>4. CASE SlotReturned(s)
    BY <1>3, <2>2, <2>4 DEF SlotReturned
  <2>5. CASE SlotLost(s)
    BY <1>3, <1>4, <2>2, <2>3, <2>5 DEF SlotLost
  <2>6. QED
    BY <1>7, <2>4, <2>5
<1>8. CASE SlotsDropped
  <2>1. At(Slot', l) = {}
    BY <1>8, LanesAreIntegers DEF SlotsDropped, At
  <2>2. QED
    BY <1>2, <1>8, <2>1, FS_EmptySet DEF SlotsDropped
<1>9. QED
  BY <1>5, <1>6, <1>7, <1>8 DEF SlotChange, StreamSlotChange

LEMMA InvariantStep == LeaseInvariant /\ [Next]_vars => LeaseInvariant'
<1>. SUFFICES ASSUME LeaseInvariant, [Next]_vars PROVE LeaseInvariant'
  OBVIOUS
<1>1. TypeOK' /\ LeasePhases' /\ NoStaleLeases'
  BY TypeStep, PhasesStep, StaleStep DEF LeaseInvariant
<1>2. CASE LeasesTrusted'
  BY <1>1, <1>2, TrustedBefore, SlotStep, CountStep DEF LeaseInvariant
<1>3. CASE ~LeasesTrusted'
  <2>1. SlotsCounted'
    BY <1>3 DEF SlotsCounted
  <2>2. QED
    BY <1>1, <2>1 DEF LeaseInvariant
<1>4. QED
  BY <1>2, <1>3

LEMMA InvariantInit == Init => LeaseInvariant
<1>. SUFFICES ASSUME Init PROVE LeaseInvariant
  OBVIOUS
<1>1. LeasePhases
  BY DEF Init, LeasePhases
<1>2. NoStaleLeases
  BY DEF Init, NoStaleLeases
<1>3. SlotsCounted
  <2>1. \A l \in Lane : Holders(l) = {} /\ inflight[l] = 0
    BY LanesAreIntegers DEF Init, LaneInit, Holders, SlotOf
  <2>2. QED
    BY <2>1, FS_EmptySet DEF SlotsCounted
<1>4. QED
  BY <1>1, <1>2, <1>3, TypeInit DEF LeaseInvariant

(***************************************************************************)
(* The lease invariant holds in every execution: stale leases exist only   *)
(* after a restart from a state file, and until then every slot a stream   *)
(* holds is counted.                                                       *)
(***************************************************************************)
THEOREM LeasesInvariant == Spec => []LeaseInvariant
<1>1. QED
  BY InvariantInit, InvariantStep, PTL DEF Spec

LEMMA CapacityFollows == LeaseInvariant /\ LeasesTrusted => CapacityRespected
<1>. SUFFICES ASSUME LeaseInvariant, LeasesTrusted, NEW l \in Lane
              PROVE  Cardinality(ExecutingOn(l)) <= MaxConcurrent[l]
  BY DEF CapacityRespected
<1>1. ExecutingOn(l) \subseteq Holders(l)
  BY DEF LeaseInvariant, LeasePhases, ExecutingOn, Holders, SlotOf
<1>2. IsFiniteSet(Holders(l)) /\ Cardinality(Holders(l)) \in Nat
  BY AtFinite, HoldersAreAt
<1>3. Cardinality(ExecutingOn(l)) <= Cardinality(Holders(l)) /\ Cardinality(ExecutingOn(l)) \in Nat
  BY <1>1, <1>2, FS_Subset, FS_CardinalityType
<1>4. Cardinality(Holders(l)) <= inflight[l]
  BY DEF LeaseInvariant, SlotsCounted
<1>5. inflight[l] \in Nat /\ MaxConcurrent[l] \in Nat /\ inflight[l] <= MaxConcurrent[l]
  BY LaneCapacityAssumption DEF LeaseInvariant, TypeOK, LaneTypeOK
<1>6. QED
  BY <1>2, <1>3, <1>4, <1>5

(***************************************************************************)
(* Lanes are never oversubscribed before the first restart, and never at   *)
(* all when no state file is configured, whatever handlers interleave and  *)
(* fail.  (With a state file and a restart they can be: a stream restored  *)
(* with its old lease gives back a slot that another one holds.)           *)
(***************************************************************************)
THEOREM CapacitySafe == Spec => [](LeasesTrusted => CapacityRespected)
<1>1. QED
  BY LeasesInvariant, CapacityFollows, PTL

(***************************************************************************)
(* Under the same condition, and if workspaces can be created, the lanes'  *)
(* counters are exact.                                                     *)
(***************************************************************************)
THEOREM SlotsAccounted ==
    ~MkdirMayFail => (Spec => [](LeasesTrusted => SlotAccounting))
<1>. SUFFICES ASSUME ~MkdirMayFail PROVE Spec => [](LeasesTrusted => SlotAccounting)
  OBVIOUS
<1>1. LeaseInvariant => (LeasesTrusted => SlotAccounting)
  BY DEF LeaseInvariant, SlotsCounted, SlotAccounting
<1>2. QED
  BY <1>1, LeasesInvariant, PTL

-----------------------------------------------------------------------------
(* The leases implement the semaphore. *)

LEMMA SameCardinality == \A S : SlotPool!Cardinality(S) = Cardinality(S)
BY DEF SlotPool!Cardinality, Cardinality

LEMMA PoolStep ==
    ASSUME StateStore = "noop", LeaseInvariant, LeaseInvariant', [Next]_vars
    PROVE  [SlotPool!Next]_Slot
<1>1. SlotChange
  BY SlotStep DEF LeaseInvariant, LeasesTrusted
<1>2. Slot \in [Stream -> Lane \cup {NoLane}] /\ \A l : SlotPool!Holding(l) = Holders(l)
  BY SlotType DEF LeaseInvariant, SlotPool!Holding, Holders, Slot
<1>3. ASSUME NEW s \in Stream, NEW l \in Lane, SlotGranted(s, l)
      PROVE  SlotPool!Take(s, l)
  <2>1. Cardinality(Holders(l)) <= inflight[l] /\ inflight[l] < MaxConcurrent[l]
    BY <1>3 DEF LeaseInvariant, SlotsCounted, LeasesTrusted, SlotGranted, HasCapacity
  <2>2. Cardinality(Holders(l)) \in Nat /\ inflight[l] \in Nat /\ MaxConcurrent[l] \in Nat
    BY AtFinite, HoldersAreAt, LaneCapacityAssumption DEF LeaseInvariant, TypeOK, LaneTypeOK
  <2>3. Cardinality(Holders(l)) < MaxConcurrent[l]
    BY <2>1, <2>2
  <2>4. QED
    BY <1>2, <1>3, <2>3, SameCardinality DEF SlotGranted, SlotPool!Take
<1>4. ASSUME NEW s \in Stream, SlotReturned(s) \/ SlotLost(s)
      PROVE  SlotPool!GiveBack(s)
  BY <1>4, LanesAreIntegers DEF SlotReturned, SlotLost, SlotPool!GiveBack
<1>5. CASE SlotsDropped
  BY <1>5 DEF SlotsDropped, SlotPool!Next, SlotPool!Exit
<1>6. CASE SlotKept
  BY <1>6 DEF SlotKept
<1>7. QED
  BY <1>1, <1>3, <1>4, <1>5, <1>6 DEF SlotChange, StreamSlotChange, SlotPool!Next

(***************************************************************************)
(* Without a state file the adapter implements the counting semaphore of   *)
(* LeasePool: every grant respects the capacity, a slot is held on one     *)
(* lane until it is given back, and a restart gives back everything.       *)
(***************************************************************************)
THEOREM LeasePoolImplemented == StateStore = "noop" => (Spec => ImplementsLeasePool)
<1>. SUFFICES ASSUME StateStore = "noop" PROVE Spec => SlotPool!Spec
  BY DEF ImplementsLeasePool
<1>1. Init => SlotPool!Init
  BY DEF Init, SlotPool!Init, Slot, SlotOf
<1>2. LeaseInvariant /\ LeaseInvariant' /\ [Next]_vars => [SlotPool!Next]_Slot
  BY PoolStep
<1>3. QED
  BY <1>1, <1>2, LeasesInvariant, PTL DEF Spec, SlotPool!Spec

-----------------------------------------------------------------------------
(* What a step does to the save queue and the state file.                  *)

Keeps == saves' = saves /\ disk' = disk

Adds(w) ==
    /\ process = "running" /\ disk' = disk
    /\ saves' = Append(saves, [by |-> w, snapshot |-> Snapshot'])

Pops(w) ==
    /\ saves # <<>> /\ Head(saves).by = w /\ disk' = Head(saves).snapshot
    /\ saves' = Tail(saves)

Moves(w) ==
    /\ saves # <<>> /\ Head(saves).by = w /\ disk' = Head(saves).snapshot
    /\ saves' = Append(Tail(saves), [by |-> w, snapshot |-> Snapshot'])

QueueStep(w) == Keeps \/ Adds(w) \/ Pops(w) \/ Moves(w)

\* The same by position: d saves, none or one, have left the queue.
Shift(w, d) ==
    /\ d <= Len(saves)
    /\ Len(saves') \in {Len(saves) - d, Len(saves) - d + 1}
    /\ \A i \in 1 .. Len(saves) - d : saves'[i] = saves[i + d]
    /\ Len(saves') = Len(saves) - d + 1 =>
            /\ saves'[Len(saves')].by = w /\ saves'[Len(saves')].snapshot = Snapshot'
            /\ process = "running" \/ saves # <<>>
    /\ d = 0 => disk' = disk
    /\ d = 1 => saves[1].by = w /\ disk' = saves[1].snapshot

LEMMA AddsShift ==
    ASSUME TypeOK, NEW w, Adds(w) \/ Moves(w)
    PROVE  \E d \in {0, 1} : Shift(w, d) /\ Len(saves') = Len(saves) - d + 1
<1>. DEFINE Entry == [by : HandlerSet, snapshot : SnapshotSet]
            e == [by |-> w, snapshot |-> Snapshot']
<1>1. saves \in Seq(Entry) BY DEF TypeOK, FileTypeOK
<1>2. e.by = w /\ e.snapshot = Snapshot' OBVIOUS
<1>. HIDE DEF Entry, e
<1>3. CASE Adds(w)
  <2>1. saves' = Append(saves, e) /\ process = "running" /\ disk' = disk
    BY <1>3 DEF Adds, e
  <2>2. /\ Len(saves') = Len(saves) + 1 /\ saves'[Len(saves) + 1] = e
        /\ \A i \in 1 .. Len(saves) : saves'[i] = saves[i]
    BY <1>1, <2>1
  <2>3. Shift(w, 0) BY <1>1, <1>2, <2>1, <2>2 DEF Shift
  <2>4. QED BY <1>1, <2>2, <2>3
<1>4. CASE Moves(w)
  <2>. DEFINE rest == Tail(saves)
  <2>1. /\ Len(rest) = Len(saves) - 1 /\ Len(saves) >= 1 /\ rest \in Seq(Entry)
        /\ \A i \in 1 .. Len(saves) - 1 : rest[i] = saves[i + 1]
        /\ Head(saves) = saves[1]
    BY <1>1, <1>4 DEF Moves
  <2>2. saves' = Append(rest, e) /\ saves[1].by = w /\ disk' = saves[1].snapshot
    BY <1>4, <2>1 DEF Moves, e
  <2>. HIDE DEF rest
  <2>3. /\ Len(saves') = Len(rest) + 1 /\ saves'[Len(rest) + 1] = e
        /\ \A i \in 1 .. Len(rest) : saves'[i] = rest[i]
    BY <2>1, <2>2
  <2>4. Shift(w, 1) BY <1>1, <1>2, <1>4, <2>1, <2>2, <2>3 DEF Moves, Shift
  <2>5. Len(saves') = Len(saves) - 1 + 1 BY <2>1, <2>3
  <2>6. QED BY <2>4, <2>5
<1>5. QED BY <1>3, <1>4

LEMMA PopsShift ==
    ASSUME TypeOK, NEW w, Pops(w)
    PROVE  Shift(w, 1) /\ Len(saves') = Len(saves) - 1
<1>1. saves \in Seq([by : HandlerSet, snapshot : SnapshotSet]) BY DEF TypeOK, FileTypeOK
<1>2. /\ Len(Tail(saves)) = Len(saves) - 1 /\ Len(saves) >= 1
      /\ \A i \in 1 .. Len(saves) - 1 : Tail(saves)[i] = saves[i + 1]
      /\ Head(saves) = saves[1]
  BY <1>1 DEF Pops
<1>3. /\ Len(saves') = Len(saves) - 1 /\ Len(saves) \in Nat
      /\ \A i \in 1 .. Len(saves) - 1 : saves'[i] = saves[i + 1]
      /\ saves[1].by = w /\ disk' = saves[1].snapshot
  BY <1>1, <1>2 DEF Pops
<1>4. QED BY <1>2, <1>3 DEF Shift

LEMMA QueueShift ==
    ASSUME TypeOK, NEW w, QueueStep(w)
    PROVE  \E d \in {0, 1} : Shift(w, d)
<1>1. CASE Keeps
  <2>1. saves \in Seq([by : HandlerSet, snapshot : SnapshotSet]) BY DEF TypeOK, FileTypeOK
  <2>2. Shift(w, 0) BY <1>1, <2>1 DEF Keeps, Shift
  <2>3. QED BY <2>2
<1>2. QED BY <1>1, AddsShift, PopsShift DEF QueueStep

LEMMA SnapshotSays ==
    StateStore = "file" => Snapshot'.registered = Registered' /\ Snapshot'.op = op'
BY DEF Snapshot

LEMMA PersistQueue ==
    ASSUME NEW kind, NEW id, Persist(kind, id)
    PROVE  /\ process' = process
           /\ IF process = "running" THEN Adds(<<kind, id>>) ELSE Keeps
BY DEF Persist, Adds, Keeps

LEMMA SavedQueue ==
    ASSUME NEW kind, NEW id, StateStore = "file", Saved(kind, id)
    PROVE  process' = process /\ Pops(<<kind, id>>)
BY DEF Saved, Written, Pops

LEMMA MovedQueue ==
    ASSUME NEW kind, NEW id, StateStore = "file", SavedAndPersist(kind, id)
    PROVE  process' = process /\ Moves(<<kind, id>>)
BY DEF SavedAndPersist, Written, Moves

\* Nothing waits to be saved once a save has failed (persistQueue).
QueueOpen == process # "running" => saves = <<>>

-----------------------------------------------------------------------------
(* Streams whose POST was answered.                                        *)

\* Every snapshot that waits behind the first n has s, up to the save with which
\* the handler of s drops it; that save is among them while the process runs.
Kept(s, n) ==
    /\ \A j \in n + 1 .. Len(saves) :
        \/ s \in saves[j].snapshot.registered
        \/ pc[s] = "closing" /\ \E k \in n + 1 .. j : saves[k].by = <<"stream", s>>
    /\ pc[s] = "closing" /\ process = "running" =>
            \E k \in n + 1 .. Len(saves) : saves[k].by = <<"stream", s>>

\* A stream whose POST was answered is in the file and in what is to be written.
AckedKept(s) == s \in acked /\ pc[s] # "closed" =>
    pc[s] \notin {"absent", "planned", "opening"} /\ s \in disk.registered /\ Kept(s, 0)

\* The save with which s was registered is followed by none that lacks s.
SpawnKept(s) == \A i \in 1 .. Len(saves) : saves[i].by = <<"spawn", s>> =>
    /\ pc[s] \notin {"absent", "planned"}
    /\ pc[s] \notin {"opening", "closed"} => s \in saves[i].snapshot.registered /\ Kept(s, i)

\* The POST of s has one save under way.
SpawnOnce(s) == \A i, j \in 1 .. Len(saves) :
    saves[i].by = <<"spawn", s>> /\ saves[j].by = <<"spawn", s>> => i = j

StreamDurable(s) == AckedKept(s) /\ SpawnKept(s) /\ SpawnOnce(s)

DurableInvariant == TypeOK /\ QueueOpen /\ \A s \in Stream : StreamDurable(s)

\* How a step may change the location of s when w goes to the save queue.
Moderate(s, w, d) ==
    \/ s \in Registered /\ s \in Registered'
    \/ pc[s] = "closing" /\ pc'[s] = "closing" /\ w # <<"stream", s>>
    \/ /\ s \in Registered /\ pc'[s] = "closing"
       /\ w = <<"stream", s>> /\ Len(saves') = Len(saves) - d + 1

LEMMA KeptStays ==
    ASSUME StateStore = "file", TypeOK, QueueOpen, NEW s \in Stream, NEW w, NEW d \in {0, 1},
           Shift(w, d), Moderate(s, w, d), process' = "running" => process = "running",
           NEW n \in 0 .. Len(saves), NEW n2 \in Nat, n2 = n - d \/ (n = 0 /\ n2 = 0), Kept(s, n)
    PROVE  Kept(s, n2)'
<1>. DEFINE N == Len(saves)
            M == Len(saves')
<1>0. /\ N \in Nat /\ M \in Nat /\ n \in Nat /\ n <= N /\ d <= N /\ M \in {N - d, N - d + 1} /\ n2 <= N - d
  BY DEF Shift, TypeOK, FileTypeOK
<1>1. \A i \in 1 .. N - d : saves'[i] = saves[i + d]
  BY DEF Shift
<1>2. M = N - d + 1 =>
          saves'[M].by = w /\ saves'[M].snapshot.registered = Registered' /\ process = "running"
  BY SnapshotSays DEF Shift, QueueOpen
<1>3. d = 1 => N >= 1 /\ saves[1].by = w
  BY DEF Shift
<1>4. /\ \A j \in n + 1 .. N :
            \/ s \in saves[j].snapshot.registered
            \/ pc[s] = "closing" /\ \E k \in n + 1 .. j : saves[k].by = <<"stream", s>>
      /\ pc[s] = "closing" /\ process = "running" =>
            \E k \in n + 1 .. N : saves[k].by = <<"stream", s>>
  BY DEF Kept
<1>. HIDE DEF N, M
<1>. SUFFICES /\ \A j \in n2 + 1 .. M :
                    \/ s \in saves'[j].snapshot.registered
                    \/ pc'[s] = "closing" /\ \E k \in n2 + 1 .. j : saves'[k].by = <<"stream", s>>
              /\ pc'[s] = "closing" /\ process' = "running" =>
                    \E k \in n2 + 1 .. M : saves'[k].by = <<"stream", s>>
  BY DEF Kept, M
<1>5. CASE s \in Registered
  <2>1. \A j \in n + 1 .. N : s \in saves[j].snapshot.registered
    BY <1>4, <1>5 DEF Registered
  <2>2. \A j \in n2 + 1 .. M : j # N - d + 1 => s \in saves'[j].snapshot.registered
    <3>1. \A j \in n2 + 1 .. M : j # N - d + 1 => j \in 1 .. N - d /\ j + d \in n + 1 .. N
      BY <1>0
    <3>2. QED BY <1>1, <2>1, <3>1
  <2>3. CASE s \in Registered'
    BY <1>0, <1>2, <2>2, <2>3 DEF Registered
  <2>4. CASE s \notin Registered'
    <3>1. pc'[s] = "closing" /\ w = <<"stream", s>> /\ M = N - d + 1
      BY <1>5, <2>4 DEF Moderate, Registered, N, M
    <3>2. saves'[M].by = <<"stream", s>> BY <1>2, <3>1
    <3>3. QED BY <1>0, <2>2, <3>1, <3>2
  <2>5. QED BY <2>3, <2>4
<1>6. CASE s \notin Registered
  <2>1. pc[s] = "closing" /\ pc'[s] = "closing" /\ w # <<"stream", s>>
    BY <1>6 DEF Moderate
  <2>2. ASSUME NEW j \in n + 1 .. N, NEW k \in n + 1 .. j, saves[k].by = <<"stream", s>>
        PROVE  k - d \in n2 + 1 .. j - d /\ saves'[k - d].by = <<"stream", s>>
    <3>0. d = 1 => saves[k].by # saves[1].by BY <1>3, <2>1, <2>2
    <3>1. k \in 1 .. N /\ (d = 1 => k # 1)
      <4>1. k \in 1 .. N BY <1>0
      <4>2. QED BY <3>0, <4>1
    <3>2. k - d \in n2 + 1 .. j - d /\ k - d \in 1 .. N - d BY <1>0, <3>1
    <3>3. saves'[k - d] = saves[k - d + d] BY <1>1, <3>2
    <3>4. k - d + d = k BY <1>0, <3>1
    <3>5. QED BY <2>2, <3>2, <3>3, <3>4
  <2>3. process = "running" => \E k \in n2 + 1 .. N - d : saves'[k].by = <<"stream", s>>
    <3>1. SUFFICES ASSUME process = "running"
                   PROVE  \E k \in n2 + 1 .. N - d : saves'[k].by = <<"stream", s>>
      OBVIOUS
    <3>2. PICK k \in n + 1 .. N : saves[k].by = <<"stream", s>> BY <1>4, <2>1, <3>1
    <3>3. N \in n + 1 .. N /\ k \in n + 1 .. N BY <1>0, <3>2
    <3>4. k - d \in n2 + 1 .. N - d /\ saves'[k - d].by = <<"stream", s>> BY <2>2, <3>2, <3>3
    <3>5. QED BY <3>4
  <2>4. ASSUME NEW j \in n2 + 1 .. M
        PROVE  \/ s \in saves'[j].snapshot.registered
               \/ \E k \in n2 + 1 .. j : saves'[k].by = <<"stream", s>>
    <3>1. CASE j = N - d + 1
      <4>1. process = "running" BY <1>0, <1>2, <3>1
      <4>2. PICK k \in n2 + 1 .. N - d : saves'[k].by = <<"stream", s>> BY <2>3, <4>1
      <4>3. k \in n2 + 1 .. j BY <1>0, <3>1, <4>2
      <4>4. QED BY <4>2, <4>3
    <3>2. CASE j # N - d + 1
      <4>1. j \in 1 .. N - d /\ saves'[j] = saves[j + d] BY <1>0, <1>1, <3>2
      <4>2. CASE j + d \in n + 1 .. N
        <5>1. CASE s \in saves[j + d].snapshot.registered BY <4>1, <5>1
        <5>2. CASE s \notin saves[j + d].snapshot.registered
          <6>1. PICK k \in n + 1 .. j + d : saves[k].by = <<"stream", s>> BY <1>4, <4>2, <5>2
          <6>2. k - d \in n2 + 1 .. j + d - d /\ saves'[k - d].by = <<"stream", s>>
            BY <2>2, <4>2, <6>1
          <6>3. j + d - d = j BY <1>0
          <6>4. QED BY <6>2, <6>3
        <5>3. QED BY <5>1, <5>2
      <4>3. j + d \in n + 1 .. N BY <1>0, <4>1
      <4>4. QED BY <4>2, <4>3
    <3>3. QED BY <3>1, <3>2
  <2>5. QED
    <3>1. \A k \in n2 + 1 .. N - d : k \in n2 + 1 .. M BY <1>0
    <3>2. QED BY <2>1, <2>3, <2>4, <3>1
<1>7. QED BY <1>5, <1>6

\* What a step of another handler, or of its own, leaves true of a stream.
LEMMA StreamStays ==
    ASSUME StateStore = "file", DurableInvariant, NEW s \in Stream, NEW w, QueueStep(w),
           w # <<"spawn", s>>, s \in acked' => s \in acked,
           process' = "running" => process = "running",
           \/ s \in Registered /\ s \in Registered'
           \/ pc'[s] = pc[s] /\ w # <<"stream", s>>
           \/ s \in Registered /\ pc'[s] = "closing" /\ w = <<"stream", s>> /\ (Adds(w) \/ Moves(w))
    PROVE  StreamDurable(s)'
<1>. USE DEF DurableInvariant
<1>1. PICK d \in {0, 1} : Shift(w, d) /\
          (s \notin Registered' /\ s \in Registered /\ w = <<"stream", s>> =>
              Len(saves') = Len(saves) - d + 1)
  <2>1. CASE Adds(w) \/ Moves(w) BY <2>1, AddsShift
  <2>2. CASE ~(Adds(w) \/ Moves(w)) BY <2>2, QueueShift DEF Registered
  <2>3. QED BY <2>1, <2>2
<1>. DEFINE N == Len(saves)
            M == Len(saves')
<1>2. /\ N \in Nat /\ M \in Nat /\ d <= N /\ M \in {N - d, N - d + 1}
      /\ \A i \in 1 .. N - d : saves'[i] = saves[i + d]
      /\ M = N - d + 1 => saves'[M].by = w
      /\ d = 0 => disk' = disk
      /\ d = 1 => saves[1].by = w /\ disk' = saves[1].snapshot /\ N >= 1
  BY <1>1 DEF Shift, TypeOK, FileTypeOK
<1>3. pc'[s] \in {"absent", "planned", "opening", "closed"} => pc'[s] = pc[s]
  BY DEF Registered
<1>4. pc[s] \in {"absent", "planned", "opening", "closed"} => pc'[s] = pc[s]
  BY DEF Registered
<1>5. pc[s] \notin {"absent", "planned", "opening", "closed"} => Moderate(s, w, d)
  BY <1>1 DEF Moderate, Registered
<1>6. \A i \in 1 .. M : saves'[i].by = <<"spawn", s>> =>
          i \in 1 .. N - d /\ i + d \in 1 .. N /\ saves'[i] = saves[i + d]
  <2>. SUFFICES ASSUME NEW i \in 1 .. M, saves'[i].by = <<"spawn", s>>
                PROVE  i \in 1 .. N - d /\ i + d \in 1 .. N /\ saves'[i] = saves[i + d]
    OBVIOUS
  <2>. HIDE DEF N, M
  <2>1. ~ (i = M /\ M = N - d + 1) BY <1>2
  <2>2. i \in 1 .. N - d /\ i + d \in 1 .. N BY <1>2, <2>1
  <2>3. QED BY <1>2, <2>2
<1>. HIDE DEF N, M
<1>7. ASSUME NEW n \in 0 .. N, NEW n2 \in Nat, n2 = n - d \/ (n = 0 /\ n2 = 0), Kept(s, n),
             pc[s] \notin {"absent", "planned", "opening", "closed"}
      PROVE  Kept(s, n2)'
  BY <1>1, <1>5, <1>7, KeptStays DEF N
<1>8. AckedKept(s)'
  <2>. SUFFICES ASSUME s \in acked', pc'[s] # "closed"
                PROVE  pc'[s] \notin {"absent", "planned", "opening"} /\ s \in disk'.registered /\ Kept(s, 0)'
    BY DEF AckedKept
  <2>1. /\ pc[s] \notin {"absent", "planned", "opening", "closed"}
        /\ s \in disk.registered /\ Kept(s, 0)
    BY <1>4 DEF AckedKept, StreamDurable
  <2>2. Kept(s, 0)'
    <3>1. 0 \in 0 .. N /\ 0 \in Nat BY <1>2 DEF N
    <3>2. QED BY <1>7, <2>1, <3>1
  <2>3. s \in disk'.registered
    <3>1. CASE d = 0 BY <1>2, <2>1, <3>1
    <3>2. CASE d = 1
      <4>1. 1 \in 0 + 1 .. N /\ saves[1].by = w /\ disk' = saves[1].snapshot BY <1>2, <3>2 DEF N
      <4>2. CASE pc[s] = "closing"
        <5>1. w # <<"stream", s>> BY <1>5, <2>1, <4>2 DEF Moderate, Registered
        <5>2. ~ \E k \in 0 + 1 .. 1 : saves[k].by = <<"stream", s>> BY <4>1, <5>1
        <5>3. QED BY <2>1, <4>1, <5>2 DEF Kept, N
      <4>3. CASE pc[s] # "closing" BY <2>1, <4>1, <4>3 DEF Kept, N
      <4>4. QED BY <4>2, <4>3
    <3>3. QED BY <3>1, <3>2
  <2>4. QED BY <1>3, <2>1, <2>2, <2>3
<1>9. SpawnKept(s)'
  <2>. SUFFICES ASSUME NEW i \in 1 .. M, saves'[i].by = <<"spawn", s>>
                PROVE  /\ pc'[s] \notin {"absent", "planned"}
                       /\ pc'[s] \notin {"opening", "closed"} =>
                             s \in saves'[i].snapshot.registered /\ Kept(s, i)'
    BY DEF SpawnKept, M
  <2>1. i + d \in 1 .. N /\ saves'[i] = saves[i + d] /\ saves[i + d].by = <<"spawn", s>>
    BY <1>6
  <2>2. /\ pc[s] \notin {"absent", "planned"}
        /\ pc[s] \notin {"opening", "closed"} =>
              s \in saves[i + d].snapshot.registered /\ Kept(s, i + d)
    BY <2>1 DEF SpawnKept, StreamDurable, N
  <2>3. i + d \in 0 .. N /\ i \in Nat /\ i = i + d - d BY <1>2, <2>1 DEF M, N
  <2>4. QED BY <1>3, <1>4, <1>7, <2>1, <2>2, <2>3
<1>10. SpawnOnce(s)'
  <2>. SUFFICES ASSUME NEW i \in 1 .. M, NEW j \in 1 .. M,
                       saves'[i].by = <<"spawn", s>>, saves'[j].by = <<"spawn", s>>
                PROVE  i = j
    BY DEF SpawnOnce, M
  <2>1. i + d = j + d BY <1>6 DEF SpawnOnce, StreamDurable, N
  <2>2. i \in Int /\ j \in Int BY <1>2 DEF M, N
  <2>3. QED BY <2>1, <2>2
<1>11. QED BY <1>8, <1>9, <1>10 DEF StreamDurable

LEMMA QueueOpenStays ==
    ASSUME TypeOK, QueueOpen, NEW w, QueueStep(w), process' = process \/ process # "running"
    PROVE  QueueOpen'
BY DEF QueueOpen, QueueStep, Keeps, Adds, Pops, Moves

\* A handler that is past its POST works on a registered stream until it drops it.
Handles(t) ==
    /\ acked' = acked /\ pc' \in [Stream -> Location]
    /\ \A s \in Stream \ {t} : pc'[s] = pc[s]
    /\ process' = process \/ process # "running"
    /\ process' = "running" => process = "running"
    /\ QueueStep(<<"stream", t>>)
    /\ \/ t \in Registered /\ t \in Registered'
       \/ /\ t \in Registered /\ pc'[t] = "closing"
          /\ Adds(<<"stream", t>>) \/ Moves(<<"stream", t>>)
       \/ pc[t] = "closing" /\ pc'[t] = "closed" /\ Pops(<<"stream", t>>)

LEMMA ConcludeHandles ==
    ASSUME TypeOK, NEW t \in Stream, t \in Registered, NEW status, Conclude(t, status)
    PROVE  Handles(t)
<1>1. Adds(<<"stream", t>>) /\ process' = process
  BY PersistQueue DEF Conclude, PersistStream
<1>2. pc' = [pc EXCEPT ![t] = "finishing"] \/ pc' = [pc EXCEPT ![t] = "closing"]
  BY DEF Conclude, DropStream
<1>3. acked' = acked BY DEF Conclude, clientVars
<1>4. QED BY <1>1, <1>2, <1>3 DEF Handles, QueueStep, Registered, TypeOK, StreamTypeOK, Location

\* The stream stays registered, and its handler has no save, waits for one, or
\* starts one.
LEMMA GoesOnHandles ==
    ASSUME TypeOK, NEW t \in Stream, t \in Registered, acked' = acked,
           NEW p \in Location \ {"absent", "planned", "opening", "closing", "closed"},
           pc' = [pc EXCEPT ![t] = p],
           process' = process, QueueStep(<<"stream", t>>)
    PROVE  Handles(t)
BY DEF Handles, Registered, TypeOK, StreamTypeOK

LEMMA StreamStepHandles ==
    ASSUME StateStore = "file", DurableInvariant, NEW t \in Stream, StreamStep(t)
    PROVE  Handles(t)
<1>. USE DEF DurableInvariant
<1>. DEFINE w == <<"stream", t>>
            going == Location \ {"absent", "planned", "opening", "closing", "closed"}
<1>1. CASE StartStream(t) \/ StartExecution(t) \/ RetryExecution(t)
  <2>1. /\ t \in Registered /\ acked' = acked /\ Saved("stream", t)
        /\ \E p \in going : pc' = [pc EXCEPT ![t] = p]
    BY <1>1 DEF StartStream, StartExecution, RetryExecution, Registered, Location, clientVars
  <2>2. Pops(w) /\ process' = process BY <2>1, SavedQueue
  <2>3. QED BY <2>1, <2>2, GoesOnHandles DEF QueueStep
<1>2. CASE StoreLease(t) \/ RetryStored(t)
  <2>1. /\ t \in Registered /\ acked' = acked /\ PersistStream(t)
        /\ \E p \in going : pc' = [pc EXCEPT ![t] = p]
    BY <1>2 DEF StoreLease, RetryStored, Registered, Location, clientVars
  <2>2. Adds(w) /\ process' = process BY <2>1, PersistQueue DEF PersistStream
  <2>3. QED BY <2>1, <2>2, GoesOnHandles DEF QueueStep
<1>3. CASE \/ AcquireLane(t) \/ RetryAcquire(t) \/ RetryPrepared(t)
           \/ \E unavailable \in BOOLEAN : LaneFails(t, unavailable)
  <2>1. /\ t \in Registered /\ acked' = acked /\ Keeps /\ process' = process
        /\ \E p \in going : pc' = [pc EXCEPT ![t] = p]
    BY <1>3 DEF AcquireLane, RetryAcquire, RetryPrepared, LaneFails, Registered, Location, Keeps,
                clientVars, fileVars
  <2>2. QED BY <2>1, GoesOnHandles DEF QueueStep
<1>4. CASE \/ AcquireTimesOut(t) \/ PrepareFails(t) \/ RetryTimesOut(t)
           \/ RetryPrepareFails(t) \/ RetrySessionFails(t)
           \/ \E status \in {"completed", "failed"} : EndExecution(t, status)
  <2>1. t \in Registered /\ \E status : Conclude(t, status)
    BY <1>4 DEF AcquireTimesOut, PrepareFails, RetryTimesOut, RetryPrepareFails, RetrySessionFails,
                EndExecution, Registered
  <2>2. QED BY <2>1, ConcludeHandles
<1>5. CASE FinishStream(t)
  <2>1. /\ t \in Registered /\ acked' = acked /\ SavedAndPersist("stream", t)
        /\ pc' = [pc EXCEPT ![t] = "closing"]
    BY <1>5 DEF FinishStream, DropStream, Registered, clientVars
  <2>2. Moves(w) /\ process' = process BY <2>1, MovedQueue
  <2>3. QED BY <2>1, <2>2 DEF Handles, QueueStep, Registered, TypeOK, StreamTypeOK, Location
<1>6. CASE CloseStream(t)
  <2>1. /\ pc[t] = "closing" /\ acked' = acked /\ Saved("stream", t)
        /\ pc' = [pc EXCEPT ![t] = "closed"]
    BY <1>6 DEF CloseStream, clientVars
  <2>2. Pops(w) /\ process' = process BY <2>1, SavedQueue
  <2>3. QED BY <2>1, <2>2 DEF Handles, QueueStep, TypeOK, StreamTypeOK, Location
<1>7. CASE RejectedSave(t)
  <2>1. t \in Registered BY <1>7 DEF RejectedSave, Registered
  <2>2. Keeps /\ acked' = acked /\ pc' = pc /\ process # "running" /\ process' # "running"
    BY <1>7 DEF RejectedSave, Keeps, streamVars, clientVars
  <2>3. QED BY <2>1, <2>2 DEF Handles, QueueStep, Registered, TypeOK, StreamTypeOK
<1>8. QED BY <1>1, <1>2, <1>3, <1>4, <1>5, <1>6, <1>7 DEF StreamStep

\* A pop takes away entries only.
LEMMA PopKeepsOnce ==
    ASSUME TypeOK, NEW s \in Stream, NEW w, Pops(w), SpawnOnce(s)
    PROVE  SpawnOnce(s)'
<1>1. /\ Len(saves) \in Nat /\ Len(saves') = Len(saves) - 1
      /\ \A i \in 1 .. Len(saves) - 1 : saves'[i] = saves[i + 1]
  BY PopsShift DEF Shift, TypeOK, FileTypeOK
<1>2. SUFFICES ASSUME NEW i \in 1 .. Len(saves'), NEW j \in 1 .. Len(saves'),
                      saves'[i].by = <<"spawn", s>>, saves'[j].by = <<"spawn", s>>
               PROVE  i = j
  BY DEF SpawnOnce
<1>3. i + 1 \in 1 .. Len(saves) /\ j + 1 \in 1 .. Len(saves) /\ i \in Nat /\ j \in Nat
  BY <1>1
<1>4. saves'[i] = saves[i + 1] /\ saves'[j] = saves[j + 1] BY <1>1
<1>5. i + 1 = j + 1 BY <1>2, <1>3, <1>4 DEF SpawnOnce
<1>6. QED BY <1>3, <1>5

LEMMA HandlesDurable ==
    ASSUME StateStore = "file", DurableInvariant, NEW t \in Stream, Handles(t)
    PROVE  QueueOpen' /\ \A s \in Stream : StreamDurable(s)'
<1>. USE DEF DurableInvariant
<1>1. QueueOpen' BY QueueOpenStays DEF Handles
<1>2. ASSUME NEW s \in Stream \ {t} PROVE StreamDurable(s)'
  BY StreamStays DEF Handles
<1>3. StreamDurable(t)'
  <2>1. CASE t \in Registered
    <3>1. \/ t \in Registered'
          \/ pc'[t] = "closing" /\ (Adds(<<"stream", t>>) \/ Moves(<<"stream", t>>))
      BY <2>1 DEF Handles, Registered
    <3>2. QED BY <2>1, <3>1, StreamStays DEF Handles
  <2>2. CASE t \notin Registered
    <3>1. pc'[t] = "closed" /\ Pops(<<"stream", t>>) BY <2>2 DEF Handles
    <3>2. AckedKept(t)' /\ SpawnKept(t)' BY <3>1 DEF AckedKept, SpawnKept
    <3>3. QED BY <3>1, <3>2, PopKeepsOnce DEF StreamDurable
  <2>3. QED BY <2>1, <2>2
<1>4. QED BY <1>1, <1>2, <1>3

\* A queue that has no save of the spawn of s yet.
LEMMA NoSpawnSave ==
    ASSUME DurableInvariant, NEW s \in Stream, pc[s] \in {"absent", "planned"}
    PROVE  s \notin acked /\ \A i \in 1 .. Len(saves) : saves[i].by # <<"spawn", s>>
BY DEF DurableInvariant, StreamDurable, AckedKept, SpawnKept

\* The first save of a spawn, or none when the process takes no saves.
LEMMA SpawnAdds ==
    ASSUME StateStore = "file", DurableInvariant, NEW s \in Stream,
           pc[s] \in {"absent", "planned"}, s \notin acked', Keeps \/ Adds(<<"spawn", s>>),
           Keeps => pc'[s] # "closing", pc'[s] = "opening" \/ s \in Registered' \/ Keeps
    PROVE  StreamDurable(s)'
<1>. DEFINE N == Len(saves)
            M == Len(saves')
<1>0. N \in Nat /\ \A i \in 1 .. N : saves[i].by # <<"spawn", s>>
  BY NoSpawnSave DEF DurableInvariant, TypeOK, FileTypeOK
<1>1. CASE Keeps
  BY <1>0, <1>1 DEF Keeps, StreamDurable, AckedKept, SpawnKept, SpawnOnce
<1>2. CASE ~Keeps
  <2>1. PICK d \in {0, 1} : Shift(<<"spawn", s>>, d) /\ M = N - d + 1
    BY <1>2, AddsShift DEF DurableInvariant
  <2>2. /\ \A i \in 1 .. N - d : saves'[i] = saves[i + d]
        /\ saves'[M].snapshot.registered = Registered' /\ d <= N
    BY <2>1, SnapshotSays DEF Shift
  <2>. HIDE DEF N, M
  <2>3. \A i \in 1 .. M : saves'[i].by = <<"spawn", s>> => i = M
    <3>1. \A i \in 1 .. M : i # M => i \in 1 .. N - d /\ i + d \in 1 .. N BY <1>0, <2>1, <2>2
    <3>2. QED BY <1>0, <2>2, <3>1
  <2>4. SpawnKept(s)'
    <3>. SUFFICES ASSUME NEW i \in 1 .. M, saves'[i].by = <<"spawn", s>>
                  PROVE  /\ pc'[s] \notin {"absent", "planned"}
                         /\ pc'[s] \notin {"opening", "closed"} =>
                               s \in saves'[i].snapshot.registered /\ Kept(s, i)'
      BY DEF SpawnKept, M
    <3>1. pc'[s] = "opening" \/ s \in Registered' BY <1>2
    <3>2. i = M BY <2>3
    <3>3. s \in Registered' => Kept(s, i)'
      <4>1. s \in Registered' => pc'[s] # "closing" BY DEF Registered
      <4>2. \A j \in i + 1 .. Len(saves') : FALSE BY <1>0, <2>1, <2>2, <3>2 DEF M
      <4>3. QED BY <4>1, <4>2 DEF Kept
    <3>4. pc'[s] \notin {"absent", "planned"} BY <3>1 DEF Registered
    <3>5. QED BY <2>2, <3>1, <3>2, <3>3, <3>4
  <2>5. SpawnOnce(s)' BY <2>3 DEF SpawnOnce, M
  <2>6. AckedKept(s)' BY DEF AckedKept
  <2>7. QED BY <2>4, <2>5, <2>6 DEF StreamDurable
<1>3. QED BY <1>1, <1>2

\* The save of the session has been written, and the one of the stream follows it.
LEMMA SpawnMoves ==
    ASSUME StateStore = "file", DurableInvariant, NEW s \in Stream,
           s \notin acked', Moves(<<"spawn", s>>), s \in Registered'
    PROVE  StreamDurable(s)'
<1>. DEFINE N == Len(saves)
            M == Len(saves')
<1>1. saves # <<>> /\ saves[1].by = <<"spawn", s>> /\ N \in Nat /\ N >= 1
  BY DEF Moves, DurableInvariant, TypeOK, FileTypeOK
<1>2. \A i \in 1 .. N : saves[i].by = <<"spawn", s>> => i = 1
  BY <1>1 DEF DurableInvariant, StreamDurable, SpawnOnce
<1>3. saves' = Append(Tail(saves), [by |-> <<"spawn", s>>, snapshot |-> Snapshot'])
  BY DEF Moves
<1>4. /\ M = N /\ saves'[M].snapshot = Snapshot'
      /\ \A i \in 1 .. N - 1 : saves'[i] = saves[i + 1]
  <2>. DEFINE rest == Tail(saves)
              e == [by |-> <<"spawn", s>>, snapshot |-> Snapshot']
              Entry == [by : HandlerSet, snapshot : SnapshotSet]
  <2>1. saves \in Seq(Entry) BY DEF DurableInvariant, TypeOK, FileTypeOK
  <2>. HIDE DEF Entry
  <2>2. /\ rest \in Seq(Entry) /\ Len(rest) = N - 1
        /\ \A i \in 1 .. N - 1 : rest[i] = saves[i + 1]
    BY <1>1, <2>1
  <2>3. saves' = Append(rest, e) /\ e.snapshot = Snapshot' BY <1>3
  <2>. HIDE DEF rest, e
  <2>4. /\ Len(saves') = Len(rest) + 1 /\ saves'[Len(rest) + 1] = e
        /\ \A i \in 1 .. Len(rest) : saves'[i] = rest[i]
    BY <2>2, <2>3
  <2>5. QED BY <1>1, <2>2, <2>3, <2>4
<1>5. s \in saves'[M].snapshot.registered BY <1>4, SnapshotSays
<1>. HIDE DEF N, M
<1>6. \A i \in 1 .. M : saves'[i].by = <<"spawn", s>> => i = M
  <2>1. \A i \in 1 .. M : i # M => i \in 1 .. N - 1 /\ i + 1 \in 1 .. N /\ i + 1 # 1
    BY <1>1, <1>4
  <2>2. QED BY <1>2, <1>4, <2>1
<1>8. SpawnKept(s)'
  <2>. SUFFICES ASSUME NEW i \in 1 .. M, saves'[i].by = <<"spawn", s>>
                PROVE  /\ pc'[s] \notin {"absent", "planned"}
                       /\ s \in saves'[i].snapshot.registered /\ Kept(s, i)'
    BY DEF SpawnKept, M
  <2>1. i = M BY <1>6
  <2>2. pc'[s] \notin {"absent", "planned", "closing"} BY DEF Registered
  <2>3. \A j \in i + 1 .. Len(saves') : FALSE BY <1>1, <1>4, <2>1 DEF M
  <2>4. Kept(s, i)' BY <2>2, <2>3 DEF Kept
  <2>5. QED BY <1>5, <2>1, <2>2, <2>4
<1>7. SpawnOnce(s)' BY <1>6 DEF SpawnOnce, M
<1>9. QED BY <1>7, <1>8 DEF StreamDurable, AckedKept

\* The POST is answered once its save is written.
LEMMA SpawnPops ==
    ASSUME StateStore = "file", DurableInvariant, NEW s \in Stream,
           pc[s] # "opening", pc' = pc, process' = process, Pops(<<"spawn", s>>)
    PROVE  StreamDurable(s)'
<1>. DEFINE N == Len(saves)
            M == Len(saves')
            w == <<"spawn", s>>
<1>. USE DEF DurableInvariant
<1>1. /\ N \in Nat /\ N >= 1 /\ M = N - 1 /\ Shift(w, 1)
      /\ saves[1].by = w /\ disk' = saves[1].snapshot
      /\ \A i \in 1 .. N - 1 : saves'[i] = saves[i + 1]
  BY PopsShift DEF Shift, TypeOK, FileTypeOK
<1>. HIDE DEF N, M
<1>2. \A i \in 1 .. M : saves'[i].by # w
  <2>1. \A i \in 1 .. M : i \in 1 .. N - 1 /\ i + 1 \in 1 .. N /\ 1 \in 1 .. N /\ i + 1 # 1
    BY <1>1
  <2>2. QED BY <1>1, <2>1 DEF StreamDurable, SpawnOnce, N
<1>3. SpawnKept(s)' /\ SpawnOnce(s)' BY <1>2 DEF SpawnKept, SpawnOnce, M
<1>4. 1 \in 1 .. N BY <1>1
<1>5. /\ pc[s] \notin {"absent", "planned"}
      /\ pc[s] # "closed" => s \in saves[1].snapshot.registered /\ Kept(s, 1)
  BY <1>1, <1>4 DEF StreamDurable, SpawnKept, N
<1>6. pc[s] # "closed" => Kept(s, 0)'
  <2>. SUFFICES ASSUME pc[s] # "closed" PROVE Kept(s, 0)'
    OBVIOUS
  <2>1. Moderate(s, w, 1) BY <1>5 DEF Moderate, Registered
  <2>2. 1 \in 0 .. Len(saves) /\ 0 \in Nat /\ 0 = 1 - 1 /\ 1 \in {0, 1} BY <1>1 DEF N
  <2>3. QED BY <1>1, <1>5, <2>1, <2>2, KeptStays
<1>7. AckedKept(s)' BY <1>1, <1>5, <1>6 DEF AckedKept
<1>8. QED BY <1>3, <1>7 DEF StreamDurable

LEMMA SpawnStepDurable ==
    ASSUME StateStore = "file", DurableInvariant, NEW t \in Stream, SpawnStep(t)
    PROVE  QueueOpen' /\ \A s \in Stream : StreamDurable(s)'
<1>. USE DEF DurableInvariant
<1>. DEFINE w == <<"spawn", t>>
<1>1. CASE ConsumeStream(t)
  <2>1. /\ t \in Registered /\ acked' = acked
        /\ \E p \in Location \ {"absent", "planned", "opening", "closing", "closed"} :
                pc' = [pc EXCEPT ![t] = p]
        /\ Persist("stream", t) \/ UNCHANGED fileVars
    BY <1>1 DEF ConsumeStream, Registered, Location, clientVars
  <2>2. QueueStep(<<"stream", t>>) /\ process' = process
    BY <2>1, PersistQueue DEF QueueStep, Keeps, fileVars
  <2>3. Handles(t) BY <2>1, <2>2, GoesOnHandles
  <2>4. QED BY <2>3, HandlesDurable
<1>2. ASSUME process' = process, QueueStep(w), \A s \in Stream \ {t} : pc'[s] = pc[s],
             \A s \in Stream \ {t} : s \in acked' => s \in acked, StreamDurable(t)'
      PROVE  QueueOpen' /\ \A s \in Stream : StreamDurable(s)'
  <2>1. QueueOpen' BY <1>2, QueueOpenStays
  <2>2. ASSUME NEW s \in Stream \ {t} PROVE StreamDurable(s)'
    BY <1>2, StreamStays
  <2>3. QED BY <1>2, <2>1, <2>2
<1>3. CASE PlanFails(t) \/ \E preferred \in Lane \cup {NoLane} : PlanStream(t, preferred)
  <2>1. /\ pc[t] \in {"absent", "planned"} /\ Keeps /\ process' = process /\ acked' = acked
        /\ pc'[t] \in {"absent", "planned"} /\ \A s \in Stream \ {t} : pc'[s] = pc[s]
    BY <1>3 DEF PlanFails, PlanStream, Keeps, fileVars, clientVars, TypeOK, StreamTypeOK
  <2>2. t \notin acked' BY <2>1, NoSpawnSave
  <2>3. StreamDurable(t)' BY <2>1, <2>2, SpawnAdds
  <2>4. QED BY <1>2, <2>1, <2>3 DEF QueueStep
<1>4. CASE OpenSession(t)
  <2>1. /\ pc[t] = "planned" /\ process = "running" /\ Persist("spawn", t) /\ acked' = acked
        /\ pc'[t] = "opening" /\ \A s \in Stream \ {t} : pc'[s] = pc[s]
    BY <1>4 DEF OpenSession, clientVars, TypeOK, StreamTypeOK
  <2>2. Adds(w) /\ process' = process BY <2>1, PersistQueue
  <2>3. t \notin acked' BY <2>1, NoSpawnSave
  <2>4. StreamDurable(t)' BY <2>1, <2>2, <2>3, SpawnAdds
  <2>5. QED BY <1>2, <2>1, <2>2, <2>4 DEF QueueStep
<1>5. CASE RegisterStream(t)
  <2>1. /\ pc[t] \in {"planned", "opening"} /\ acked' = acked \ {t} /\ pc'[t] = "idle"
        /\ \A s \in Stream \ {t} : pc'[s] = pc[s]
    BY <1>5 DEF RegisterStream, TypeOK, StreamTypeOK
  <2>2. t \in Registered' BY <2>1 DEF Registered
  <2>3. CASE pc[t] = "opening"
    <3>1. Moves(w) /\ process' = process BY <1>5, <2>3, MovedQueue DEF RegisterStream
    <3>2. StreamDurable(t)' BY <2>1, <2>2, <3>1, SpawnMoves
    <3>3. QED BY <1>2, <2>1, <3>1, <3>2 DEF QueueStep
  <2>4. CASE pc[t] = "planned"
    <3>1. (Adds(w) \/ Keeps) /\ process' = process
      BY <1>5, <2>4, PersistQueue DEF RegisterStream
    <3>2. StreamDurable(t)' BY <2>1, <2>2, <2>4, <3>1, SpawnAdds
    <3>3. QED BY <1>2, <2>1, <3>1, <3>2 DEF QueueStep
  <2>5. QED BY <2>1, <2>3, <2>4
<1>6. CASE AckSpawn(t)
  <2>1. /\ pc[t] # "opening" /\ pc' = pc /\ acked' = acked \cup {t} /\ Saved("spawn", t)
    BY <1>6 DEF AckSpawn, streamVars
  <2>2. Pops(w) /\ process' = process BY <2>1, SavedQueue
  <2>3. StreamDurable(t)' BY <2>1, <2>2, SpawnPops
  <2>4. QED BY <1>2, <2>1, <2>2, <2>3 DEF QueueStep
<1>7. QED BY <1>1, <1>3, <1>4, <1>5, <1>6 DEF SpawnStep

\* A handler or an administrator that touches no stream.
LEMMA OtherStepDurable ==
    ASSUME StateStore = "file", DurableInvariant, NEW r, QueueStep(<<"cancel", r>>),
           pc' = pc, process' = process, \A s \in Stream : s \in acked' => s \in acked
    PROVE  QueueOpen' /\ \A s \in Stream : StreamDurable(s)'
<1>. USE DEF DurableInvariant
<1>1. QueueOpen' BY QueueOpenStays
<1>2. ASSUME NEW s \in Stream PROVE StreamDurable(s)'
  BY StreamStays
<1>3. QED BY <1>1, <1>2

LEMMA CancelStepQueue ==
    ASSUME StateStore = "file", NEW r, CancelStep(r)
    PROVE  pc' = pc /\ process' = process /\ acked' = acked /\ QueueStep(<<"cancel", r>>)
<1>1. CASE BeginCancel(r) \/ CancelRefused(r)
  BY <1>1 DEF BeginCancel, CancelRefused, streamVars, fileVars, clientVars, QueueStep, Keeps
<1>2. CASE CancelAccepted(r)
  BY <1>2, PersistQueue DEF CancelAccepted, streamVars, clientVars, QueueStep
<1>3. CASE AckCancel(r)
  BY <1>3, SavedQueue DEF AckCancel, streamVars, QueueStep
<1>4. QED BY <1>1, <1>2, <1>3 DEF CancelStep

\* A failed save empties the queue and leaves the file as it is.
LEMMA SaveFailsDurable ==
    ASSUME DurableInvariant, SaveFails
    PROVE  QueueOpen' /\ \A s \in Stream : StreamDurable(s)'
<1>. USE DEF DurableInvariant
<1>1. /\ saves' = <<>> /\ disk' = disk /\ acked' = acked /\ process' # "running"
      /\ pc' = [s \in Stream |-> IF pc[s] = "starting" THEN "wedged"
                                 ELSE IF pc[s] = "opening" THEN "absent" ELSE pc[s]]
  BY DEF SaveFails, clientVars
<1>2. ASSUME NEW s \in Stream PROVE StreamDurable(s)'
  <2>1. \A n \in Nat : \A j \in n + 1 .. Len(saves') : FALSE BY <1>1
  <2>2. Kept(s, 0)' BY <1>1, <2>1 DEF Kept
  <2>3. AckedKept(s)' BY <1>1, <2>2 DEF StreamDurable, AckedKept
  <2>4. SpawnKept(s)' /\ SpawnOnce(s)' BY <1>1 DEF SpawnKept, SpawnOnce
  <2>5. QED BY <2>3, <2>4 DEF StreamDurable
<1>3. QED BY <1>1, <1>2 DEF QueueOpen

\* A new process serves what the file has.
LEMMA RestartDurable ==
    ASSUME DurableInvariant, Restart
    PROVE  QueueOpen' /\ \A s \in Stream : StreamDurable(s)'
<1>. USE DEF DurableInvariant
<1>1. /\ saves' = <<>> /\ disk' = disk /\ acked' = acked
      /\ pc' = [s \in Stream |-> IF s \in disk.registered THEN "idle"
                                 ELSE IF pc[s] = "closed" THEN "closed" ELSE "absent"]
  BY DEF Restart, clientVars
<1>2. ASSUME NEW s \in Stream PROVE StreamDurable(s)'
  <2>1. \A n \in Nat : \A j \in n + 1 .. Len(saves') : FALSE BY <1>1
  <2>2. Kept(s, 0)' BY <1>1, <2>1 DEF Kept
  <2>3. AckedKept(s)' BY <1>1, <2>2 DEF StreamDurable, AckedKept
  <2>4. SpawnKept(s)' /\ SpawnOnce(s)' BY <1>1 DEF SpawnKept, SpawnOnce
  <2>5. QED BY <2>3, <2>4 DEF StreamDurable
<1>3. QED BY <1>1, <1>2 DEF QueueOpen

LEMMA DurableStep ==
    StateStore = "file" /\ DurableInvariant /\ [Next]_vars => DurableInvariant'
<1>. SUFFICES ASSUME StateStore = "file", DurableInvariant, [Next]_vars PROVE DurableInvariant'
  OBVIOUS
<1>1. TypeOK' BY TypeStep DEF DurableInvariant
<1>2. QueueOpen' /\ \A s \in Stream : StreamDurable(s)'
  <2>1. ASSUME NEW t \in Stream, StreamStep(t) PROVE QueueOpen' /\ \A s \in Stream : StreamDurable(s)'
    BY <2>1, StreamStepHandles, HandlesDurable
  <2>2. ASSUME NEW r \in Request, CancelStep(r) PROVE QueueOpen' /\ \A s \in Stream : StreamDurable(s)'
    BY <2>2, CancelStepQueue, OtherStepDurable
  <2>3. ASSUME NEW l \in Lane, NEW drain \in BOOLEAN, SetDrain(l, drain)
        PROVE  QueueOpen' /\ \A s \in Stream : StreamDurable(s)'
    <3>1. pc' = pc /\ process' = process /\ acked' = acked /\ QueueStep(<<"cancel", l>>)
      BY <2>3 DEF SetDrain, streamVars, fileVars, clientVars, QueueStep, Keeps
    <3>2. QED BY <3>1, OtherStepDurable
  <2>4. CASE UNCHANGED vars
    <3>1. pc' = pc /\ process' = process /\ acked' = acked /\ QueueStep(<<"cancel", 0>>)
      BY <2>4 DEF vars, streamVars, fileVars, clientVars, QueueStep, Keeps
    <3>2. QED BY <3>1, OtherStepDurable
  <2>5. ASSUME NEW t \in Stream, SpawnStep(t) PROVE QueueOpen' /\ \A s \in Stream : StreamDurable(s)'
    BY <2>5, SpawnStepDurable
  <2>6. CASE SaveFails BY <2>6, SaveFailsDurable
  <2>7. CASE Restart BY <2>7, RestartDurable
  <2>8. QED BY <2>1, <2>2, <2>3, <2>4, <2>5, <2>6, <2>7 DEF Next
<1>3. QED BY <1>1, <1>2 DEF DurableInvariant

LEMMA DurableInit == Init => DurableInvariant
<1>. SUFFICES ASSUME Init PROVE DurableInvariant
  OBVIOUS
<1>1. saves = <<>> /\ acked = {} /\ process = "running" BY DEF Init
<1>2. QED BY <1>1, TypeInit DEF DurableInvariant, QueueOpen, StreamDurable, AckedKept, SpawnKept, SpawnOnce

\* On a state file the invariant behind durability holds of every behaviour: the
\* file and every snapshot waiting to be written have each stream whose POST was
\* answered, up to the save that drops it (persistState, handleSpawnAgent).
THEOREM DurableInvariantHolds == StateStore = "file" => (Spec => []DurableInvariant)
<1>. SUFFICES ASSUME StateStore = "file" PROVE Spec => []DurableInvariant
  OBVIOUS
<1>1. DurableInvariant /\ [Next]_vars => DurableInvariant' BY DurableStep
<1>2. QED BY <1>1, DurableInit, PTL DEF Spec

\* On a state file a stream whose spawn was answered is never forgotten, by a
\* restart, a concurrent save or a failed one, until its handler has dropped it
\* (restoreState, handleStream).
THEOREM AnsweredStreamsDurable == StateStore = "file" => (Spec => []AckedStreamsDurable)
<1>. SUFFICES ASSUME StateStore = "file" PROVE Spec => []AckedStreamsDurable
  OBVIOUS
<1>1. DurableInvariant => AckedStreamsDurable
  BY DEF DurableInvariant, StreamDurable, AckedKept, AckedStreamsDurable, TypeOK
<1>2. QED BY <1>1, DurableInvariantHolds, PTL

-----------------------------------------------------------------------------
(* Refines whose cancel was answered.                                      *)

\* Every snapshot that waits behind the first n has the operation of r cancelled.
KeptCancelled(r, n) ==
    \A j \in n + 1 .. Len(saves) : saves[j].snapshot.op[r] = "cancelled"

CancelKept(r) == r \in ackedCancel =>
    op[r] = "cancelled" /\ disk.op[r] = "cancelled" /\ KeptCancelled(r, 0)

\* The save of a cancel is followed by none with another status.
CancelSaved(r) == \A i \in 1 .. Len(saves) : saves[i].by = <<"cancel", r>> =>
    /\ cancelling[r] = "saving" /\ op[r] = "cancelled"
    /\ saves[i].snapshot.op[r] = "cancelled" /\ KeptCancelled(r, i)

CancelOnce(r) == \A i, j \in 1 .. Len(saves) :
    saves[i].by = <<"cancel", r>> /\ saves[j].by = <<"cancel", r>> => i = j

CancelDurable(r) == CancelKept(r) /\ CancelSaved(r) /\ CancelOnce(r)

\* A cancel is under way only for a refine that was posted.
CancelPosted(r) == \A s \in Refines :
    /\ pc[s] # "opening"
    /\ RequestOf[s] = r /\ cancelling[r] # "none" => pc[s] \notin {"absent", "planned"}

CancelInvariant == DurableInvariant /\ \A r \in Request : CancelDurable(r) /\ CancelPosted(r)

\* The service refuses a request id that it has already served.
OnePostEach == \A s, t \in Refines : RequestOf[s] = RequestOf[t] => s = t

LEMMA SaveBefore ==
    ASSUME TypeOK, NEW w, NEW d \in {0, 1}, Shift(w, d),
           NEW i \in 1 .. Len(saves'), saves'[i].by # w
    PROVE  /\ i \in Nat /\ i \in 1 .. Len(saves) - d /\ i + d \in 1 .. Len(saves)
           /\ saves'[i] = saves[i + d]
<1>1. /\ Len(saves) \in Nat /\ Len(saves') \in {Len(saves) - d, Len(saves) - d + 1}
      /\ \A k \in 1 .. Len(saves) - d : saves'[k] = saves[k + d]
      /\ Len(saves') = Len(saves) - d + 1 => saves'[Len(saves')].by = w
  BY DEF Shift, TypeOK, FileTypeOK
<1>2. ~ (i = Len(saves') /\ Len(saves') = Len(saves) - d + 1) BY <1>1
<1>3. i \in 1 .. Len(saves) - d /\ i + d \in 1 .. Len(saves) /\ i \in Nat BY <1>1, <1>2
<1>4. QED BY <1>1, <1>3

LEMMA KeptCancelledStays ==
    ASSUME StateStore = "file", TypeOK, NEW r \in Request, NEW w, NEW d \in {0, 1}, Shift(w, d),
           op'[r] = "cancelled",
           NEW n \in 0 .. Len(saves), NEW n2 \in Nat, n2 = n - d \/ (n = 0 /\ n2 = 0),
           KeptCancelled(r, n)
    PROVE  KeptCancelled(r, n2)'
<1>. DEFINE N == Len(saves)
            M == Len(saves')
<1>0. N \in Nat /\ n \in Nat /\ n <= N /\ d <= N /\ M \in {N - d, N - d + 1} /\ n2 <= N - d
  BY DEF Shift, TypeOK, FileTypeOK
<1>1. /\ \A i \in 1 .. N - d : saves'[i] = saves[i + d]
      /\ M = N - d + 1 => saves'[M].snapshot.op[r] = "cancelled"
      /\ \A j \in n + 1 .. N : saves[j].snapshot.op[r] = "cancelled"
  BY SnapshotSays DEF Shift, KeptCancelled
<1>. HIDE DEF N, M
<1>2. \A j \in n2 + 1 .. M : j # N - d + 1 => j \in 1 .. N - d /\ j + d \in n + 1 .. N
  BY <1>0
<1>3. \A j \in n2 + 1 .. M : saves'[j].snapshot.op[r] = "cancelled"
  BY <1>0, <1>1, <1>2
<1>4. QED BY <1>3 DEF KeptCancelled, M

\* A step that saves, or completes a save, on another account.
LEMMA CancelStays ==
    ASSUME StateStore = "file", TypeOK, NEW r \in Request, NEW w, QueueStep(w),
           w # <<"cancel", r>>, cancelling'[r] = cancelling[r],
           op[r] = "cancelled" => op'[r] = "cancelled",
           r \in ackedCancel' => r \in ackedCancel, CancelDurable(r)
    PROVE  CancelDurable(r)'
<1>1. PICK d \in {0, 1} : Shift(w, d) BY QueueShift
<1>2. Len(saves) \in Nat BY DEF TypeOK, FileTypeOK
<1>3. CancelKept(r)'
  <2>. SUFFICES ASSUME r \in ackedCancel'
                PROVE  op'[r] = "cancelled" /\ disk'.op[r] = "cancelled" /\ KeptCancelled(r, 0)'
    BY DEF CancelKept
  <2>1. op[r] = "cancelled" /\ disk.op[r] = "cancelled" /\ KeptCancelled(r, 0) /\ op'[r] = "cancelled"
    BY DEF CancelDurable, CancelKept
  <2>2. 0 \in 0 .. Len(saves) /\ 0 \in Nat BY <1>2
  <2>3. KeptCancelled(r, 0)' BY <1>1, <2>1, <2>2, KeptCancelledStays
  <2>4. d = 1 => 1 \in 0 + 1 .. Len(saves) BY <1>1, <1>2 DEF Shift
  <2>5. disk'.op[r] = "cancelled" BY <1>1, <2>1, <2>4 DEF Shift, KeptCancelled
  <2>6. QED BY <2>1, <2>3, <2>5
<1>4. CancelSaved(r)'
  <2>. SUFFICES ASSUME NEW i \in 1 .. Len(saves'), saves'[i].by = <<"cancel", r>>
                PROVE  /\ cancelling'[r] = "saving" /\ op'[r] = "cancelled"
                       /\ saves'[i].snapshot.op[r] = "cancelled" /\ KeptCancelled(r, i)'
    BY DEF CancelSaved
  <2>1. i \in Nat /\ i + d \in 1 .. Len(saves) /\ saves'[i] = saves[i + d] BY <1>1, SaveBefore
  <2>2. /\ cancelling[r] = "saving" /\ op[r] = "cancelled"
        /\ saves[i + d].snapshot.op[r] = "cancelled" /\ KeptCancelled(r, i + d)
    BY <2>1 DEF CancelDurable, CancelSaved
  <2>3. i + d \in 0 .. Len(saves) /\ i = i + d - d BY <1>2, <2>1
  <2>4. KeptCancelled(r, i)' BY <1>1, <2>1, <2>2, <2>3, KeptCancelledStays
  <2>5. QED BY <2>1, <2>2, <2>4
<1>5. CancelOnce(r)'
  <2>. SUFFICES ASSUME NEW i \in 1 .. Len(saves'), NEW j \in 1 .. Len(saves'),
                       saves'[i].by = <<"cancel", r>>, saves'[j].by = <<"cancel", r>>
                PROVE  i = j
    BY DEF CancelOnce
  <2>1. /\ i \in Nat /\ i + d \in 1 .. Len(saves) /\ saves'[i] = saves[i + d]
        /\ j \in Nat /\ j + d \in 1 .. Len(saves) /\ saves'[j] = saves[j + d]
    BY <1>1, SaveBefore
  <2>2. i + d = j + d BY <2>1 DEF CancelDurable, CancelOnce
  <2>3. QED BY <2>1, <2>2
<1>6. QED BY <1>3, <1>4, <1>5 DEF CancelDurable

\* A request with no cancel to be saved and none answered.
LEMMA NoCancelStays ==
    ASSUME TypeOK, NEW r \in Request, NEW w, QueueStep(w), w # <<"cancel", r>>,
           r \notin ackedCancel', \A i \in 1 .. Len(saves) : saves[i].by # <<"cancel", r>>
    PROVE  CancelDurable(r)'
<1>1. PICK d \in {0, 1} : Shift(w, d) BY QueueShift
<1>2. ASSUME NEW i \in 1 .. Len(saves'), saves'[i].by = <<"cancel", r>> PROVE FALSE
  <2>1. i + d \in 1 .. Len(saves) /\ saves'[i] = saves[i + d] BY <1>1, <1>2, SaveBefore
  <2>2. QED BY <1>2, <2>1
<1>3. QED BY <1>2 DEF CancelDurable, CancelKept, CancelSaved, CancelOnce

LEMMA CancelAcceptedDurable ==
    ASSUME StateStore = "file", TypeOK, NEW r \in Request, CancelDurable(r), CancelAccepted(r)
    PROVE  CancelDurable(r)'
<1>. DEFINE w == <<"cancel", r>>
<1>1. /\ cancelling[r] = "calling" /\ op' = [op EXCEPT ![r] = "cancelled"]
      /\ cancelling' = [cancelling EXCEPT ![r] = IF process = "running" THEN "saving" ELSE "none"]
      /\ ackedCancel' = ackedCancel
      /\ IF process = "running" THEN Adds(w) ELSE Keeps
  BY PersistQueue DEF CancelAccepted, clientVars
<1>2. op'[r] = "cancelled" /\ cancelling'[r] = (IF process = "running" THEN "saving" ELSE "none")
  BY <1>1 DEF TypeOK, StreamTypeOK
<1>3. Len(saves) \in Nat /\ \A i \in 1 .. Len(saves) : saves[i].by # w
  BY <1>1 DEF CancelDurable, CancelSaved, TypeOK, FileTypeOK
<1>4. PICK d \in {0, 1} : Shift(w, d) BY <1>1, QueueShift DEF QueueStep
<1>5. disk' = disk BY <1>1 DEF Adds, Keeps
<1>6. CancelKept(r)'
  <2>. SUFFICES ASSUME r \in ackedCancel PROVE disk.op[r] = "cancelled" /\ KeptCancelled(r, 0)'
    BY <1>1, <1>2, <1>5 DEF CancelKept
  <2>1. disk.op[r] = "cancelled" /\ KeptCancelled(r, 0) BY DEF CancelDurable, CancelKept
  <2>2. 0 \in 0 .. Len(saves) /\ 0 \in Nat BY <1>3
  <2>3. QED BY <1>2, <1>4, <2>1, <2>2, KeptCancelledStays
<1>7. CASE process = "running"
  <2>1. PICK e \in {0, 1} : Shift(w, e) /\ Len(saves') = Len(saves) - e + 1
    BY <1>1, <1>7, AddsShift
  <2>2. \A i \in 1 .. Len(saves') : saves'[i].by = w => i = Len(saves')
    <3>1. e <= Len(saves) /\ \A i \in 1 .. Len(saves) - e : saves'[i] = saves[i + e]
      BY <2>1 DEF Shift
    <3>2. \A i \in 1 .. Len(saves') : i # Len(saves') =>
              i \in 1 .. Len(saves) - e /\ i + e \in 1 .. Len(saves)
      BY <1>3, <2>1, <3>1
    <3>3. QED BY <1>3, <3>1, <3>2
  <2>3. saves'[Len(saves')].snapshot.op[r] = "cancelled"
    BY <1>2, <2>1, SnapshotSays DEF Shift
  <2>4. \A j \in Len(saves') + 1 .. Len(saves') : FALSE BY <1>3, <2>1
  <2>5. CancelSaved(r)'
    BY <1>2, <1>7, <2>2, <2>3, <2>4 DEF CancelSaved, KeptCancelled
  <2>6. CancelOnce(r)' BY <2>2 DEF CancelOnce
  <2>7. QED BY <1>6, <2>5, <2>6 DEF CancelDurable
<1>8. CASE process # "running"
  <2>1. saves' = saves BY <1>1, <1>8 DEF Keeps
  <2>2. QED BY <1>3, <1>6, <2>1 DEF CancelDurable, CancelSaved, CancelOnce
<1>9. QED BY <1>7, <1>8

\* The cancel is answered once its save is written.
LEMMA AckCancelDurable ==
    ASSUME StateStore = "file", TypeOK, NEW r \in Request, CancelDurable(r), AckCancel(r)
    PROVE  CancelDurable(r)'
<1>. DEFINE w == <<"cancel", r>>
<1>1. Pops(w) /\ op' = op BY SavedQueue DEF AckCancel
<1>2. /\ Shift(w, 1) /\ Len(saves') = Len(saves) - 1 /\ Len(saves) \in Nat /\ Len(saves) >= 1
      /\ saves[1].by = w /\ disk' = saves[1].snapshot
      /\ \A i \in 1 .. Len(saves) - 1 : saves'[i] = saves[i + 1]
  BY <1>1, PopsShift DEF Shift, TypeOK, FileTypeOK
<1>3. 1 \in 1 .. Len(saves) /\ 1 \in 0 .. Len(saves) /\ 0 \in Nat /\ 0 = 1 - 1 /\ 1 \in {0, 1}
  BY <1>2
<1>4. /\ op[r] = "cancelled" /\ saves[1].snapshot.op[r] = "cancelled" /\ KeptCancelled(r, 1)
  BY <1>2, <1>3 DEF CancelDurable, CancelSaved
<1>5. KeptCancelled(r, 0)' BY <1>1, <1>2, <1>3, <1>4, KeptCancelledStays
<1>6. CancelKept(r)' BY <1>1, <1>2, <1>4, <1>5 DEF CancelKept
<1>7. \A i \in 1 .. Len(saves') : saves'[i].by # w
  <2>1. \A i \in 1 .. Len(saves') :
            i \in 1 .. Len(saves) - 1 /\ i + 1 \in 1 .. Len(saves) /\ i + 1 # 1
    BY <1>2
  <2>2. QED BY <1>2, <1>3, <2>1 DEF CancelDurable, CancelOnce
<1>8. QED BY <1>6, <1>7 DEF CancelDurable, CancelSaved, CancelOnce

\* Only the registration of its stream takes a cancelled operation elsewhere.
LEMMA StreamStepCancel ==
    ASSUME TypeOK, NEW t \in Stream, StreamStep(t)
    PROVE  /\ cancelling' = cancelling /\ ackedCancel' = ackedCancel
           /\ \A r \in Request : op[r] = "cancelled" => op'[r] = "cancelled"
<1>1. ASSUME NEW status, Conclude(t, status)
      PROVE  /\ cancelling' = cancelling /\ ackedCancel' = ackedCancel
             /\ \A r \in Request : op[r] = "cancelled" => op'[r] = "cancelled"
  BY <1>1 DEF Conclude, Tracked, clientVars, TypeOK, StreamTypeOK
<1>2. CASE \/ AcquireTimesOut(t) \/ PrepareFails(t) \/ RetryTimesOut(t)
           \/ RetryPrepareFails(t) \/ RetrySessionFails(t)
           \/ \E status \in {"completed", "failed"} : EndExecution(t, status)
  <2>1. \E status : Conclude(t, status)
    BY <1>2 DEF AcquireTimesOut, PrepareFails, RetryTimesOut, RetryPrepareFails, RetrySessionFails,
                EndExecution
  <2>2. QED BY <1>1, <2>1
<1>3. CASE \/ StartStream(t) \/ StartExecution(t) \/ RetryExecution(t) \/ StoreLease(t)
           \/ RetryStored(t) \/ AcquireLane(t) \/ RetryAcquire(t) \/ RetryPrepared(t)
           \/ FinishStream(t) \/ CloseStream(t) \/ RejectedSave(t)
           \/ \E unavailable \in BOOLEAN : LaneFails(t, unavailable)
  BY <1>3 DEF StartStream, StartExecution, RetryExecution, StoreLease, RetryStored, AcquireLane,
              RetryAcquire, RetryPrepared, FinishStream, CloseStream, RejectedSave, LaneFails,
              opVars, clientVars
<1>4. QED BY <1>2, <1>3 DEF StreamStep

LEMMA StreamStepKeepsCancel ==
    ASSUME StateStore = "file", CancelInvariant, NEW t \in Stream, StreamStep(t), NEW r \in Request
    PROVE  CancelDurable(r)' /\ CancelPosted(r)'
<1>. USE DEF CancelInvariant, DurableInvariant
<1>1. Handles(t) BY StreamStepHandles
<1>2. CancelDurable(r)'
  <2>1. QueueStep(<<"stream", t>>) BY <1>1 DEF Handles
  <2>2. QED BY <2>1, StreamStepCancel, CancelStays
<1>3. CancelPosted(r)'
  BY <1>1, StreamStepCancel, StreamAssumption DEF CancelPosted, Handles, Registered
<1>4. QED BY <1>2, <1>3

LEMMA SpawnStepKeepsCancel ==
    ASSUME StateStore = "file", CancelInvariant, NEW t \in Stream, SpawnStep(t), NEW r \in Request
    PROVE  CancelDurable(r)' /\ CancelPosted(r)'
<1>. USE DEF CancelInvariant, DurableInvariant
<1>1. CancelPosted(r)'
  <2>1. /\ cancelling' = cancelling /\ \A s \in Stream \ {t} : pc'[s] = pc[s]
        /\ pc'[t] = "opening" => t \notin Refines \/ pc[t] = "opening"
        /\ pc'[t] \in {"absent", "planned"} => pc[t] \in {"absent", "planned"}
    BY DEF SpawnStep, PlanStream, PlanFails, OpenSession, RegisterStream, AckSpawn, ConsumeStream,
           opVars, streamVars, TypeOK, StreamTypeOK
  <2>2. QED BY <2>1, StreamAssumption DEF CancelPosted
<1>2. CASE RegisterStream(t) /\ t \in Refines /\ r = RequestOf[t]
  <2>1. pc[t] \in {"planned", "opening"} /\ ackedCancel' = ackedCancel \ {r}
    BY <1>2 DEF RegisterStream
  <2>2. pc[t] = "planned" /\ cancelling[r] = "none" BY <1>2, <2>1 DEF CancelPosted
  <2>3. Persist("spawn", t) BY <1>2, <2>2 DEF RegisterStream
  <2>4. QueueStep(<<"spawn", t>>) BY <2>3, PersistQueue DEF QueueStep
  <2>5. \A i \in 1 .. Len(saves) : saves[i].by # <<"cancel", r>>
    BY <2>2 DEF CancelDurable, CancelSaved
  <2>6. QED BY <1>1, <2>1, <2>4, <2>5, NoCancelStays
<1>3. CASE ~ (RegisterStream(t) /\ t \in Refines /\ r = RequestOf[t])
  <2>1. /\ cancelling' = cancelling
        /\ r \in ackedCancel' => r \in ackedCancel
        /\ op[r] = "cancelled" => op'[r] = "cancelled"
    <3>1. CASE RegisterStream(t)
      BY <1>3, <3>1, RequestAssumption DEF RegisterStream, TypeOK, StreamTypeOK
    <3>2. CASE ConsumeStream(t)
      BY <3>2 DEF ConsumeStream, Tracked, clientVars, TypeOK, StreamTypeOK
    <3>3. CASE ~RegisterStream(t) /\ ~ConsumeStream(t)
      BY <3>3 DEF SpawnStep, PlanStream, PlanFails, OpenSession, AckSpawn, opVars, clientVars
    <3>4. QED BY <3>1, <3>2, <3>3
  <2>2. QueueStep(<<"spawn", t>>) \/ QueueStep(<<"stream", t>>)
    <3>1. CASE RegisterStream(t)
      BY <3>1, PersistQueue, MovedQueue DEF RegisterStream, QueueStep
    <3>2. CASE OpenSession(t)
      BY <3>2, PersistQueue DEF OpenSession, QueueStep
    <3>3. CASE AckSpawn(t)
      BY <3>3, SavedQueue DEF AckSpawn, QueueStep
    <3>4. CASE ConsumeStream(t)
      BY <3>4, PersistQueue DEF ConsumeStream, QueueStep, Keeps, fileVars
    <3>5. CASE PlanFails(t) \/ \E preferred \in Lane \cup {NoLane} : PlanStream(t, preferred)
      BY <3>5 DEF PlanFails, PlanStream, QueueStep, Keeps, fileVars
    <3>6. QED BY <3>1, <3>2, <3>3, <3>4, <3>5 DEF SpawnStep
  <2>3. CancelDurable(r) /\ cancelling'[r] = cancelling[r] BY <2>1
  <2>4. CASE QueueStep(<<"spawn", t>>) BY <1>1, <2>1, <2>3, <2>4, CancelStays
  <2>5. CASE QueueStep(<<"stream", t>>) BY <1>1, <2>1, <2>3, <2>5, CancelStays
  <2>6. QED BY <2>2, <2>4, <2>5
<1>4. QED BY <1>2, <1>3

LEMMA CancelStepKeepsCancel ==
    ASSUME StateStore = "file", OnePostEach, CancelInvariant, NEW q \in Request, CancelStep(q),
           NEW r \in Request
    PROVE  CancelDurable(r)' /\ CancelPosted(r)'
<1>. USE DEF CancelInvariant, DurableInvariant
<1>1. pc' = pc /\ QueueStep(<<"cancel", q>>) BY CancelStepQueue
<1>2. /\ \A a \in Request \ {q} : cancelling'[a] = cancelling[a] /\ op'[a] = op[a]
      /\ \A a \in Request \ {q} : a \in ackedCancel' => a \in ackedCancel
  BY DEF CancelStep, BeginCancel, CancelRefused, CancelAccepted, AckCancel, clientVars,
         TypeOK, StreamTypeOK
<1>3. CASE r # q
  <2>1. CancelPosted(r)' BY <1>1, <1>2, <1>3 DEF CancelPosted
  <2>2. CancelDurable(r)' BY <1>1, <1>2, <1>3, CancelStays
  <2>3. QED BY <2>1, <2>2
<1>4. CASE r = q
  <2>1. CancelPosted(r)'
    <3>1. CASE BeginCancel(q)
      BY <1>1, <1>4, <3>1 DEF CancelPosted, BeginCancel, OnePostEach
    <3>2. CASE ~BeginCancel(q)
      <4>1. cancelling'[r] # "none" => cancelling[r] # "none"
        BY <1>4, <3>2 DEF CancelStep, CancelRefused, CancelAccepted, AckCancel, TypeOK
      <4>2. QED BY <1>1, <4>1 DEF CancelPosted
    <3>3. QED BY <3>1, <3>2
  <2>2. CASE BeginCancel(q) \/ CancelRefused(q)
    <3>1. /\ saves' = saves /\ disk' = disk /\ op' = op /\ ackedCancel' = ackedCancel
          /\ cancelling[r] # "saving"
      BY <1>4, <2>2 DEF BeginCancel, CancelRefused, fileVars, clientVars
    <3>2. \A i \in 1 .. Len(saves) : saves[i].by # <<"cancel", r>>
      BY <3>1 DEF CancelDurable, CancelSaved
    <3>3. CancelKept(r)' BY <3>1 DEF CancelDurable, CancelKept, KeptCancelled
    <3>4. QED BY <2>1, <3>1, <3>2, <3>3 DEF CancelDurable, CancelSaved, CancelOnce
  <2>3. CASE CancelAccepted(q) BY <1>4, <2>1, <2>3, CancelAcceptedDurable
  <2>4. CASE AckCancel(q) BY <1>4, <2>1, <2>4, AckCancelDurable
  <2>5. QED BY <2>2, <2>3, <2>4 DEF CancelStep
<1>5. QED BY <1>3, <1>4

\* A failed save and a restart leave the file, which has what was answered.
LEMMA FailuresKeepCancel ==
    ASSUME CancelInvariant, SaveFails \/ Restart, NEW r \in Request
    PROVE  CancelDurable(r)' /\ CancelPosted(r)'
<1>. USE DEF CancelInvariant, DurableInvariant
<1>1. saves' = <<>> /\ disk' = disk /\ ackedCancel' = ackedCancel /\ (op' = op \/ op' = disk.op)
  BY DEF SaveFails, Restart, clientVars
<1>2. CancelDurable(r)'
  <2>1. \A j \in 0 + 1 .. Len(saves') : FALSE BY <1>1
  <2>2. KeptCancelled(r, 0)' BY <2>1 DEF KeptCancelled
  <2>3. CancelKept(r)' BY <1>1, <2>2 DEF CancelDurable, CancelKept
  <2>4. CancelSaved(r)' /\ CancelOnce(r)' BY <1>1 DEF CancelSaved, CancelOnce
  <2>5. QED BY <2>3, <2>4 DEF CancelDurable
<1>3. CancelPosted(r)'
  <2>1. CASE SaveFails
    <3>1. \A s \in Refines : pc[s] # "opening" /\ pc'[s] = (IF pc[s] = "starting" THEN "wedged" ELSE pc[s])
      BY <2>1, StreamAssumption DEF SaveFails, CancelPosted
    <3>2. cancelling'[r] # "none" => cancelling[r] # "none" BY <2>1 DEF SaveFails
    <3>3. QED BY <3>1, <3>2 DEF CancelPosted
  <2>2. CASE Restart
    BY <2>2, StreamAssumption DEF Restart, CancelPosted
  <2>3. QED BY <2>1, <2>2
<1>4. QED BY <1>2, <1>3

LEMMA CancelInvariantStep ==
    StateStore = "file" /\ OnePostEach /\ CancelInvariant /\ [Next]_vars => CancelInvariant'
<1>. SUFFICES ASSUME StateStore = "file", OnePostEach, CancelInvariant, [Next]_vars
              PROVE  CancelInvariant'
  OBVIOUS
<1>1. DurableInvariant' BY DurableStep DEF CancelInvariant
<1>2. ASSUME NEW r \in Request PROVE CancelDurable(r)' /\ CancelPosted(r)'
  <2>1. ASSUME NEW t \in Stream, SpawnStep(t) PROVE CancelDurable(r)' /\ CancelPosted(r)'
    BY <2>1, SpawnStepKeepsCancel
  <2>2. ASSUME NEW t \in Stream, StreamStep(t) PROVE CancelDurable(r)' /\ CancelPosted(r)'
    BY <2>2, StreamStepKeepsCancel
  <2>3. ASSUME NEW q \in Request, CancelStep(q) PROVE CancelDurable(r)' /\ CancelPosted(r)'
    BY <2>3, CancelStepKeepsCancel
  <2>4. CASE SaveFails \/ Restart BY <2>4, FailuresKeepCancel
  <2>5. CASE UNCHANGED vars \/ \E l \in Lane, drain \in BOOLEAN : SetDrain(l, drain)
    <3>1. /\ pc' = pc /\ cancelling' = cancelling /\ op' = op /\ ackedCancel' = ackedCancel
          /\ saves' = saves /\ disk' = disk
      BY <2>5 DEF vars, SetDrain, streamVars, opVars, fileVars, clientVars
    <3>2. CancelDurable(r) /\ CancelPosted(r) BY DEF CancelInvariant
    <3>3. CancelPosted(r)' BY <3>1, <3>2 DEF CancelPosted
    <3>4. CancelDurable(r)'
      BY <3>1, <3>2 DEF CancelDurable, CancelKept, CancelSaved, CancelOnce, KeptCancelled
    <3>5. QED BY <3>3, <3>4
  <2>6. QED BY <2>1, <2>2, <2>3, <2>4, <2>5 DEF Next
<1>3. QED BY <1>1, <1>2 DEF CancelInvariant

LEMMA CancelInit == Init => CancelInvariant
<1>. SUFFICES ASSUME Init PROVE CancelInvariant
  OBVIOUS
<1>1. /\ saves = <<>> /\ ackedCancel = {} /\ pc = [s \in Stream |-> "absent"]
      /\ cancelling = [r \in Request |-> "none"]
  BY DEF Init
<1>2. \A r \in Request : CancelPosted(r) BY <1>1, StreamAssumption DEF CancelPosted
<1>3. \A r \in Request : CancelDurable(r)
  BY <1>1 DEF CancelDurable, CancelKept, CancelSaved, CancelOnce
<1>4. QED BY <1>2, <1>3, DurableInit DEF CancelInvariant

\* On a state file, with each refine request id posted once: the file and every
\* snapshot that follows the save of an answered cancel have the operation
\* cancelled (handleCancelAgents, updateRefineOperationForStream).
THEOREM CancelInvariantHolds == StateStore = "file" /\ OnePostEach => (Spec => []CancelInvariant)
<1>. SUFFICES ASSUME StateStore = "file", OnePostEach PROVE Spec => []CancelInvariant
  OBVIOUS
<1>1. CancelInvariant /\ [Next]_vars => CancelInvariant' BY CancelInvariantStep
<1>2. QED BY <1>1, CancelInit, PTL DEF Spec

\* On a state file, with each refine request id posted once, a refine whose cancel
\* was answered stays cancelled, whatever its runner, a failed save or a restart
\* does (handleCancelAgents, restoreState).
THEOREM AnsweredCancelsStick ==
    StateStore = "file" /\ OnePostEach => (Spec => []AckedCancelSticks)
<1>. SUFFICES ASSUME StateStore = "file", OnePostEach PROVE Spec => []AckedCancelSticks
  OBVIOUS
<1>1. CancelInvariant => AckedCancelSticks
  BY DEF CancelInvariant, DurableInvariant, CancelDurable, CancelKept, AckedCancelSticks, TypeOK
<1>2. QED BY <1>1, CancelInvariantHolds, PTL
=============================================================================
