--------------------------- MODULE RuntimeAdapter ---------------------------
(***************************************************************************)
(* The runtime adapter (apps/runtime-adapter/src/app.ts, stateStore.ts):   *)
(* spawn and refine requests register streams, each GET of a stream runs   *)
(* one execution on a leased lane, retries it on other lanes, and records  *)
(* the outcome of refine operations; every change is written, in order, to *)
(* a state file that a restarted process reads back.                       *)
(*                                                                         *)
(* JavaScript runs one handler at a time between two awaits: an action is  *)
(* one such segment.  pc[s] names the await the handler of stream s is at. *)
(* A handler that awaits its own save resumes in the step in which that    *)
(* save completes, since promise callbacks run before any other event.     *)
(***************************************************************************)
EXTENDS RuntimeLane, Sequences

CONSTANTS
    Stream,             \* stream ids (each has its execute agent id)
    Refines,            \* the streams posted to /v1/agents/refine
    Request,            \* refine request ids
    RequestOf,          \* refine stream -> its request id
    LaneRetryAttempts,  \* laneRetryAttempts option
    StateStore,         \* "file", or "noop" when no state file is configured
    MkdirMayFail,       \* whether a workspace directory may fail to be created
    SaveMayFail,        \* whether writing the state file may fail
    MaxRestarts         \* bound: process exits followed by a restart

ASSUME StreamAssumption == IsFiniteSet(Stream) /\ Refines \subseteq Stream
ASSUME RequestAssumption == RequestOf \in [Refines -> Request]
ASSUME OptionsAssumption ==
    /\ LaneRetryAttempts \in Nat
    /\ StateStore \in {"file", "noop"}
    /\ MkdirMayFail \in BOOLEAN
    /\ SaveMayFail \in BOOLEAN
    /\ MaxRestarts \in Nat

VARIABLES
    pc,            \* stream -> where its handler is
    lane,          \* stream -> runtimeLaneId
    lease,         \* stream -> runtimeLeaseId: none, one of this process, or a restored one
    leasePending,  \* stream -> runtimeLeasePending
    retryLane,     \* stream -> lane of the lease acquired for a retry, before it is stored
    attempted,     \* stream -> lanes given up by executeWithLaneRetry
    op,            \* request -> status of its refine operation
    cancelling,    \* request -> where its cancel handler is
    saves,         \* persistQueue: snapshots taken and not yet written
    disk,          \* the state file
    process,       \* "running", "poisoned" after a failed save, or "exited"
    restarts,      \* restarts so far
    acked,         \* streams whose POST was answered
    ackedCancel    \* requests whose cancel was answered as done

streamVars == <<pc, lane, lease, leasePending, retryLane, attempted>>
opVars == <<op, cancelling>>
fileVars == <<saves, disk, process, restarts>>
clientVars == <<acked, ackedCancel>>
vars == <<laneVars, streamVars, opVars, fileVars, clientVars>>

-----------------------------------------------------------------------------
Location == {"absent", "planned", "opening", "idle", "starting", "acquiring", "preparing",
             "leasing", "executing", "retryAcquiring", "retryPreparing",
             "retrySession", "retrySaving", "finishing", "closing", "closed", "wedged"}

OpStatus == {"none", "queued", "running", "completed", "failed", "cancelled"}

\* The streams in the adapter's streams map.
Registered == {s \in Stream : pc[s] \notin {"absent", "planned", "opening", "closing", "closed"}}

\* Inside handleStream's try block: the response head is already sent.
Streaming == {s \in Stream : pc[s] \in
    {"acquiring", "preparing", "leasing", "executing", "retryAcquiring",
     "retryPreparing", "retrySession", "retrySaving", "finishing", "closing"}}

SnapshotSet ==
    {snap \in [registered : SUBSET Stream, lane : [Stream -> Lane \cup {NoLane}],
               leased : SUBSET Stream, op : [Request -> OpStatus]] :
        /\ snap.leased \subseteq snap.registered
        /\ \A s \in snap.registered : snap.lane[s] \in Lane}

EmptySnapshot ==
    [registered |-> {}, lane |-> [s \in Stream |-> NoLane], leased |-> {},
     op |-> [r \in Request |-> "none"]]

\* What persistState writes; the file store drops runtimeLeasePending, the
\* noop store drops everything.
Snapshot ==
    IF StateStore = "noop" THEN EmptySnapshot
    ELSE [registered |-> Registered,
          lane |-> [s \in Stream |-> IF s \in Registered THEN lane[s] ELSE NoLane],
          leased |-> {s \in Registered : lease[s] # "none"},
          op |-> op]

HandlerSet == ({"spawn", "stream"} \X Stream) \cup ({"cancel"} \X Request)

StreamTypeOK ==
    /\ pc \in [Stream -> Location]
    /\ lane \in [Stream -> Lane \cup {NoLane}]
    /\ lease \in [Stream -> {"none", "live", "stale"}]
    /\ leasePending \in [Stream -> BOOLEAN]
    /\ retryLane \in [Stream -> Lane \cup {NoLane}]
    /\ attempted \in [Stream -> SUBSET Lane]
    /\ op \in [Request -> OpStatus]
    /\ \A s \in Stream :
        /\ pc[s] \notin {"absent", "closing", "closed"} => lane[s] \in Lane
        /\ pc[s] = "retryPreparing" => retryLane[s] \in Lane

FileTypeOK ==
    /\ saves \in Seq([by : HandlerSet, snapshot : SnapshotSet])
    /\ disk \in SnapshotSet
    /\ process \in {"running", "poisoned", "exited"}
    /\ restarts \in 0 .. MaxRestarts

TypeOK ==
    /\ LaneTypeOK /\ StreamTypeOK /\ FileTypeOK
    /\ cancelling \in [Request -> {"none", "calling", "saving"}]
    /\ acked \subseteq Stream
    /\ ackedCancel \subseteq Request

Init ==
    /\ LaneInit
    /\ pc = [s \in Stream |-> "absent"]
    /\ lane = [s \in Stream |-> NoLane]
    /\ lease = [s \in Stream |-> "none"]
    /\ leasePending = [s \in Stream |-> FALSE]
    /\ retryLane = [s \in Stream |-> NoLane]
    /\ attempted = [s \in Stream |-> {}]
    /\ op = [r \in Request |-> "none"]
    /\ cancelling = [r \in Request |-> "none"]
    /\ saves = <<>>
    /\ disk = EmptySnapshot
    /\ process = "running"
    /\ restarts = 0
    /\ acked = {}
    /\ ackedCancel = {}

-----------------------------------------------------------------------------
(* persistState: the snapshot is taken now and written after all earlier   *)
(* ones.  Once a save has failed the queue rejects every later one.  (In an  *)
(* action it comes last: the snapshot reads the primed state.)              *)

Persist(kind, id) ==
    /\ saves' = IF process = "running"
                THEN Append(saves, [by |-> <<kind, id>>, snapshot |-> Snapshot'])
                ELSE saves
    /\ UNCHANGED <<disk, process, restarts>>

\* A segment of a stream handler past its response head that ends in a save.
\* With a poisoned queue it cannot complete: see RejectedSave.
PersistStream(s) == process = "running" /\ Persist("stream", s)

Written(kind, id) ==
    /\ saves # <<>>
    /\ Head(saves).by = <<kind, id>>
    /\ disk' = IF StateStore = "file" THEN Head(saves).snapshot ELSE disk

\* The handler's save completes, and the handler goes on without a new save.
Saved(kind, id) ==
    /\ Written(kind, id)
    /\ saves' = Tail(saves)
    /\ UNCHANGED <<process, restarts>>

\* The handler's save completes, and its next segment saves again.
SavedAndPersist(kind, id) ==
    /\ Written(kind, id)
    /\ saves' = Append(Tail(saves), [by |-> <<kind, id>>, snapshot |-> Snapshot'])
    /\ UNCHANGED <<process, restarts>>

-----------------------------------------------------------------------------
(* handleSpawnAgent *)

\* Plan a lane for a new stream, then await its workspace and its session.
PlanStream(s, preferred) ==
    /\ pc[s] = "absent"
    /\ preferred # NoLane => s \in Refines
    /\ \E l \in Lane :
        /\ Plan(preferred, l)
        /\ lane' = [lane EXCEPT ![s] = l]
    /\ pc' = [pc EXCEPT ![s] = "planned"]
    /\ UNCHANGED <<lease, leasePending, retryLane, attempted, opVars, fileVars, clientVars>>

\* The workspace or the runtime session could not be created.
PlanFails(s) ==
    /\ pc[s] = "planned"
    /\ pc' = [pc EXCEPT ![s] = "absent"]
    /\ lane' = [lane EXCEPT ![s] = NoLane]
    /\ UNCHANGED <<laneVars, lease, leasePending, retryLane, attempted, opVars, fileVars, clientVars>>

\* A spawn without a runtime session creates one and saves the session map.
OpenSession(s) ==
    /\ pc[s] = "planned"
    /\ s \notin Refines
    /\ process = "running"
    /\ pc' = [pc EXCEPT ![s] = "opening"]
    /\ UNCHANGED <<laneVars, lane, lease, leasePending, retryLane, attempted, opVars, clientVars>>
    /\ Persist("spawn", s)

RegisterStream(s) ==
    /\ pc[s] \in {"planned", "opening"}
    /\ pc' = [pc EXCEPT ![s] = "idle"]
    /\ leasePending' = [leasePending EXCEPT ![s] = TRUE]
    /\ op' = IF s \in Refines THEN [op EXCEPT ![RequestOf[s]] = "queued"] ELSE op
    /\ acked' = acked \ {s}
    /\ ackedCancel' = IF s \in Refines THEN ackedCancel \ {RequestOf[s]} ELSE ackedCancel
    /\ UNCHANGED <<laneVars, lane, lease, retryLane, attempted, cancelling>>
    /\ IF pc[s] = "opening" THEN SavedAndPersist("spawn", s) ELSE Persist("spawn", s)

\* Mutant: the POST is answered without waiting for the save.
AckSpawnUnsaved(s) ==
    /\ pc[s] = "idle"
    /\ acked' = acked \cup {s}
    /\ UNCHANGED <<laneVars, streamVars, opVars, fileVars, ackedCancel>>

AckSpawn(s) ==
    /\ pc[s] # "opening"
    /\ Saved("spawn", s)
    /\ acked' = acked \cup {s}
    /\ UNCHANGED <<laneVars, streamVars, opVars, ackedCancel>>

-----------------------------------------------------------------------------
(* handleStream, up to the execution *)

\* Mutant: a cancelled operation is still updated by its runner.
TrackedWhenCancelled(s) == s \in Refines /\ op[RequestOf[s]] # "none"

\* A refine stream whose operation can still change: the early returns of
\* updateRefineOperationForStream.
Tracked(s) == s \in Refines /\ op[RequestOf[s]] \notin {"none", "cancelled"}

\* The stream is looked up by its id, known once its POST is answered, or, for
\* a refine, by the request id; waitStarted is every location past "idle".
ConsumeStream(s) ==
    /\ pc[s] = "idle"
    /\ s \in acked \cup Refines
    /\ IF Tracked(s)
       THEN /\ op' = [op EXCEPT ![RequestOf[s]] = "running"]
            /\ pc' = [pc EXCEPT ![s] = IF process = "running" THEN "starting" ELSE "wedged"]
       ELSE /\ pc' = [pc EXCEPT ![s] = "acquiring"]
            /\ UNCHANGED op
    /\ UNCHANGED <<laneVars, lane, lease, leasePending, retryLane, attempted, cancelling, clientVars>>
    /\ IF Tracked(s) THEN Persist("stream", s) ELSE UNCHANGED fileVars

StartStream(s) ==
    /\ pc[s] = "starting"
    /\ Saved("stream", s)
    /\ pc' = [pc EXCEPT ![s] = "acquiring"]
    /\ UNCHANGED <<laneVars, lane, lease, leasePending, retryLane, attempted, opVars, clientVars>>

AcquireLane(s) ==
    /\ pc[s] = "acquiring"
    /\ AcquirePreferred(lane[s], leasePending[s])
    /\ lease' = [lease EXCEPT ![s] = "live"]
    /\ leasePending' = [leasePending EXCEPT ![s] = FALSE]
    /\ pc' = [pc EXCEPT ![s] = "preparing"]
    /\ UNCHANGED <<lane, retryLane, attempted, opVars, fileVars, clientVars>>

\* The workspace exists on the leased lane; the lease is saved.
StoreLease(s) ==
    /\ pc[s] = "preparing"
    /\ pc' = [pc EXCEPT ![s] = "leasing"]
    /\ UNCHANGED <<laneVars, lane, lease, leasePending, retryLane, attempted, opVars, clientVars>>
    /\ PersistStream(s)

StartExecution(s) ==
    /\ pc[s] = "leasing"
    /\ Saved("stream", s)
    /\ pc' = [pc EXCEPT ![s] = "executing"]
    /\ UNCHANGED <<laneVars, lane, lease, leasePending, retryLane, attempted, opVars, clientVars>>

-----------------------------------------------------------------------------
(* handleStream, the end *)

\* The finally block: release the lane of whatever lease the stream carries,
\* live or restored, and drop the stream.  Its save follows.
DropStream(s) ==
    /\ inflight' = IF lease[s] # "none" THEN Released(lane[s]) ELSE inflight
    /\ pc' = [pc EXCEPT ![s] = "closing"]
    /\ lane' = [lane EXCEPT ![s] = NoLane]
    /\ lease' = [lease EXCEPT ![s] = "none"]
    /\ leasePending' = [leasePending EXCEPT ![s] = FALSE]
    /\ retryLane' = [retryLane EXCEPT ![s] = NoLane]
    /\ attempted' = [attempted EXCEPT ![s] = {}]
    /\ UNCHANGED <<laneStatus, selectionCursor>>

\* The outcome is known: a tracked operation is updated and saved first.
Conclude(s, status) ==
    /\ IF Tracked(s)
       THEN /\ op' = [op EXCEPT ![RequestOf[s]] = status]
            /\ pc' = [pc EXCEPT ![s] = "finishing"]
            /\ UNCHANGED <<laneVars, lane, lease, leasePending, retryLane, attempted>>
       ELSE /\ DropStream(s)
            /\ UNCHANGED op
    /\ UNCHANGED <<cancelling, clientVars>>
    /\ PersistStream(s)

\* Mutant: the polling of a lane has no deadline.
PollForever(s) == pc[s] = "acquiring" /\ FALSE /\ UNCHANGED vars

\* No lease before laneAcquireTimeoutMs; the last attempt failed.
AcquireTimesOut(s) ==
    /\ pc[s] = "acquiring"
    /\ SelectPreferredLane(lane[s], FALSE, leasePending[s]) = {}
    /\ Conclude(s, "failed")

PrepareFails(s) ==
    /\ MkdirMayFail
    /\ pc[s] = "preparing"
    /\ Conclude(s, "failed")

\* The runtime answered with a readable artifact, or with anything that is
\* not retried: drift, no artifact, an unsuccessful refine, a client error.
EndExecution(s, status) ==
    /\ pc[s] = "executing"
    /\ Conclude(s, status)

FinishStream(s) ==
    /\ pc[s] = "finishing"
    /\ DropStream(s)
    /\ UNCHANGED <<opVars, clientVars>>
    /\ SavedAndPersist("stream", s)

CloseStream(s) ==
    /\ pc[s] = "closing"
    /\ Saved("stream", s)
    /\ pc' = [pc EXCEPT ![s] = "closed"]
    /\ UNCHANGED <<laneVars, lane, lease, leasePending, retryLane, attempted, opVars, clientVars>>

-----------------------------------------------------------------------------
(* executeWithLaneRetry: only spawned streams switch lanes *)

\* Mutant: the released lease is not cleared from the stream.
LaneFailsLeaseKept(s, unavailable) ==
    /\ pc[s] = "executing"
    /\ s \notin Refines
    /\ Cardinality(attempted[s]) < LaneRetryAttempts
    /\ laneStatus' = IF unavailable THEN Marked(lane[s], "unavailable") ELSE laneStatus
    /\ inflight' = IF lease[s] # "none" THEN Released(lane[s]) ELSE inflight
    /\ attempted' = [attempted EXCEPT ![s] = @ \cup {lane[s]}]
    /\ pc' = [pc EXCEPT ![s] = "retryAcquiring"]
    /\ UNCHANGED <<selectionCursor, lane, lease, leasePending, retryLane, opVars, fileVars, clientVars>>

\* The execution failed in a way worth another lane.  A transport failure also
\* marks the lane unavailable; an unsuccessful execution does not.
LaneFails(s, unavailable) ==
    /\ pc[s] = "executing"
    /\ s \notin Refines
    /\ Cardinality(attempted[s]) < LaneRetryAttempts
    /\ laneStatus' = IF unavailable THEN Marked(lane[s], "unavailable") ELSE laneStatus
    /\ inflight' = IF lease[s] # "none" THEN Released(lane[s]) ELSE inflight
    /\ lease' = [lease EXCEPT ![s] = "none"]
    /\ attempted' = [attempted EXCEPT ![s] = @ \cup {lane[s]}]
    /\ pc' = [pc EXCEPT ![s] = "retryAcquiring"]
    /\ UNCHANGED <<selectionCursor, lane, leasePending, retryLane, opVars, fileVars, clientVars>>

RetryAcquire(s) ==
    /\ pc[s] = "retryAcquiring"
    /\ \E l \in Lane :
        /\ AcquireExcluding(attempted[s], l)
        /\ retryLane' = [retryLane EXCEPT ![s] = l]
    /\ pc' = [pc EXCEPT ![s] = "retryPreparing"]
    /\ UNCHANGED <<lane, lease, leasePending, attempted, opVars, fileVars, clientVars>>

RetryTimesOut(s) ==
    /\ pc[s] = "retryAcquiring"
    /\ SelectLane(attempted[s], FALSE) = {}
    /\ Conclude(s, "failed")

\* Only once the new lane's workspace exists does the stream carry the lease.
RetryPrepared(s) ==
    /\ pc[s] = "retryPreparing"
    /\ lane' = [lane EXCEPT ![s] = retryLane[s]]
    /\ lease' = [lease EXCEPT ![s] = "live"]
    /\ retryLane' = [retryLane EXCEPT ![s] = NoLane]
    /\ pc' = [pc EXCEPT ![s] = "retrySession"]
    /\ UNCHANGED <<laneVars, leasePending, attempted, opVars, fileVars, clientVars>>

RetryPrepareFails(s) ==
    /\ MkdirMayFail
    /\ pc[s] = "retryPreparing"
    /\ Conclude(s, "failed")

\* The new lane's backend created the retry session.
RetryStored(s) ==
    /\ pc[s] = "retrySession"
    /\ pc' = [pc EXCEPT ![s] = "retrySaving"]
    /\ UNCHANGED <<laneVars, lane, lease, leasePending, retryLane, attempted, opVars, clientVars>>
    /\ PersistStream(s)

RetrySessionFails(s) ==
    /\ pc[s] = "retrySession"
    /\ Conclude(s, "failed")

RetryExecution(s) ==
    /\ pc[s] = "retrySaving"
    /\ Saved("stream", s)
    /\ pc' = [pc EXCEPT ![s] = "executing"]
    /\ UNCHANGED <<laneVars, lane, lease, leasePending, retryLane, attempted, opVars, clientVars>>

-----------------------------------------------------------------------------
(* handleCancelAgents, for the streams of one refine request *)

BeginCancel(r) ==
    /\ cancelling[r] = "none"
    /\ \E s \in Refines : RequestOf[s] = r /\ pc[s] \notin {"absent", "planned"}
    /\ cancelling' = [cancelling EXCEPT ![r] = "calling"]
    /\ UNCHANGED <<laneVars, streamVars, op, fileVars, clientVars>>

CancelRefused(r) ==
    /\ cancelling[r] = "calling"
    /\ cancelling' = [cancelling EXCEPT ![r] = "none"]
    /\ UNCHANGED <<laneVars, streamVars, op, fileVars, clientVars>>

\* The backend accepted: the operation is overwritten, whatever its status.
CancelAccepted(r) ==
    /\ cancelling[r] = "calling"
    /\ op[r] # "none"
    /\ op' = [op EXCEPT ![r] = "cancelled"]
    /\ cancelling' = [cancelling EXCEPT ![r] = IF process = "running" THEN "saving" ELSE "none"]
    /\ UNCHANGED <<laneVars, streamVars, clientVars>>
    /\ Persist("cancel", r)

AckCancel(r) ==
    /\ Saved("cancel", r)
    /\ cancelling' = [cancelling EXCEPT ![r] = "none"]
    /\ ackedCancel' = ackedCancel \cup {r}
    /\ UNCHANGED <<laneVars, streamVars, op, acked>>

-----------------------------------------------------------------------------
(* Administration, failures, restart *)

SetDrain(l, drain) ==
    /\ laneStatus' = Marked(l, IF drain THEN "draining" ELSE "healthy")
    /\ UNCHANGED <<inflight, selectionCursor, streamVars, opVars, fileVars, clientVars>>

Waiting(kind) == {i \in DOMAIN saves : saves[i].by[1] = kind}

\* One write fails: its promise and every later one reject.  A stream handler
\* past its response head cannot report that, so the rejection goes unhandled
\* and ends the process; a handler before it leaves its stream consumed, and a
\* spawn that was saving its session is refused.
SaveFails ==
    /\ SaveMayFail
    /\ process = "running"
    /\ saves # <<>>
    /\ process' = IF \E i \in Waiting("stream") : saves[i].by[2] \in Streaming
                  THEN "exited" ELSE "poisoned"
    /\ pc' = [s \in Stream |-> IF pc[s] = "starting" THEN "wedged"
                               ELSE IF pc[s] = "opening" THEN "absent" ELSE pc[s]]
    /\ lane' = [s \in Stream |-> IF pc[s] = "opening" THEN NoLane ELSE lane[s]]
    /\ cancelling' = [r \in Request |-> IF cancelling[r] = "saving" THEN "none" ELSE cancelling[r]]
    /\ saves' = <<>>
    /\ UNCHANGED <<laneVars, lease, leasePending, retryLane, attempted, op, disk, restarts, clientVars>>

\* A stream handler reaches a save on a poisoned queue, with the same effect.
RejectedSave(s) ==
    /\ process = "poisoned"
    /\ \/ pc[s] \in {"preparing", "executing", "retrySession"}
       \/ pc[s] = "acquiring" /\ SelectPreferredLane(lane[s], FALSE, leasePending[s]) = {}
       \/ pc[s] = "retryAcquiring" /\ SelectLane(attempted[s], FALSE) = {}
    /\ process' = "exited"
    /\ UNCHANGED <<laneVars, streamVars, opVars, saves, disk, restarts, clientVars>>

\* The process stops, at any point, and a new one restores the state file:
\* streams become consumable again and keep the lease they were saved with,
\* the registry starts from the configuration.
Restart ==
    /\ restarts < MaxRestarts
    /\ restarts' = restarts + 1
    /\ process' = "running"
    /\ inflight' = [l \in Lane |-> 0]
    /\ laneStatus' = [l \in Lane |-> "healthy"]
    /\ selectionCursor' = 0
    /\ pc' = [s \in Stream |-> IF s \in disk.registered THEN "idle"
                               ELSE IF pc[s] = "closed" THEN "closed" ELSE "absent"]
    /\ lane' = disk.lane
    /\ lease' = [s \in Stream |-> IF s \in disk.leased THEN "stale" ELSE "none"]
    /\ leasePending' = [s \in Stream |-> FALSE]
    /\ retryLane' = [s \in Stream |-> NoLane]
    /\ attempted' = [s \in Stream |-> {}]
    /\ op' = disk.op
    /\ cancelling' = [r \in Request |-> "none"]
    /\ saves' = <<>>
    /\ UNCHANGED <<disk, clientVars>>

-----------------------------------------------------------------------------
\* The segments a consumed stream's handler is scheduled for.
StreamStep(s) ==
    \/ StartStream(s) \/ AcquireLane(s) \/ AcquireTimesOut(s)
    \/ StoreLease(s) \/ PrepareFails(s) \/ StartExecution(s)
    \/ \E status \in {"completed", "failed"} : EndExecution(s, status)
    \/ \E unavailable \in BOOLEAN : LaneFails(s, unavailable)
    \/ RetryAcquire(s) \/ RetryTimesOut(s) \/ RetryPrepared(s) \/ RetryPrepareFails(s)
    \/ RetryStored(s) \/ RetrySessionFails(s) \/ RetryExecution(s)
    \/ FinishStream(s) \/ CloseStream(s) \/ RejectedSave(s)

SpawnStep(s) ==
    \/ \E preferred \in Lane \cup {NoLane} : PlanStream(s, preferred)
    \/ PlanFails(s) \/ OpenSession(s) \/ RegisterStream(s) \/ AckSpawn(s) \/ ConsumeStream(s)

CancelStep(r) == BeginCancel(r) \/ CancelRefused(r) \/ CancelAccepted(r) \/ AckCancel(r)

Next ==
    \/ /\ process # "exited"
       /\ \/ \E s \in Stream : SpawnStep(s) \/ StreamStep(s)
          \/ \E r \in Request : CancelStep(r)
          \/ \E l \in Lane, drain \in BOOLEAN : SetDrain(l, drain)
          \/ SaveFails
    \/ Restart

Spec == Init /\ [][Next]_vars

(***************************************************************************)
(* Fairness: an event whose await is over is eventually dispatched.  A     *)
(* lane is polled until a deadline and an execution is cut by the watchdog *)
(* (nexusClient.ts), so both end; clients owe nothing.                     *)
(***************************************************************************)
SpawnSaved(s) == (pc[s] = "opening" /\ RegisterStream(s)) \/ AckSpawn(s)

Up(A) == process # "exited" /\ A

FairSpec ==
    /\ Spec
    /\ \A s \in Stream : WF_vars(Up(StreamStep(s))) /\ WF_vars(Up(SpawnSaved(s)))
    /\ \A r \in Request : WF_vars(Up(AckCancel(r)))

-----------------------------------------------------------------------------
(* Properties *)

\* The lane on which stream s occupies a slot: that of its live lease, or of
\* the lease its retry has acquired and not stored yet.
SlotOf(s) ==
    IF pc[s] = "retryPreparing" THEN retryLane[s]
    ELSE IF lease[s] = "live" THEN lane[s] ELSE NoLane

Slot == [s \in Stream |-> SlotOf(s)]

Holders(l) == {s \in Stream : SlotOf(s) = l}

ExecutingOn(l) == {s \in Stream : pc[s] = "executing" /\ lane[s] = l}

\* A lane never executes more streams at once than its maxConcurrent, across
\* concurrent handlers, lane switches, timeouts and releases.
CapacityRespected == \A l \in Lane : Cardinality(ExecutingOn(l)) <= MaxConcurrent[l]

\* The registry's counter, which no lease is checked against, equals the
\* number of streams really holding a slot: nothing released twice or lost.
SlotAccounting == \A l \in Lane : inflight[l] = Cardinality(Holders(l))

\* The inductive invariant behind the two: which locations carry a lease of
\* this process, and that no counter is below the number of slots held while
\* no lease of an earlier process can be around.
LeasePhases ==
    \A s \in Stream :
        /\ pc[s] \in {"preparing", "leasing", "executing", "retrySession", "retrySaving"}
             => lease[s] = "live"
        /\ pc[s] \in {"absent", "planned", "opening", "retryAcquiring", "retryPreparing",
                       "closing", "closed"}
             => lease[s] = "none"
        /\ pc[s] \in {"idle", "starting", "acquiring", "wedged"} => lease[s] # "live"

LeasesTrusted == restarts = 0 \/ StateStore = "noop"

NoStaleLeases ==
    /\ StateStore = "noop" => disk = EmptySnapshot
    /\ LeasesTrusted => \A s \in Stream : lease[s] # "stale"

SlotsCounted ==
    LeasesTrusted =>
        \A l \in Lane :
            /\ Cardinality(Holders(l)) <= inflight[l]
            /\ ~MkdirMayFail => Cardinality(Holders(l)) = inflight[l]

LeaseInvariant == TypeOK /\ LeasePhases /\ NoStaleLeases /\ SlotsCounted

\* A stream whose spawn was answered is in the state file until its handler
\* has dropped it: no restart, concurrent save or failed save forgets it.
AckedStreamsDurable ==
    \A s \in acked : s \in disk.registered \/ pc[s] \in {"closing", "closed"}

\* Once a client was told that a refine is cancelled, neither its runner's
\* late outcome nor a restart brings it back.  It rests on each request id being
\* posted once, as apps/api does: a second post of the id restores "queued".
AckedCancelSticks == \A r \in ackedCancel : op[r] = "cancelled"

\* A stream that is being served reaches its end and leaves the adapter.
ConsumedStreamsClose ==
    \A s \in Stream : (s \in Streaming \/ pc[s] = "starting") ~> (pc[s] = "closed")

\* The adapter's leases implement the semaphore its scheduler design promises:
\* slots are granted within capacity, held on one lane and given back once.
SlotPool == INSTANCE LeasePool WITH
    Holder <- Stream, SlotLane <- Lane, Slots <- MaxConcurrent, Nowhere <- NoLane,
    held <- Slot

ImplementsLeasePool == SlotPool!Spec
=============================================================================
