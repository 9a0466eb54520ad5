-------------------------- MODULE RefineOperations --------------------------
(***************************************************************************)
(* Refine operations of one variation (apps/api/src/service.ts): the       *)
(* handler that runs a refine, the handler that cancels it, and the        *)
(* reconciler that takes over operations nobody finishes.  All three keep  *)
(* a copy of the operation's row across awaits and write whole rows back,  *)
(* so a write can undo what another handler stored in between.             *)
(*                                                                         *)
(* A process is a refine handler (named by its request), a cancel handler  *)
(* or a reconciler; pc[p] is the await it is at and an action is the code  *)
(* up to the next one.  Every store call is one step.  The variation is    *)
(* completed before it is refined, and its artifacts are numbered in the   *)
(* order of their versions.  The runtime behind the gateway is reduced to  *)
(* what its HTTP answers show; module RuntimeAdapter models its inside.    *)
(***************************************************************************)
EXTENDS Naturals, Sequences

CONSTANTS
    Request,        \* refine request ids
    Canceller,      \* cancel handlers that may run at the same time
    Reconciler,     \* reconciler owner ids
    None,           \* no process, no request
    Store,          \* "memory" (InMemoryStore) or "postgres" (PostgresRepository)
    AnyBase,        \* whether a refine may start from an artifact that is not current
    EarlyCancel,    \* whether a cancel may arrive before the operation is running
    SlowRefines,    \* whether a live operation may stay unwritten for orphanAfterMs
    MaxCancels,     \* bound: cancel requests
    MaxCrashes      \* bound: processes lost in the middle of their work

ASSUME StoreAssumption == Store \in {"memory", "postgres"}
ASSUME SwitchAssumption == {AnyBase, EarlyCancel, SlowRefines} \subseteq BOOLEAN
ASSUME BoundAssumption == MaxCancels \in Nat /\ MaxCrashes \in Nat
ASSUME ProcessAssumption ==
    /\ Request \cap Canceller = {}
    /\ (Request \cup Canceller) \cap Reconciler = {}
    /\ None \notin Request \cup Canceller \cup Reconciler

VARIABLES
    op,         \* request -> its row: status, cancelRequested, cancellationRecorded
    aged,       \* request -> its updatedAt is orphanAfterMs ago
    lease,      \* request -> reconcileOwner, or None
    base,       \* request -> baseArtifactId
    submitted,  \* the requests in the order of createdAt
    artifacts,  \* artifact ids in version order: the runtime artifact and its content
    current,    \* currentArtifactId of the variation
    pc,         \* process -> the await it is at
    req,        \* process -> the request it works on
    copy,       \* process -> its copy of that request's row
    event,      \* process -> the terminal event it is applying
    gateway,    \* request -> activeRefines entry: "none", "pending" (no agent yet), "ready"
    intent,     \* request -> cancelRequested of that entry
    rt,         \* request -> status of the runtime's refine operation
    run,        \* request -> its execution in the runtime
    acked,      \* requests whose cancel was answered "cancelled"
    caught,     \* requests whose handler is or was in its catch clause
    cancels, crashes

rowVars == <<op, aged, lease, base, submitted>>
artifactVars == <<artifacts, current>>
processVars == <<pc, req, copy, event>>
runtimeVars == <<gateway, intent, rt, run>>
clientVars == <<acked, caught, cancels>>
vars == <<rowVars, artifactVars, processVars, runtimeVars, clientVars, crashes>>

-----------------------------------------------------------------------------
Process == Request \cup Canceller \cup Reconciler
Outcome == {"changed", "unchanged", "failed"}
Active == {"starting", "running", "cancelling"}
Row == [status : Active \cup {"absent", "completed", "failed", "cancelled"},
        cancelRequested : BOOLEAN, recorded : BOOLEAN]
NoRow == [status |-> "absent", cancelRequested |-> FALSE, recorded |-> FALSE]
ArtifactSet == [of : Request \cup {None}, content : Request \cup {None}]

Location ==
    {"idle", "created", "opening", "creating", "dropping", "consuming", "waiting", "received",
     "applying", "ending", "judging", "reverting", "catching", "completing", "failing",
     "confirming", "restoring", "recording", "marking", "asking", "accepted", "refused", "refusing",
     "reading", "recovering", "following", "adopting", "rereading", "finalizing", "verifying"}

TypeOK ==
    /\ op \in [Request -> Row] /\ aged \in [Request -> BOOLEAN]
    /\ lease \in [Request -> Reconciler \cup {None}]
    /\ submitted \in Seq(Request) /\ artifacts \in Seq(ArtifactSet)
    /\ base \in [Request -> DOMAIN artifacts] /\ current \in DOMAIN artifacts
    /\ pc \in [Process -> Location] /\ req \in [Process -> Request \cup {None}]
    /\ copy \in [Process -> Row] /\ event \in [Process -> Outcome \cup {"none"}]
    /\ gateway \in [Request -> {"none", "pending", "ready"}] /\ intent \in [Request -> BOOLEAN]
    /\ rt \in [Request -> {"not_found", "queued", "running", "completed", "failed", "cancelled"}]
    /\ run \in [Request -> Outcome \cup {"unread", "executing"}]
    /\ acked \subseteq Request /\ caught \subseteq Request
    /\ cancels \in 0 .. MaxCancels /\ crashes \in 0 .. MaxCrashes

Init ==
    /\ op = [r \in Request |-> NoRow] /\ aged = [r \in Request |-> FALSE]
    /\ lease = [r \in Request |-> None] /\ base = [r \in Request |-> 1]
    /\ submitted = <<>>
    /\ artifacts = <<[of |-> None, content |-> None]>> /\ current = 1
    /\ pc = [p \in Process |-> "idle"] /\ req = [p \in Process |-> None]
    /\ copy = [p \in Process |-> NoRow] /\ event = [p \in Process |-> "none"]
    /\ gateway = [r \in Request |-> "none"] /\ intent = [r \in Request |-> FALSE]
    /\ rt = [r \in Request |-> "not_found"] /\ run = [r \in Request |-> "unread"]
    /\ acked = {} /\ caught = {} /\ cancels = 0 /\ crashes = 0

-----------------------------------------------------------------------------
(* The store.                                                              *)

IsActive(r) == op[r].status \in Active

\* The unique partial index refuses a second active row for the variation.
Refused(r, row) ==
    Store = "postgres" /\ row.status \in Active /\ \E q \in Request \ {r} : IsActive(q)

\* Process p writes the whole row: its copy with some fields changed.
Save(p, row) ==
    /\ op' = [op EXCEPT ![req[p]] = row]
    /\ aged' = [aged EXCEPT ![req[p]] = FALSE]

Keep(p, row) == copy' = [copy EXCEPT ![p] = row]

WithStatus(p, status) == [copy[p] EXCEPT !.status = status]

Refresh(p) == Keep(p, op[req[p]])

Goto(p, place) == pc' = [pc EXCEPT ![p] = place]

\* Process p is done with its request; a reconciler gives back a lease still its own.
Finish(p) ==
    /\ pc' = [pc EXCEPT ![p] = "idle"]
    /\ req' = [req EXCEPT ![p] = None]
    /\ copy' = [copy EXCEPT ![p] = NoRow]
    /\ event' = [event EXCEPT ![p] = "none"]
    /\ lease' = IF lease[req[p]] = p THEN [lease EXCEPT ![req[p]] = None] ELSE lease

-----------------------------------------------------------------------------
(* Artifacts.                                                              *)

\* applyEventSideEffects: a completed event makes a new version current; a
\* failed event is ignored, because the variation is completed already.
ApplyEvent(p) ==
    IF event[p] = "failed" THEN UNCHANGED artifactVars
    ELSE LET r == req[p]
             content == IF event[p] = "changed" THEN r ELSE artifacts[base[r]].content
         IN /\ artifacts' = Append(artifacts, [of |-> r, content |-> content])
            /\ current' = Len(artifacts) + 1

ProducedChange(r) ==
    current > base[r] /\ artifacts[current].content # artifacts[base[r]].content

SetCurrentToBase(p) == current' = base[req[p]] /\ UNCHANGED artifacts

-----------------------------------------------------------------------------
(* refineVariation.                                                        *)

Submit(r, b) ==
    /\ op[r].status = "absent"
    /\ ~\E q \in Request : IsActive(q)
    /\ AnyBase \/ b = current
    /\ req' = [req EXCEPT ![r] = r]
    /\ LET row == [NoRow EXCEPT !.status = "starting"]
       IN op' = [op EXCEPT ![r] = row] /\ copy' = [copy EXCEPT ![r] = row]
    /\ base' = [base EXCEPT ![r] = b]
    /\ submitted' = Append(submitted, r)
    /\ Goto(r, "created")
    /\ UNCHANGED <<aged, lease, artifactVars, event, runtimeVars, clientVars, crashes>>

\* The row is written from the copy made at creation.
StartRunning(r) ==
    /\ pc[r] = "created"
    /\ IF Refused(r, WithStatus(r, "running"))
       THEN Goto(r, "catching") /\ caught' = caught \cup {r} /\ UNCHANGED <<op, aged, copy>>
       ELSE /\ Save(r, WithStatus(r, "running"))
            /\ Keep(r, WithStatus(r, "running"))
            /\ Goto(r, "opening") /\ UNCHANGED caught
    /\ UNCHANGED <<lease, base, submitted, artifactVars, req, event, runtimeVars, acked, cancels, crashes>>

\* The gateway registers the request before it asks for an agent.
OpenGateway(r) ==
    /\ pc[r] = "opening"
    /\ gateway' = [gateway EXCEPT ![r] = "pending"]
    /\ Goto(r, "creating")
    /\ UNCHANGED <<rowVars, artifactVars, req, copy, event, intent, rt, run, clientVars, crashes>>

AgentCreated(r) ==
    /\ pc[r] = "creating"
    /\ gateway' = [gateway EXCEPT ![r] = "ready"]
    /\ rt' = [rt EXCEPT ![r] = "queued"]
    /\ Goto(r, IF intent[r] THEN "dropping" ELSE "consuming")
    /\ UNCHANGED <<rowVars, artifactVars, req, copy, event, intent, run, clientVars, crashes>>

\* The end of the gateway's generator; it yields nothing once a cancel was asked.
LeaveStream(r, place) ==
    /\ gateway' = [gateway EXCEPT ![r] = "none"]
    /\ intent' = [intent EXCEPT ![r] = FALSE]
    /\ event' = [event EXCEPT ![r] = "none"]
    /\ Goto(r, place)

EndOfStream(r) == LeaveStream(r, "ending")

Receive(r, e) ==
    IF intent[r] THEN EndOfStream(r)
    ELSE /\ event' = [event EXCEPT ![r] = e]
         /\ Goto(r, "received")
         /\ UNCHANGED <<gateway, intent>>

\* An unavailable runtime, a failed request or a broken stream.
GatewayFails(r) ==
    /\ pc[r] \in {"creating", "consuming", "waiting"}
    /\ Receive(r, "failed")
    /\ UNCHANGED <<rowVars, artifactVars, req, copy, rt, run, clientVars, crashes>>

\* A cancel that came before the agent is sent to the runtime; its answer is not looked at.
DropAgent(r) ==
    /\ pc[r] = "dropping"
    /\ rt' \in {rt, [rt EXCEPT ![r] = "cancelled"]}
    /\ EndOfStream(r)
    /\ UNCHANGED <<rowVars, artifactVars, req, copy, run, clientVars, crashes>>

Executing(r) ==
    /\ run' = [run EXCEPT ![r] = "executing"]
    /\ rt' = IF rt[r] = "cancelled" THEN rt ELSE [rt EXCEPT ![r] = "running"]

ConsumeStream(r) ==
    /\ pc[r] = "consuming"
    /\ run[r] = "unread"
    /\ Executing(r)
    /\ Goto(r, "waiting")
    /\ UNCHANGED <<rowVars, artifactVars, req, copy, event, gateway, intent, clientVars, crashes>>

EventArrives(r) ==
    /\ pc[r] = "waiting"
    /\ run[r] \in Outcome
    /\ Receive(r, run[r])
    /\ UNCHANGED <<rowVars, artifactVars, req, copy, rt, run, clientVars, crashes>>

\* Before an event is applied the row is read again.
CheckEvent(r) ==
    /\ pc[r] = "received"
    /\ Refresh(r)
    /\ IF op[r].cancelRequested THEN EndOfStream(r)
       ELSE Goto(r, "applying") /\ UNCHANGED <<event, gateway, intent>>
    /\ UNCHANGED <<rowVars, artifactVars, req, rt, run, clientVars, crashes>>

ApplyAndEnd(r) ==
    /\ pc[r] = "applying"
    /\ ApplyEvent(r)
    /\ EndOfStream(r)
    /\ UNCHANGED <<rowVars, req, copy, rt, run, clientVars, crashes>>

\* A call of the try clause fails: the loop, if it still runs, is left through the
\* catch clause.
ToCatch(r) ==
    /\ LeaveStream(r, "catching")
    /\ caught' = caught \cup {r}
    /\ UNCHANGED <<rowVars, req, copy, rt, run, acked, cancels, crashes>>

\* The version cannot be stored, or it was made current and the event cannot be published.
ApplyFails(r) ==
    /\ pc[r] = "applying"
    /\ ApplyEvent(r) \/ UNCHANGED artifactVars
    /\ ToCatch(r)

\* Reading or writing a row, the response or the base fails; what fails in the catch
\* clause settles nothing (Crash).
CallFails(r) ==
    /\ pc[r] \in {"created", "received", "ending", "judging", "reverting", "completing", "failing",
                  "confirming", "restoring", "recording"}
    /\ r \notin caught
    /\ ToCatch(r)
    /\ UNCHANGED artifactVars

\* Mutant: the row is not read again when the stream has ended.
EndRefineUnread(r) ==
    /\ pc[r] = "ending"
    /\ Goto(r, IF copy[r].cancelRequested THEN "confirming" ELSE "judging")
    /\ UNCHANGED <<rowVars, artifactVars, req, copy, event, runtimeVars, clientVars, crashes>>

\* The row is read a last time.
EndRefine(r) ==
    /\ pc[r] = "ending"
    /\ Refresh(r)
    /\ Goto(r, IF op[r].cancelRequested THEN "confirming" ELSE "judging")
    /\ UNCHANGED <<rowVars, artifactVars, req, event, runtimeVars, clientVars, crashes>>

Judge(r) ==
    /\ pc[r] = "judging"
    /\ Goto(r, IF ProducedChange(r) THEN "completing" ELSE "reverting")
    /\ UNCHANGED <<rowVars, artifactVars, req, copy, event, runtimeVars, clientVars, crashes>>

\* Mutant: the unchanged version stays current.
RevertForgotten(r) ==
    /\ pc[r] = "reverting"
    /\ Goto(r, "failing")
    /\ UNCHANGED <<rowVars, artifactVars, req, copy, event, runtimeVars, clientVars, crashes>>

Revert(r) ==
    /\ pc[r] = "reverting"
    /\ SetCurrentToBase(r)
    /\ Goto(r, "failing")
    /\ UNCHANGED <<rowVars, req, copy, event, runtimeVars, clientVars, crashes>>

CatchError(r) ==
    /\ pc[r] = "catching"
    /\ Refresh(r)
    /\ Goto(r, IF op[r].cancelRequested THEN "confirming" ELSE "failing")
    /\ UNCHANGED <<rowVars, artifactVars, req, event, runtimeVars, clientVars, crashes>>

-----------------------------------------------------------------------------
(* What the handlers share: a terminal status and the way back to the base. *)

Settle(p) ==
    /\ pc[p] \in {"completing", "failing"}
    /\ Save(p, WithStatus(p, IF pc[p] = "completing" THEN "completed" ELSE "failed"))
    /\ Finish(p)
    /\ UNCHANGED <<base, submitted, artifactVars, runtimeVars, clientVars, crashes>>

ConfirmCancel(p) ==
    /\ pc[p] = "confirming"
    /\ Save(p, WithStatus(p, "cancelled"))
    /\ Keep(p, WithStatus(p, "cancelled"))
    /\ Goto(p, "restoring")
    /\ UNCHANGED <<lease, base, submitted, artifactVars, req, event, runtimeVars, clientVars, crashes>>

\* A cancel handler answers when it returns.
Answer(p) == acked' = IF p \in Canceller THEN acked \cup {req[p]} ELSE acked

RestoreBase(p) ==
    /\ pc[p] = "restoring"
    /\ SetCurrentToBase(p)
    /\ IF copy[p].recorded
       THEN Finish(p) /\ Answer(p)
       ELSE Goto(p, "recording") /\ UNCHANGED <<lease, req, copy, event, acked>>
    /\ UNCHANGED <<op, aged, base, submitted, runtimeVars, caught, cancels, crashes>>

RecordCancellation(p) ==
    /\ pc[p] = "recording"
    /\ Save(p, [copy[p] EXCEPT !.recorded = TRUE])
    /\ Finish(p)
    /\ Answer(p)
    /\ UNCHANGED <<base, submitted, artifactVars, runtimeVars, caught, cancels, crashes>>

-----------------------------------------------------------------------------
(* cancelVariationRefine.                                                  *)

\* Some answer of the runtime: with an agent on its way the gateway of the
\* handler's own process only notes the intent; otherwise the runtime answers.
AskRuntime(r, accepted) ==
    \/ /\ gateway[r] = "pending" /\ accepted
       /\ intent' = [intent EXCEPT ![r] = TRUE]
       /\ UNCHANGED rt
    \/ /\ rt' = IF accepted /\ rt[r] # "not_found" THEN [rt EXCEPT ![r] = "cancelled"] ELSE rt
       /\ intent' \in {intent, [intent EXCEPT ![r] = @ \/ gateway[r] = "ready"]}

ReadForCancel(c, r) ==
    /\ pc[c] = "idle" /\ cancels < MaxCancels
    /\ op[r].status # "absent"
    /\ EarlyCancel \/ op[r].status # "starting"
    /\ cancels' = cancels + 1
    /\ IF IsActive(r)
       THEN /\ req' = [req EXCEPT ![c] = r]
            /\ copy' = [copy EXCEPT ![c] = op[r]]
            /\ Goto(c, "marking")
            /\ UNCHANGED acked
       ELSE /\ acked' = IF op[r].status = "cancelled" THEN acked \cup {r} ELSE acked
            /\ UNCHANGED <<req, copy, pc>>
    /\ UNCHANGED <<rowVars, artifactVars, event, runtimeVars, caught, crashes>>

MarkCancelling(c) ==
    /\ pc[c] = "marking"
    /\ LET row == [copy[c] EXCEPT !.status = "cancelling", !.cancelRequested = TRUE]
       IN IF Refused(req[c], row)
          THEN Finish(c) /\ UNCHANGED <<op, aged>>
          ELSE Save(c, row) /\ Keep(c, row) /\ Goto(c, "asking") /\ UNCHANGED <<lease, req, event>>
    /\ UNCHANGED <<base, submitted, artifactVars, runtimeVars, clientVars, crashes>>

CancelAnswered(c, accepted) ==
    /\ pc[c] = "asking" /\ c \in Canceller
    /\ AskRuntime(req[c], accepted)
    /\ Goto(c, IF accepted THEN "accepted" ELSE "refused")
    /\ UNCHANGED <<rowVars, artifactVars, req, copy, event, gateway, run, clientVars, crashes>>

CancelUnanswered(c) ==
    /\ pc[c] = "asking" /\ c \in Canceller
    /\ Goto(c, "refusing")
    /\ UNCHANGED <<rowVars, artifactVars, req, copy, event, runtimeVars, clientVars, crashes>>

\* The answer is stored in the row before it is looked at.
StoreAnswer(c) ==
    /\ pc[c] \in {"accepted", "refused"}
    /\ IF Refused(req[c], copy[c])
       THEN Goto(c, "refusing") /\ UNCHANGED <<op, aged>>
       ELSE Save(c, copy[c]) /\ Goto(c, IF pc[c] = "accepted" THEN "confirming" ELSE "refusing")
    /\ UNCHANGED <<lease, base, submitted, artifactVars, req, copy, event, runtimeVars, clientVars, crashes>>

\* The answer, the cancelled row or the base cannot be stored.
CancelFails(c) ==
    /\ pc[c] \in {"accepted", "refused", "confirming", "restoring", "recording"}
    /\ Goto(c, "refusing")
    /\ UNCHANGED <<rowVars, artifactVars, req, copy, event, runtimeVars, clientVars, crashes>>

\* The cancel was not accepted, or it failed: the operation is running again.
RefuseCancel(c) ==
    /\ pc[c] = "refusing"
    /\ LET row == [copy[c] EXCEPT !.status = "running", !.cancelRequested = FALSE]
       IN IF Refused(req[c], row) THEN UNCHANGED <<op, aged>> ELSE Save(c, row)
    /\ Finish(c)
    /\ UNCHANGED <<base, submitted, artifactVars, runtimeVars, clientVars, crashes>>

-----------------------------------------------------------------------------
(* reconcileRefineOperations.                                              *)

\* Mutant: operations that never got to run are overlooked.
ClaimableRunning(r) ==
    /\ op[r].status = "cancelling" \/ (op[r].status = "running" /\ aged[r])
    /\ lease[r] = None

Claimable(r) ==
    /\ op[r].status = "cancelling" \/ (IsActive(r) /\ aged[r])
    /\ lease[r] = None

Claim(w, r) ==
    /\ pc[w] = "idle"
    /\ Claimable(r)
    /\ lease' = [lease EXCEPT ![r] = w]
    /\ req' = [req EXCEPT ![w] = r]
    /\ copy' = [copy EXCEPT ![w] = op[r]]
    /\ Goto(w, "reading")
    /\ UNCHANGED <<op, aged, base, submitted, artifactVars, event, runtimeVars, clientVars, crashes>>

\* A terminal snapshot carries the event a stream would have ended with.
ReadSnapshot(w) ==
    /\ pc[w] = "reading"
    /\ LET r == req[w]
           cancelling == copy[w].cancelRequested \/ copy[w].status = "cancelling"
       IN \/ rt[r] = "cancelled" /\ Goto(w, "confirming") /\ UNCHANGED <<lease, event>>
          \/ rt[r] # "cancelled" /\ cancelling /\ Goto(w, "asking") /\ UNCHANGED <<lease, event>>
          \/ /\ rt[r] \in {"completed", "failed"} /\ ~cancelling
             /\ event' = [event EXCEPT ![w] = run[r]]
             /\ Goto(w, "finalizing") /\ UNCHANGED lease
          \/ /\ rt[r] \in {"queued", "running"} /\ ~cancelling
             /\ Goto(w, "recovering") /\ UNCHANGED <<lease, event>>
          \/ /\ rt[r] = "not_found" /\ ~cancelling
             /\ Goto(w, "failing") /\ UNCHANGED <<lease, event>>
    /\ UNCHANGED <<op, aged, base, submitted, artifactVars, req, copy, runtimeVars, clientVars, crashes>>

CancelRecovered(w, accepted) ==
    /\ pc[w] = "asking" /\ w \in Reconciler
    /\ AskRuntime(req[w], accepted)
    /\ IF accepted THEN Goto(w, "confirming") /\ UNCHANGED <<lease, req, copy, event>> ELSE Finish(w)
    /\ UNCHANGED <<op, aged, base, submitted, artifactVars, gateway, run, clientVars, crashes>>

\* A stream nobody consumed is consumed; one that is running answers 204.
RecoverStream(w) ==
    /\ pc[w] = "recovering"
    /\ LET r == req[w]
       IN IF run[r] = "unread" THEN Executing(r) /\ Goto(w, "following")
          ELSE /\ Goto(w, IF rt[r] \in {"completed", "failed"} THEN "following" ELSE "rereading")
               /\ UNCHANGED <<run, rt>>
    /\ UNCHANGED <<rowVars, artifactVars, req, copy, event, gateway, intent, clientVars, crashes>>

FollowStream(w) ==
    /\ pc[w] = "following"
    /\ run[req[w]] \in Outcome
    /\ event' = [event EXCEPT ![w] = run[req[w]]]
    /\ Goto(w, "adopting")
    /\ UNCHANGED <<rowVars, artifactVars, req, copy, runtimeVars, clientVars, crashes>>

\* The recovered stream's event is applied without reading the row again.
AdoptEvent(w) ==
    /\ pc[w] = "adopting"
    /\ ApplyEvent(w)
    /\ Goto(w, "verifying")
    /\ UNCHANGED <<rowVars, req, copy, event, runtimeVars, clientVars, crashes>>

RereadSnapshot(w) ==
    /\ pc[w] = "rereading"
    /\ LET r == req[w]
       IN \/ /\ rt[r] = "cancelled" /\ Goto(w, "confirming")
             /\ UNCHANGED <<lease, req, copy, event>>
          \/ /\ rt[r] \in {"completed", "failed"} /\ Goto(w, "finalizing")
             /\ event' = [event EXCEPT ![w] = run[r]]
             /\ UNCHANGED <<lease, req, copy>>
          \/ rt[r] \in {"queued", "running", "not_found"} /\ Finish(w)
    /\ UNCHANGED <<op, aged, base, submitted, artifactVars, runtimeVars, clientVars, crashes>>

\* finalizeRecoveredRefineOperation: the event may have been applied already.
Finalize(w) ==
    /\ pc[w] = "finalizing"
    /\ IF event[w] # "failed" /\ artifacts[current].of = req[w]
       THEN UNCHANGED artifactVars
       ELSE ApplyEvent(w)
    /\ Goto(w, "verifying")
    /\ UNCHANGED <<rowVars, req, copy, event, runtimeVars, clientVars, crashes>>

Verify(w) ==
    /\ pc[w] = "verifying"
    /\ IF event[w] # "failed" /\ ~ProducedChange(req[w])
       THEN SetCurrentToBase(w)
       ELSE UNCHANGED artifactVars
    /\ Goto(w, IF event[w] # "failed" /\ ProducedChange(req[w]) THEN "completing" ELSE "failing")
    /\ UNCHANGED <<rowVars, req, copy, event, runtimeVars, clientVars, crashes>>

-----------------------------------------------------------------------------
(* The runtime, time, and processes that die.                              *)

Execute(r, outcome) ==
    /\ run[r] = "executing"
    /\ run' = [run EXCEPT ![r] = outcome]
    /\ rt' = IF rt[r] = "cancelled" THEN rt
             ELSE [rt EXCEPT ![r] = IF outcome = "failed" THEN "failed" ELSE "completed"]
    /\ UNCHANGED <<rowVars, artifactVars, processVars, gateway, intent, clientVars, crashes>>

\* orphanAfterMs pass without a write to an active row.
Age(r) ==
    /\ op[r].status \in {"starting", "running"} /\ ~aged[r]
    /\ SlowRefines \/ \A p \in Process : req[p] # r
    /\ aged' = [aged EXCEPT ![r] = TRUE]
    /\ UNCHANGED <<op, lease, base, submitted, artifactVars, processVars, runtimeVars, clientVars, crashes>>

\* leaseMs pass; they do not while the owner is at work, unless refines are slow.
ExpireLease(r) ==
    /\ lease[r] # None
    /\ SlowRefines \/ pc[lease[r]] = "idle"
    /\ lease' = [lease EXCEPT ![r] = None]
    /\ UNCHANGED <<op, aged, base, submitted, artifactVars, processVars, runtimeVars, clientVars, crashes>>

\* The API replica or worker that runs p dies, or a call p makes fails where
\* nothing settles the operation: in a catch clause, or in a reconciler, which
\* gives up its lease.
Crash(p) ==
    /\ pc[p] # "idle" /\ crashes < MaxCrashes
    /\ crashes' = crashes + 1
    /\ pc' = [pc EXCEPT ![p] = "idle"]
    /\ req' = [req EXCEPT ![p] = None]
    /\ copy' = [copy EXCEPT ![p] = NoRow]
    /\ event' = [event EXCEPT ![p] = "none"]
    /\ gateway' = IF p \in Request THEN [gateway EXCEPT ![p] = "none"] ELSE gateway
    /\ intent' = IF p \in Request THEN [intent EXCEPT ![p] = FALSE] ELSE intent
    /\ lease' \in {lease, [r \in Request |-> IF lease[r] = p THEN None ELSE lease[r]]}
    /\ UNCHANGED <<op, aged, base, submitted, artifactVars, rt, run, clientVars>>

-----------------------------------------------------------------------------
RefineStep(r) ==
    \/ StartRunning(r) \/ OpenGateway(r) \/ AgentCreated(r) \/ GatewayFails(r) \/ DropAgent(r)
    \/ ConsumeStream(r) \/ EventArrives(r) \/ CheckEvent(r) \/ ApplyAndEnd(r) \/ ApplyFails(r)
    \/ CallFails(r) \/ EndRefine(r) \/ Judge(r) \/ Revert(r) \/ CatchError(r)

CancelStep(c) ==
    \/ MarkCancelling(c) \/ StoreAnswer(c) \/ RefuseCancel(c) \/ CancelUnanswered(c)
    \/ CancelFails(c)
    \/ \E accepted \in BOOLEAN : CancelAnswered(c, accepted)

ReconcileStep(w) ==
    \/ ReadSnapshot(w) \/ RecoverStream(w) \/ FollowStream(w) \/ AdoptEvent(w)
    \/ RereadSnapshot(w) \/ Finalize(w) \/ Verify(w)
    \/ \E accepted \in BOOLEAN : CancelRecovered(w, accepted)

TailStep(p) == Settle(p) \/ ConfirmCancel(p) \/ RestoreBase(p) \/ RecordCancellation(p)

Next ==
    \/ \E r \in Request : RefineStep(r) \/ Age(r) \/ ExpireLease(r)
    \/ \E r \in Request, b \in DOMAIN artifacts : Submit(r, b)
    \/ \E r \in Request, outcome \in Outcome : Execute(r, outcome)
    \/ \E c \in Canceller : CancelStep(c)
    \/ \E c \in Canceller, r \in Request : ReadForCancel(c, r)
    \/ \E w \in Reconciler : ReconcileStep(w)
    \/ \E w \in Reconciler, r \in Request : Claim(w, r)
    \/ \E p \in Process : TailStep(p) \/ Crash(p)

Spec == Init /\ [][Next]_vars

\* Promises resolve, the runtime answers or its stream times out, time passes,
\* and every reconciler's timer keeps firing.
FairSpec ==
    /\ Spec
    /\ \A p \in Process : WF_vars(TailStep(p))
    /\ \A r \in Request :
           /\ WF_vars(RefineStep(r))
           /\ WF_vars(\E outcome \in Outcome : Execute(r, outcome))
           /\ WF_vars(Age(r))
           /\ WF_vars(ExpireLease(r))
    /\ \A c \in Canceller : WF_vars(CancelStep(c))
    /\ \A w \in Reconciler :
           /\ WF_vars(ReconcileStep(w))
           /\ \A r \in Request : SF_vars(Claim(w, r))

-----------------------------------------------------------------------------
(* What the operations promise once no handler is at work any more.        *)

Quiet == \A p \in Process : pc[p] = "idle"
Latest == submitted[Len(submitted)]
Settled(status) == Quiet /\ submitted # <<>> /\ op[Latest].status = status

\* Whoever finished an operation, the handler or a reconciler after the handler
\* was lost: the version a completed refine produced is the one the user sees, and
\* one that is recorded as failed leaves its base artifact current.  Only the catch
\* clause of refineVariation records a failure and restores nothing, so there an own
\* version that was made current before the error stays.
OutcomeIsCurrent ==
    /\ Settled("completed") => artifacts[current].of = Latest
    /\ Settled("failed") =>
           \/ current = base[Latest]
           \/ Latest \in caught /\ artifacts[current].of = Latest

\* An answer "cancelled" holds: the base artifact is current, even when the
\* runtime's result arrived in the middle of the cancel, and the operation never
\* becomes active again, because no handler writes an older copy of its row.
CancelAnswerHolds ==
    /\ Quiet /\ submitted # <<>> /\ Latest \in acked => current = base[Latest]
    /\ \A r \in acked : ~IsActive(r)

\* No operation stays active for ever, so that the variation can be refined again.
OperationsSettle == \A r \in Request : IsActive(r) ~> ~IsActive(r)

=============================================================================
