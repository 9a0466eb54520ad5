------------------------ MODULE RefineOperations_proofs ------------------------
(***************************************************************************)
(* Proofs about RefineOperations, for any set of requests, cancel handlers *)
(* and reconcilers, either store and any number of crashes.                *)
(***************************************************************************)
EXTENDS RefineOperations, TLAPS

-----------------------------------------------------------------------------
(* Type correctness.                                                       *)

\* A process at work has a request, a refine handler its own; an event that is
\* to be applied was received.
ProcessShape(p) ==
    /\ pc[p] # "idle" => req[p] \in Request
    /\ p \in Request /\ pc[p] # "idle" => req[p] = p
    /\ pc[p] \in {"received", "applying", "adopting", "finalizing", "verifying"} =>
            event[p] \in Outcome

\* A runtime that reports an end has an outcome; one that does not know the
\* request has not executed it.
RunKnown == \A r \in Request :
    /\ rt[r] \in {"completed", "failed"} => run[r] \in Outcome
    /\ rt[r] = "not_found" => run[r] = "unread"

TypeInvariant == TypeOK /\ RunKnown /\ \A p \in Process : ProcessShape(p)

\* The step of a process changes its own variables.
OwnStep(p) ==
    /\ pc' \in [Process -> Location] /\ req' \in [Process -> Request \cup {None}]
    /\ copy' \in [Process -> Row] /\ event' \in [Process -> Outcome \cup {"none"}]
    /\ \A q \in Process \ {p} :
        pc'[q] = pc[q] /\ req'[q] = req[q] /\ copy'[q] = copy[q] /\ event'[q] = event[q]

RowsTyped ==
    /\ op \in [Request -> Row] /\ aged \in [Request -> BOOLEAN]
    /\ lease \in [Request -> Reconciler \cup {None}] /\ submitted \in Seq(Request)

ArtifactsTyped ==
    /\ artifacts \in Seq(ArtifactSet)
    /\ base \in [Request -> DOMAIN artifacts] /\ current \in DOMAIN artifacts

RuntimeTyped ==
    /\ gateway \in [Request -> {"none", "pending", "ready"}] /\ intent \in [Request -> BOOLEAN]
    /\ rt \in [Request -> {"not_found", "queued", "running", "completed", "failed", "cancelled"}]
    /\ run \in [Request -> Outcome \cup {"unread", "executing"}]
    /\ RunKnown

LEMMA RowTypes ==
    /\ NoRow \in Row
    /\ \A row \in Row, s \in Active \cup {"completed", "failed", "cancelled"}, b \in BOOLEAN :
        /\ [row EXCEPT !.status = s] \in Row
        /\ [row EXCEPT !.status = s, !.cancelRequested = b] \in Row
        /\ [row EXCEPT !.recorded = b] \in Row
BY DEF NoRow, Row, Active

\* The end of a process's work.
LEMMA FinishOwn ==
    ASSUME TypeOK, NEW p \in Process, Finish(p)
    PROVE  OwnStep(p) /\ pc'[p] = "idle" /\ lease' \in [Request -> Reconciler \cup {None}]
<1>1. /\ pc' = [pc EXCEPT ![p] = "idle"] /\ req' = [req EXCEPT ![p] = None]
      /\ copy' = [copy EXCEPT ![p] = NoRow] /\ event' = [event EXCEPT ![p] = "none"]
      /\ lease' = IF lease[req[p]] = p THEN [lease EXCEPT ![req[p]] = None] ELSE lease
  BY DEF Finish
<1>2. lease' \in [Request -> Reconciler \cup {None}] BY <1>1 DEF TypeOK
<1>3. OwnStep(p) /\ pc'[p] = "idle" BY <1>1, RowTypes DEF TypeOK, OwnStep, Location
<1>4. QED BY <1>2, <1>3

\* The end of the stream of a refine.
LEMMA LeaveOwn ==
    ASSUME TypeOK, NEW r \in Request, NEW place \in Location, LeaveStream(r, place), UNCHANGED <<req, rt, run>>,
           copy' \in [Process -> Row], \A q \in Process \ {r} : copy'[q] = copy[q], RunKnown
    PROVE  OwnStep(r) /\ pc'[r] = place /\ RuntimeTyped'
<1>1. /\ gateway' = [gateway EXCEPT ![r] = "none"] /\ intent' = [intent EXCEPT ![r] = FALSE]
      /\ event' = [event EXCEPT ![r] = "none"] /\ pc' = [pc EXCEPT ![r] = place]
  BY DEF LeaveStream, Goto
<1>2. r \in Process BY DEF Process
<1>3. OwnStep(r) /\ pc'[r] = place BY <1>1, <1>2 DEF TypeOK, OwnStep
<1>4. RuntimeTyped' BY <1>1 DEF TypeOK, RuntimeTyped, RunKnown
<1>5. QED BY <1>3, <1>4

\* Going on to the next await.
LEMMA GotoOwn ==
    ASSUME TypeOK, NEW p \in Process, NEW place \in Location, Goto(p, place), UNCHANGED <<req, event>>,
           copy' \in [Process -> Row], \A q \in Process \ {p} : copy'[q] = copy[q]
    PROVE  OwnStep(p) /\ pc'[p] = place
BY DEF TypeOK, OwnStep, Goto

LEMMA SaveRows ==
    ASSUME TypeOK, NEW p \in Process, NEW row \in Row, Save(p, row), UNCHANGED submitted,
           lease' \in [Request -> Reconciler \cup {None}]
    PROVE  RowsTyped'
BY DEF TypeOK, RowsTyped, Save

LEMMA KeepOwn ==
    ASSUME TypeOK, NEW p \in Process, NEW row \in Row, Keep(p, row)
    PROVE  copy' \in [Process -> Row] /\ \A q \in Process \ {p} : copy'[q] = copy[q]
BY DEF TypeOK, Keep

LEMMA ApplyTypes ==
    ASSUME TypeOK, NEW p \in Process, req[p] \in Request, ApplyEvent(p), UNCHANGED base
    PROVE  ArtifactsTyped'
<1>. DEFINE r == req[p]
            content == IF event[p] = "changed" THEN r ELSE artifacts[base[r]].content
            a == [of |-> r, content |-> content]
<1>1. CASE event[p] = "failed" BY <1>1 DEF ApplyEvent, artifactVars, TypeOK, ArtifactsTyped
<1>2. CASE event[p] # "failed"
  <2>1. artifacts' = Append(artifacts, a) /\ current' = Len(artifacts) + 1
    BY <1>2 DEF ApplyEvent
  <2>2. artifacts[base[r]] \in ArtifactSet BY DEF TypeOK
  <2>3. a \in ArtifactSet BY <2>2 DEF ArtifactSet
  <2>. HIDE DEF a
  <2>4. /\ artifacts' \in Seq(ArtifactSet) /\ Len(artifacts') = Len(artifacts) + 1
        /\ Len(artifacts) \in Nat /\ DOMAIN artifacts = 1 .. Len(artifacts)
        /\ DOMAIN artifacts' = 1 .. Len(artifacts')
    BY <2>1, <2>3 DEF TypeOK
  <2>5. current' \in DOMAIN artifacts' /\ DOMAIN artifacts \subseteq DOMAIN artifacts'
    BY <2>1, <2>4
  <2>6. QED BY <2>4, <2>5 DEF TypeOK, ArtifactsTyped
<1>3. QED BY <1>1, <1>2

\* What the step of a process keeps of the types.
StepTyped(p) ==
    OwnStep(p) /\ ProcessShape(p)' /\ RowsTyped' /\ ArtifactsTyped' /\ RuntimeTyped'

LEMMA SameRows == ASSUME TypeOK, UNCHANGED <<op, aged, lease, submitted>> PROVE RowsTyped'
BY DEF TypeOK, RowsTyped

LEMMA SameArtifacts == ASSUME TypeOK, UNCHANGED <<base, artifactVars>> PROVE ArtifactsTyped'
BY DEF TypeOK, ArtifactsTyped, artifactVars

LEMMA BackToBase ==
    ASSUME TypeOK, NEW p \in Process, req[p] \in Request, SetCurrentToBase(p), UNCHANGED base
    PROVE  ArtifactsTyped'
BY DEF TypeOK, ArtifactsTyped, SetCurrentToBase

LEMMA SameRuntime == ASSUME TypeOK, RunKnown, UNCHANGED runtimeVars PROVE RuntimeTyped'
BY DEF TypeOK, RuntimeTyped, runtimeVars, RunKnown

LEMMA SameCopy ==
    ASSUME TypeOK, NEW p, UNCHANGED copy
    PROVE  copy' \in [Process -> Row] /\ \A q \in Process \ {p} : copy'[q] = copy[q]
BY DEF TypeOK

LEMMA ExecutingTypes ==
    ASSUME TypeOK, RunKnown, NEW r \in Request, Executing(r), UNCHANGED <<gateway, intent>>
    PROVE  RuntimeTyped'
<1>1. run' \in [Request -> Outcome \cup {"unread", "executing"}] /\ \A q \in Request \ {r} : run'[q] = run[q]
  BY DEF Executing, TypeOK
<1>2. /\ rt' \in [Request -> {"not_found", "queued", "running", "completed", "failed", "cancelled"}]
      /\ \A q \in Request \ {r} : rt'[q] = rt[q]
      /\ rt'[r] \in {"running", "cancelled"}
  BY DEF Executing, TypeOK
<1>3. QED BY <1>1, <1>2 DEF TypeOK, RuntimeTyped, RunKnown

\* The handler that runs a refine.
LEMMA RefineStepTyped ==
    ASSUME TypeInvariant, NEW r \in Request, RefineStep(r)
    PROVE  /\ StepTyped(r) /\ pc[r] # "idle" /\ pc'[r] # "idle"
           /\ UNCHANGED <<acked, cancels, crashes>> /\ caught' \in {caught, caught \cup {r}}
<1>. USE DEF TypeInvariant, clientVars
<1>0. r \in Process /\ copy[r] \in Row /\ op[r] \in Row BY DEF Process, TypeOK
<1>1. CASE StartRunning(r)
  <2>. DEFINE row == WithStatus(r, "running")
  <2>1. /\ pc[r] = "created" /\ UNCHANGED <<lease, base, submitted, artifactVars, req, event, runtimeVars>>
        /\ UNCHANGED <<acked, cancels, crashes>> /\ caught' \in {caught, caught \cup {r}}
        /\ \/ Goto(r, "catching") /\ UNCHANGED <<op, aged, copy>>
           \/ Save(r, row) /\ Keep(r, row) /\ Goto(r, "opening")
    BY <1>1 DEF StartRunning
  <2>2. row \in Row BY <1>0, RowTypes DEF WithStatus, Active
  <2>. HIDE DEF row
  <2>3. RowsTyped' BY <1>0, <2>1, <2>2, SaveRows, SameRows DEF TypeOK
  <2>4. OwnStep(r) /\ pc'[r] \in {"catching", "opening"}
    <3>1. copy' \in [Process -> Row] /\ \A q \in Process \ {r} : copy'[q] = copy[q]
      BY <1>0, <2>1, <2>2, SameCopy, KeepOwn
    <3>2. QED BY <1>0, <2>1, <3>1, GotoOwn DEF Location
  <2>5. QED BY <1>0, <2>1, <2>3, <2>4, SameArtifacts, SameRuntime DEF StepTyped, ProcessShape
<1>2. CASE OpenGateway(r) \/ AgentCreated(r) \/ ConsumeStream(r)
  <2>1. /\ pc[r] \in {"opening", "creating", "consuming"}
        /\ UNCHANGED <<rowVars, artifactVars, req, copy, event, clientVars, crashes>>
        /\ \E place \in {"creating", "dropping", "consuming", "waiting"} : Goto(r, place)
    BY <1>2 DEF OpenGateway, AgentCreated, ConsumeStream
  <2>2. RuntimeTyped'
    <3>1. CASE OpenGateway(r) BY <3>1 DEF OpenGateway, TypeOK, RuntimeTyped, RunKnown
    <3>2. CASE AgentCreated(r) BY <3>2 DEF AgentCreated, TypeOK, RuntimeTyped, RunKnown
    <3>3. CASE ConsumeStream(r) BY <3>3, ExecutingTypes DEF ConsumeStream
    <3>4. QED BY <1>2, <3>1, <3>2, <3>3
  <2>3. OwnStep(r) /\ pc'[r] \in {"creating", "dropping", "consuming", "waiting"}
    BY <1>0, <2>1, GotoOwn, SameCopy DEF Location
  <2>4. QED BY <1>0, <2>1, <2>2, <2>3, SameRows, SameArtifacts DEF StepTyped, ProcessShape, rowVars
<1>3. CASE GatewayFails(r) \/ EventArrives(r)
  <2>1. /\ pc[r] \in {"creating", "consuming", "waiting"}
        /\ UNCHANGED <<rowVars, artifactVars, req, copy, rt, run, clientVars, crashes>>
        /\ \E e \in Outcome : Receive(r, e)
    BY <1>3 DEF GatewayFails, EventArrives, Outcome
  <2>2. CASE intent[r]
    <3>1. EndOfStream(r) BY <2>1, <2>2 DEF Receive
    <3>2. OwnStep(r) /\ pc'[r] = "ending" /\ RuntimeTyped'
      BY <2>1, <3>1, LeaveOwn, SameCopy DEF EndOfStream, Location
    <3>3. QED BY <1>0, <2>1, <3>2, SameRows, SameArtifacts DEF StepTyped, ProcessShape, rowVars
  <2>3. CASE ~intent[r]
    <3>1. PICK e \in Outcome : event' = [event EXCEPT ![r] = e] BY <2>1, <2>3 DEF Receive
    <3>2. pc' = [pc EXCEPT ![r] = "received"] /\ UNCHANGED <<gateway, intent>>
      BY <2>1, <2>3 DEF Receive, Goto
    <3>3. OwnStep(r) /\ pc'[r] = "received" /\ event'[r] = e
      BY <1>0, <2>1, <3>1, <3>2 DEF OwnStep, TypeOK, Location
    <3>4. RuntimeTyped' BY <2>1, <3>2, SameRuntime DEF runtimeVars
    <3>5. QED BY <1>0, <2>1, <3>3, <3>4, SameRows, SameArtifacts DEF StepTyped, ProcessShape, rowVars
  <2>4. QED BY <2>2, <2>3
<1>4. CASE DropAgent(r)
  <2>1. /\ pc[r] = "dropping" /\ UNCHANGED <<rowVars, artifactVars, req, copy, run, clientVars, crashes>>
        /\ rt' \in {rt, [rt EXCEPT ![r] = "cancelled"]}
        /\ gateway' = [gateway EXCEPT ![r] = "none"] /\ intent' = [intent EXCEPT ![r] = FALSE]
        /\ event' = [event EXCEPT ![r] = "none"] /\ pc' = [pc EXCEPT ![r] = "ending"]
    BY <1>4 DEF DropAgent, EndOfStream, LeaveStream, Goto
  <2>2. OwnStep(r) /\ pc'[r] = "ending" BY <1>0, <2>1 DEF OwnStep, TypeOK, Location
  <2>3. RuntimeTyped'
    <3>1. /\ gateway' \in [Request -> {"none", "pending", "ready"}]
          /\ intent' \in [Request -> BOOLEAN]
          /\ run' \in [Request -> Outcome \cup {"unread", "executing"}]
      BY <2>1 DEF TypeOK
    <3>2. /\ rt' \in [Request -> {"not_found", "queued", "running", "completed", "failed", "cancelled"}]
          /\ \A q \in Request : rt'[q] \in {rt[q], "cancelled"}
      BY <2>1 DEF TypeOK
    <3>3. RunKnown' BY <2>1, <3>2 DEF RunKnown
    <3>4. QED BY <3>1, <3>2, <3>3 DEF RuntimeTyped
  <2>4. QED BY <1>0, <2>1, <2>2, <2>3, SameRows, SameArtifacts DEF StepTyped, ProcessShape, rowVars
<1>5. CASE CheckEvent(r)
  <2>1. /\ pc[r] = "received" /\ UNCHANGED <<rowVars, artifactVars, req, rt, run, clientVars, crashes>>
        /\ Keep(r, op[r])
        /\ EndOfStream(r) \/ (Goto(r, "applying") /\ UNCHANGED <<event, gateway, intent>>)
    BY <1>0, <1>5 DEF CheckEvent, Refresh, ProcessShape
  <2>2. copy' \in [Process -> Row] /\ \A q \in Process \ {r} : copy'[q] = copy[q]
    BY <1>0, <2>1, KeepOwn
  <2>3. CASE EndOfStream(r)
    <3>1. OwnStep(r) /\ pc'[r] = "ending" /\ RuntimeTyped'
      BY <2>1, <2>2, <2>3, LeaveOwn DEF EndOfStream, Location
    <3>2. QED BY <1>0, <2>1, <3>1, SameRows, SameArtifacts DEF StepTyped, ProcessShape, rowVars
  <2>4. CASE Goto(r, "applying") /\ UNCHANGED <<event, gateway, intent>>
    <3>1. OwnStep(r) /\ pc'[r] = "applying" BY <1>0, <2>1, <2>2, <2>4, GotoOwn DEF Location
    <3>2. RuntimeTyped' BY <2>1, <2>4, SameRuntime DEF runtimeVars
    <3>3. QED BY <1>0, <2>1, <2>4, <3>1, <3>2, SameRows, SameArtifacts DEF StepTyped, ProcessShape, rowVars
  <2>5. QED BY <2>1, <2>3, <2>4
<1>6. CASE ApplyAndEnd(r) \/ ApplyFails(r) \/ CallFails(r)
  <2>1. /\ pc[r] # "idle" /\ UNCHANGED <<rowVars, req, copy, rt, run, acked, cancels, crashes>>
        /\ caught' \in {caught, caught \cup {r}}
        /\ ApplyEvent(r) \/ UNCHANGED artifactVars
        /\ LeaveStream(r, "ending") \/ LeaveStream(r, "catching")
    BY <1>6 DEF ApplyAndEnd, ApplyFails, CallFails, ToCatch, EndOfStream
  <2>2. OwnStep(r) /\ pc'[r] \in {"ending", "catching"} /\ RuntimeTyped'
    BY <2>1, LeaveOwn, SameCopy DEF Location
  <2>3. ArtifactsTyped'
    BY <1>0, <2>1, ApplyTypes, SameArtifacts DEF ProcessShape, rowVars
  <2>4. QED BY <1>0, <2>1, <2>2, <2>3, SameRows DEF StepTyped, ProcessShape, rowVars
<1>7. CASE EndRefine(r) \/ CatchError(r)
  <2>1. /\ pc[r] \in {"ending", "catching"}
        /\ UNCHANGED <<rowVars, artifactVars, req, event, runtimeVars, clientVars, crashes>>
        /\ Keep(r, op[r]) /\ \E place \in {"confirming", "judging", "failing"} : Goto(r, place)
    BY <1>0, <1>7 DEF EndRefine, CatchError, Refresh, ProcessShape
  <2>2. OwnStep(r) /\ pc'[r] \in {"confirming", "judging", "failing"}
    BY <1>0, <2>1, KeepOwn, GotoOwn DEF Location
  <2>3. QED BY <1>0, <2>1, <2>2, SameRows, SameArtifacts, SameRuntime DEF StepTyped, ProcessShape, rowVars
<1>8. CASE Judge(r) \/ Revert(r)
  <2>1. /\ pc[r] \in {"judging", "reverting"}
        /\ UNCHANGED <<rowVars, req, copy, event, runtimeVars, clientVars, crashes>>
        /\ SetCurrentToBase(r) \/ UNCHANGED artifactVars
        /\ \E place \in {"completing", "reverting", "failing"} : Goto(r, place)
    BY <1>8 DEF Judge, Revert
  <2>2. OwnStep(r) /\ pc'[r] \in {"completing", "reverting", "failing"}
    BY <1>0, <2>1, SameCopy, GotoOwn DEF Location
  <2>3. ArtifactsTyped' BY <1>0, <2>1, BackToBase, SameArtifacts DEF ProcessShape, rowVars
  <2>4. QED BY <1>0, <2>1, <2>2, <2>3, SameRows, SameRuntime DEF StepTyped, ProcessShape, rowVars
<1>9. QED BY <1>1, <1>2, <1>3, <1>4, <1>5, <1>6, <1>7, <1>8 DEF RefineStep

LEMMA FinishTyped ==
    ASSUME TypeInvariant, NEW p \in Process, Finish(p)
    PROVE  OwnStep(p) /\ ProcessShape(p)' /\ lease' \in [Request -> Reconciler \cup {None}]
BY FinishOwn DEF TypeInvariant, ProcessShape

LEMMA AskRuntimeTypes ==
    ASSUME TypeOK, RunKnown, NEW r \in Request, NEW accepted, AskRuntime(r, accepted),
           UNCHANGED <<gateway, run>>
    PROVE  RuntimeTyped'
<1>1. /\ intent' \in [Request -> BOOLEAN]
      /\ rt' = rt \/ rt' = [rt EXCEPT ![r] = "cancelled"]
  <2>1. CASE intent' = [intent EXCEPT ![r] = TRUE] /\ UNCHANGED rt BY <2>1 DEF TypeOK
  <2>2. CASE intent' = intent \/ intent' = [intent EXCEPT ![r] = intent[r] \/ gateway[r] = "ready"]
    <3>1. (gateway[r] = "ready") \in BOOLEAN /\ intent[r] \in BOOLEAN BY DEF TypeOK
    <3>2. (intent[r] \/ gateway[r] = "ready") \in BOOLEAN BY <3>1
    <3>3. intent' \in [Request -> BOOLEAN] BY <2>2, <3>2 DEF TypeOK
    <3>4. CASE rt' = IF accepted /\ rt[r] # "not_found" THEN [rt EXCEPT ![r] = "cancelled"] ELSE rt
      BY <3>3, <3>4
    <3>5. CASE UNCHANGED rt BY <3>3, <3>5
    <3>6. QED BY <3>3, <3>4, <3>5 DEF AskRuntime
  <2>3. QED BY <2>1, <2>2 DEF AskRuntime
<1>2. /\ rt' \in [Request -> {"not_found", "queued", "running", "completed", "failed", "cancelled"}]
      /\ \A q \in Request : rt'[q] \in {rt[q], "cancelled"}
  BY <1>1 DEF TypeOK
<1>3. RunKnown' BY <1>2 DEF RunKnown
<1>4. QED BY <1>1, <1>2, <1>3 DEF TypeOK, RuntimeTyped

\* The handler that cancels one.
LEMMA CancelStepTyped ==
    ASSUME TypeInvariant, NEW c \in Canceller, CancelStep(c)
    PROVE  StepTyped(c) /\ pc[c] # "idle" /\ UNCHANGED <<clientVars, crashes>>
<1>. USE DEF TypeInvariant
<1>0. c \in Process /\ c \notin Request /\ copy[c] \in Row BY ProcessAssumption DEF Process, TypeOK
<1>1. CASE MarkCancelling(c)
  <2>. DEFINE row == [copy[c] EXCEPT !.status = "cancelling", !.cancelRequested = TRUE]
  <2>1. /\ pc[c] = "marking" /\ UNCHANGED <<base, submitted, artifactVars, runtimeVars, clientVars, crashes>>
        /\ \/ Finish(c) /\ UNCHANGED <<op, aged>>
           \/ Save(c, row) /\ Keep(c, row) /\ Goto(c, "asking") /\ UNCHANGED <<lease, req, event>>
    BY <1>1 DEF MarkCancelling
  <2>2. row \in Row BY <1>0, RowTypes DEF Active
  <2>. HIDE DEF row
  <2>3. CASE Finish(c) /\ UNCHANGED <<op, aged>>
    <3>1. RowsTyped' BY <1>0, <2>1, <2>3, FinishTyped DEF RowsTyped, TypeOK
    <3>2. QED BY <1>0, <2>1, <2>3, <3>1, FinishTyped, SameArtifacts, SameRuntime DEF StepTyped
  <2>4. CASE Save(c, row) /\ Keep(c, row) /\ Goto(c, "asking") /\ UNCHANGED <<lease, req, event>>
    <3>1. RowsTyped' BY <1>0, <2>1, <2>2, <2>4, SaveRows DEF TypeOK
    <3>2. OwnStep(c) /\ pc'[c] = "asking" BY <1>0, <2>2, <2>4, KeepOwn, GotoOwn DEF Location
    <3>3. QED BY <1>0, <2>1, <2>4, <3>1, <3>2, SameArtifacts, SameRuntime DEF StepTyped, ProcessShape
  <2>5. QED BY <2>1, <2>3, <2>4
<1>2. CASE StoreAnswer(c)
  <2>1. /\ pc[c] # "idle" /\ UNCHANGED <<lease, base, submitted, artifactVars, req, copy, event, runtimeVars>>
        /\ UNCHANGED <<clientVars, crashes>>
        /\ Save(c, copy[c]) \/ UNCHANGED <<op, aged>>
        /\ \E place \in {"refusing", "confirming"} : Goto(c, place)
    BY <1>2 DEF StoreAnswer
  <2>2. RowsTyped' BY <1>0, <2>1, SaveRows, SameRows DEF TypeOK
  <2>3. OwnStep(c) /\ pc'[c] \in {"refusing", "confirming"}
    BY <1>0, <2>1, SameCopy, GotoOwn DEF Location
  <2>4. QED BY <1>0, <2>1, <2>2, <2>3, SameArtifacts, SameRuntime DEF StepTyped, ProcessShape
<1>3. CASE RefuseCancel(c)
  <2>. DEFINE row == [copy[c] EXCEPT !.status = "running", !.cancelRequested = FALSE]
  <2>1. /\ pc[c] = "refusing" /\ UNCHANGED <<base, submitted, artifactVars, runtimeVars, clientVars, crashes>>
        /\ Save(c, row) \/ UNCHANGED <<op, aged>>
        /\ Finish(c)
    BY <1>3 DEF RefuseCancel
  <2>2. row \in Row BY <1>0, RowTypes DEF Active
  <2>. HIDE DEF row
  <2>3. OwnStep(c) /\ ProcessShape(c)' /\ lease' \in [Request -> Reconciler \cup {None}]
    BY <1>0, <2>1, FinishTyped
  <2>4. RowsTyped' BY <1>0, <2>1, <2>2, <2>3, SaveRows DEF RowsTyped, TypeOK
  <2>5. QED BY <1>0, <2>1, <2>3, <2>4, SameArtifacts, SameRuntime DEF StepTyped
<1>4. CASE CancelUnanswered(c) \/ CancelFails(c)
  <2>1. pc[c] # "idle" /\ Goto(c, "refusing")
        /\ UNCHANGED <<rowVars, artifactVars, req, copy, event, runtimeVars, clientVars, crashes>>
    BY <1>4 DEF CancelUnanswered, CancelFails
  <2>2. OwnStep(c) /\ pc'[c] = "refusing" BY <1>0, <2>1, SameCopy, GotoOwn DEF Location
  <2>3. QED BY <1>0, <2>1, <2>2, SameRows, SameArtifacts, SameRuntime DEF StepTyped, ProcessShape, rowVars
<1>5. ASSUME NEW accepted \in BOOLEAN, CancelAnswered(c, accepted)
      PROVE  StepTyped(c) /\ pc[c] # "idle" /\ UNCHANGED <<clientVars, crashes>>
  <2>1. /\ pc[c] = "asking" /\ AskRuntime(req[c], accepted)
        /\ UNCHANGED <<rowVars, artifactVars, req, copy, event, gateway, run, clientVars, crashes>>
        /\ \E place \in {"accepted", "refused"} : Goto(c, place)
    BY <1>5 DEF CancelAnswered
  <2>2. OwnStep(c) /\ pc'[c] \in {"accepted", "refused"} BY <1>0, <2>1, SameCopy, GotoOwn DEF Location
  <2>3. RuntimeTyped' BY <1>0, <2>1, AskRuntimeTypes DEF ProcessShape
  <2>4. QED BY <1>0, <2>1, <2>2, <2>3, SameRows, SameArtifacts DEF StepTyped, ProcessShape, rowVars
<1>6. QED BY <1>1, <1>2, <1>3, <1>4, <1>5 DEF CancelStep

\* The reconciler; it gives up its request or goes on.
LEMMA ReconcileStepTyped ==
    ASSUME TypeInvariant, NEW w \in Reconciler, ReconcileStep(w)
    PROVE  StepTyped(w) /\ pc[w] # "idle" /\ UNCHANGED <<clientVars, crashes>>
<1>. USE DEF TypeInvariant
<1>0. w \in Process /\ w \notin Request BY ProcessAssumption DEF Process
<1>1. CASE ReadSnapshot(w) \/ RereadSnapshot(w)
  <2>1. /\ pc[w] \in {"reading", "rereading"} /\ req[w] \in Request
        /\ UNCHANGED <<op, aged, base, submitted, artifactVars, runtimeVars, clientVars, crashes>>
    BY <1>0, <1>1 DEF ReadSnapshot, RereadSnapshot, ProcessShape
  <2>2. \/ Finish(w)
        \/ /\ UNCHANGED <<lease, req, copy>>
           /\ \/ UNCHANGED event /\ \E place \in {"confirming", "asking", "recovering", "failing"} : Goto(w, place)
              \/ /\ rt[req[w]] \in {"completed", "failed"} /\ event' = [event EXCEPT ![w] = run[req[w]]]
                 /\ Goto(w, "finalizing")
    BY <1>1 DEF ReadSnapshot, RereadSnapshot
  <2>3. CASE Finish(w)
    <3>1. RowsTyped' BY <1>0, <2>1, <2>3, FinishTyped DEF RowsTyped, TypeOK
    <3>2. QED BY <1>0, <2>1, <2>3, <3>1, FinishTyped, SameArtifacts, SameRuntime DEF StepTyped
  <2>4. CASE /\ UNCHANGED <<lease, req, copy, event>>
             /\ \E place \in {"confirming", "asking", "recovering", "failing"} : Goto(w, place)
    <3>1. OwnStep(w) /\ pc'[w] \in {"confirming", "asking", "recovering", "failing"}
      BY <1>0, <2>4, SameCopy, GotoOwn DEF Location
    <3>2. QED BY <1>0, <2>1, <2>4, <3>1, SameRows, SameArtifacts, SameRuntime DEF StepTyped, ProcessShape
  <2>5. CASE /\ UNCHANGED <<lease, req, copy>>
             /\ rt[req[w]] \in {"completed", "failed"} /\ event' = [event EXCEPT ![w] = run[req[w]]]
             /\ Goto(w, "finalizing")
    <3>1. run[req[w]] \in Outcome BY <2>1, <2>5 DEF RunKnown
    <3>2. pc' = [pc EXCEPT ![w] = "finalizing"] BY <2>5 DEF Goto
    <3>3. OwnStep(w) /\ pc'[w] = "finalizing" /\ event'[w] \in Outcome
      BY <1>0, <2>5, <3>1, <3>2 DEF OwnStep, TypeOK, Location
    <3>4. QED BY <1>0, <2>1, <2>5, <3>3, SameRows, SameArtifacts, SameRuntime DEF StepTyped, ProcessShape
  <2>6. QED BY <2>2, <2>3, <2>4, <2>5
<1>2. ASSUME NEW accepted \in BOOLEAN, CancelRecovered(w, accepted)
      PROVE  StepTyped(w) /\ pc[w] # "idle" /\ UNCHANGED <<clientVars, crashes>>
  <2>1. /\ pc[w] = "asking" /\ AskRuntime(req[w], accepted)
        /\ UNCHANGED <<op, aged, base, submitted, artifactVars, gateway, run, clientVars, crashes>>
        /\ (Goto(w, "confirming") /\ UNCHANGED <<lease, req, copy, event>>) \/ Finish(w)
    BY <1>2 DEF CancelRecovered
  <2>2. RuntimeTyped' BY <1>0, <2>1, AskRuntimeTypes DEF ProcessShape
  <2>3. CASE Finish(w)
    <3>1. RowsTyped' BY <1>0, <2>1, <2>3, FinishTyped DEF RowsTyped, TypeOK
    <3>2. QED BY <1>0, <2>1, <2>2, <2>3, <3>1, FinishTyped, SameArtifacts DEF StepTyped
  <2>4. CASE Goto(w, "confirming") /\ UNCHANGED <<lease, req, copy, event>>
    <3>1. OwnStep(w) /\ pc'[w] = "confirming" BY <1>0, <2>4, SameCopy, GotoOwn DEF Location
    <3>2. QED BY <1>0, <2>1, <2>2, <2>4, <3>1, SameRows, SameArtifacts DEF StepTyped, ProcessShape
  <2>5. QED BY <2>1, <2>3, <2>4
<1>3. CASE RecoverStream(w)
  <2>1. /\ pc[w] = "recovering" /\ req[w] \in Request
        /\ UNCHANGED <<rowVars, artifactVars, req, copy, event, gateway, intent, clientVars, crashes>>
        /\ Executing(req[w]) \/ UNCHANGED <<run, rt>>
        /\ \E place \in {"following", "rereading"} : Goto(w, place)
    BY <1>0, <1>3 DEF RecoverStream, ProcessShape
  <2>2. RuntimeTyped' BY <2>1, ExecutingTypes, SameRuntime DEF runtimeVars
  <2>3. OwnStep(w) /\ pc'[w] \in {"following", "rereading"} BY <1>0, <2>1, SameCopy, GotoOwn DEF Location
  <2>4. QED BY <1>0, <2>1, <2>2, <2>3, SameRows, SameArtifacts DEF StepTyped, ProcessShape, rowVars
<1>4. CASE FollowStream(w)
  <2>1. /\ pc[w] = "following" /\ run[req[w]] \in Outcome /\ event' = [event EXCEPT ![w] = run[req[w]]]
        /\ pc' = [pc EXCEPT ![w] = "adopting"]
        /\ UNCHANGED <<rowVars, artifactVars, req, copy, runtimeVars, clientVars, crashes>>
    BY <1>4 DEF FollowStream, Goto
  <2>2. OwnStep(w) /\ pc'[w] = "adopting" /\ event'[w] \in Outcome
    BY <1>0, <2>1 DEF OwnStep, TypeOK, Location
  <2>3. QED BY <1>0, <2>1, <2>2, SameRows, SameArtifacts, SameRuntime DEF StepTyped, ProcessShape, rowVars
<1>5. CASE AdoptEvent(w) \/ Finalize(w) \/ Verify(w)
  <2>1. /\ pc[w] \in {"adopting", "finalizing", "verifying"} /\ req[w] \in Request
        /\ UNCHANGED <<rowVars, req, copy, event, runtimeVars, clientVars, crashes>>
        /\ ApplyEvent(w) \/ SetCurrentToBase(w) \/ UNCHANGED artifactVars
        /\ \E place \in {"verifying", "completing", "failing"} :
              Goto(w, place) /\ (place = "verifying" => pc[w] \in {"adopting", "finalizing"})
    BY <1>0, <1>5 DEF AdoptEvent, Finalize, Verify, ProcessShape
  <2>2. OwnStep(w) /\ pc'[w] \in {"verifying", "completing", "failing"}
    BY <1>0, <2>1, SameCopy, GotoOwn DEF Location
  <2>3. ArtifactsTyped' BY <1>0, <2>1, ApplyTypes, BackToBase, SameArtifacts DEF rowVars
  <2>4. QED BY <1>0, <2>1, <2>2, <2>3, SameRows, SameRuntime DEF StepTyped, ProcessShape, rowVars
<1>6. QED BY <1>1, <1>2, <1>3, <1>4, <1>5 DEF ReconcileStep

\* The steps with which any handler settles an operation.
LEMMA TailStepTyped ==
    ASSUME TypeInvariant, NEW p \in Process, TailStep(p)
    PROVE  /\ StepTyped(p) /\ pc[p] # "idle" /\ UNCHANGED <<caught, cancels, crashes>>
           /\ acked' \subseteq Request
<1>. USE DEF TypeInvariant, clientVars
<1>0. copy[p] \in Row BY DEF TypeOK
<1>1. CASE Settle(p)
  <2>. DEFINE row == WithStatus(p, IF pc[p] = "completing" THEN "completed" ELSE "failed")
  <2>1. /\ pc[p] \in {"completing", "failing"} /\ Save(p, row) /\ Finish(p)
        /\ UNCHANGED <<base, submitted, artifactVars, runtimeVars, clientVars, crashes>>
    BY <1>1 DEF Settle
  <2>2. row \in Row BY <1>0, RowTypes DEF WithStatus
  <2>. HIDE DEF row
  <2>3. RowsTyped' BY <2>1, <2>2, FinishTyped, SaveRows
  <2>4. QED BY <2>1, <2>3, FinishTyped, SameArtifacts, SameRuntime DEF StepTyped, clientVars, TypeOK
<1>2. CASE ConfirmCancel(p)
  <2>. DEFINE row == WithStatus(p, "cancelled")
  <2>1. /\ pc[p] = "confirming" /\ Save(p, row) /\ Keep(p, row) /\ Goto(p, "restoring")
        /\ UNCHANGED <<lease, base, submitted, artifactVars, req, event, runtimeVars, clientVars, crashes>>
    BY <1>2 DEF ConfirmCancel
  <2>2. row \in Row BY <1>0, RowTypes DEF WithStatus
  <2>. HIDE DEF row
  <2>3. RowsTyped' BY <2>1, <2>2, SaveRows DEF TypeOK
  <2>4. OwnStep(p) /\ pc'[p] = "restoring" BY <2>1, <2>2, KeepOwn, GotoOwn DEF Location
  <2>5. QED
    BY <2>1, <2>3, <2>4, SameArtifacts, SameRuntime DEF StepTyped, ProcessShape, clientVars, TypeOK
<1>3. CASE RestoreBase(p)
  <2>1. /\ pc[p] = "restoring" /\ req[p] \in Request /\ SetCurrentToBase(p)
        /\ UNCHANGED <<op, aged, base, submitted, runtimeVars, caught, cancels, crashes>>
        /\ (Finish(p) /\ Answer(p)) \/ (Goto(p, "recording") /\ UNCHANGED <<lease, req, copy, event, acked>>)
    BY <1>3 DEF RestoreBase, ProcessShape
  <2>2. ArtifactsTyped' BY <2>1, BackToBase
  <2>3. CASE Finish(p) /\ Answer(p)
    <3>1. RowsTyped' BY <2>1, <2>3, FinishTyped DEF RowsTyped, TypeOK
    <3>2. acked' \subseteq Request BY <2>1, <2>3 DEF Answer, TypeOK
    <3>3. QED BY <2>1, <2>2, <2>3, <3>1, <3>2, FinishTyped, SameRuntime DEF StepTyped
  <2>4. CASE Goto(p, "recording") /\ UNCHANGED <<lease, req, copy, event, acked>>
    <3>1. OwnStep(p) /\ pc'[p] = "recording" BY <2>4, SameCopy, GotoOwn DEF Location
    <3>2. QED BY <2>1, <2>2, <2>4, <3>1, SameRows, SameRuntime DEF StepTyped, ProcessShape, TypeOK
  <2>5. QED BY <2>1, <2>3, <2>4
<1>4. CASE RecordCancellation(p)
  <2>. DEFINE row == [copy[p] EXCEPT !.recorded = TRUE]
  <2>1. /\ pc[p] = "recording" /\ req[p] \in Request /\ Save(p, row) /\ Finish(p) /\ Answer(p)
        /\ UNCHANGED <<base, submitted, artifactVars, runtimeVars, caught, cancels, crashes>>
    BY <1>4 DEF RecordCancellation, ProcessShape
  <2>2. row \in Row BY <1>0 DEF Row
  <2>. HIDE DEF row
  <2>3. RowsTyped' BY <2>1, <2>2, FinishTyped, SaveRows
  <2>4. acked' \subseteq Request BY <2>1 DEF Answer, TypeOK
  <2>5. QED BY <2>1, <2>3, <2>4, FinishTyped, SameArtifacts, SameRuntime DEF StepTyped
<1>5. QED BY <1>1, <1>2, <1>3, <1>4 DEF TailStep

\* A handler or a reconciler comes, or a process is lost.
ProcessesTyped ==
    /\ pc \in [Process -> Location] /\ req \in [Process -> Request \cup {None}]
    /\ copy \in [Process -> Row] /\ event \in [Process -> Outcome \cup {"none"}]
    /\ \A p \in Process : ProcessShape(p)

LEMMA OwnStepTypes ==
    ASSUME TypeInvariant, NEW p \in Process, StepTyped(p), acked' \subseteq Request,
           caught' \subseteq Request, UNCHANGED <<cancels, crashes>>
    PROVE  TypeInvariant'
<1>1. ProcessesTyped' BY DEF TypeInvariant, StepTyped, OwnStep, ProcessesTyped, ProcessShape
<1>2. QED
  BY <1>1 DEF TypeInvariant, TypeOK, StepTyped, ProcessesTyped, RowsTyped, ArtifactsTyped, RuntimeTyped

LEMMA SubmitTypes ==
    ASSUME TypeInvariant, NEW r \in Request, NEW b \in DOMAIN artifacts, Submit(r, b)
    PROVE  TypeInvariant'
<1>. USE DEF TypeInvariant
<1>. DEFINE row == [NoRow EXCEPT !.status = "starting"]
<1>1. /\ pc' = [pc EXCEPT ![r] = "created"] /\ req' = [req EXCEPT ![r] = r]
      /\ op' = [op EXCEPT ![r] = row] /\ copy' = [copy EXCEPT ![r] = row]
      /\ base' = [base EXCEPT ![r] = b] /\ submitted' = Append(submitted, r)
      /\ UNCHANGED <<aged, lease, artifactVars, event, runtimeVars, clientVars, crashes>>
  BY DEF Submit, Goto
<1>2. row \in Row BY RowTypes DEF Active
<1>. HIDE DEF row
<1>3. ProcessesTyped' BY <1>1, <1>2 DEF ProcessesTyped, ProcessShape, TypeOK, Location, Process
<1>4. RowsTyped' BY <1>1, <1>2 DEF RowsTyped, TypeOK
<1>5. ArtifactsTyped' BY <1>1 DEF ArtifactsTyped, TypeOK, artifactVars
<1>6. RuntimeTyped' BY <1>1, SameRuntime
<1>7. QED
  BY <1>1, <1>3, <1>4, <1>5, <1>6
  DEF TypeOK, ProcessesTyped, RowsTyped, ArtifactsTyped, RuntimeTyped, clientVars

LEMMA ReadForCancelTypes ==
    ASSUME TypeInvariant, NEW c \in Canceller, NEW r \in Request, ReadForCancel(c, r)
    PROVE  TypeInvariant'
<1>. USE DEF TypeInvariant
<1>1. /\ cancels < MaxCancels /\ cancels' = cancels + 1
      /\ UNCHANGED <<rowVars, artifactVars, event, runtimeVars, caught, crashes>>
      /\ \/ /\ req' = [req EXCEPT ![c] = r] /\ copy' = [copy EXCEPT ![c] = op[r]]
            /\ pc' = [pc EXCEPT ![c] = "marking"] /\ acked' = acked
         \/ acked' \in {acked, acked \cup {r}} /\ UNCHANGED <<req, copy, pc>>
  BY DEF ReadForCancel, Goto
<1>2. c \in Process /\ c \notin Request /\ op[r] \in Row BY ProcessAssumption DEF Process, TypeOK
<1>3. ProcessesTyped'
  <2>1. CASE UNCHANGED <<req, copy, pc>>
    BY <1>1, <2>1 DEF ProcessesTyped, ProcessShape, TypeOK
  <2>2. CASE /\ req' = [req EXCEPT ![c] = r] /\ copy' = [copy EXCEPT ![c] = op[r]]
             /\ pc' = [pc EXCEPT ![c] = "marking"]
    BY <1>1, <1>2, <2>2 DEF ProcessesTyped, ProcessShape, TypeOK, Location
  <2>3. QED BY <1>1, <2>1, <2>2
<1>4. acked' \subseteq Request /\ cancels' \in 0 .. MaxCancels
  BY <1>1, BoundAssumption DEF TypeOK
<1>5. RowsTyped' /\ ArtifactsTyped' /\ RuntimeTyped'
  BY <1>1, SameRows, SameArtifacts, SameRuntime DEF rowVars
<1>6. QED
  BY <1>1, <1>3, <1>4, <1>5 DEF TypeOK, ProcessesTyped, RowsTyped, ArtifactsTyped, RuntimeTyped

LEMMA ClaimTypes ==
    ASSUME TypeInvariant, NEW w \in Reconciler, NEW r \in Request, Claim(w, r)
    PROVE  TypeInvariant'
<1>. USE DEF TypeInvariant
<1>1. /\ lease' = [lease EXCEPT ![r] = w] /\ req' = [req EXCEPT ![w] = r]
      /\ copy' = [copy EXCEPT ![w] = op[r]] /\ pc' = [pc EXCEPT ![w] = "reading"]
      /\ UNCHANGED <<op, aged, base, submitted, artifactVars, event, runtimeVars, clientVars, crashes>>
  BY DEF Claim, Goto
<1>2. w \in Process /\ w \notin Request /\ op[r] \in Row BY ProcessAssumption DEF Process, TypeOK
<1>3. ProcessesTyped' BY <1>1, <1>2 DEF ProcessesTyped, ProcessShape, TypeOK, Location
<1>4. RowsTyped' BY <1>1 DEF RowsTyped, TypeOK
<1>5. ArtifactsTyped' /\ RuntimeTyped' BY <1>1, SameArtifacts, SameRuntime
<1>6. QED
  BY <1>1, <1>3, <1>4, <1>5
  DEF TypeOK, ProcessesTyped, RowsTyped, ArtifactsTyped, RuntimeTyped, clientVars

LEMMA CrashTypes ==
    ASSUME TypeInvariant, NEW p \in Process, Crash(p)
    PROVE  TypeInvariant'
<1>. USE DEF TypeInvariant
<1>1. /\ crashes < MaxCrashes /\ crashes' = crashes + 1
      /\ pc' = [pc EXCEPT ![p] = "idle"] /\ req' = [req EXCEPT ![p] = None]
      /\ copy' = [copy EXCEPT ![p] = NoRow] /\ event' = [event EXCEPT ![p] = "none"]
      /\ gateway' = IF p \in Request THEN [gateway EXCEPT ![p] = "none"] ELSE gateway
      /\ intent' = IF p \in Request THEN [intent EXCEPT ![p] = FALSE] ELSE intent
      /\ lease' \in {lease, [r \in Request |-> IF lease[r] = p THEN None ELSE lease[r]]}
      /\ UNCHANGED <<op, aged, base, submitted, artifactVars, rt, run, clientVars>>
  BY DEF Crash
<1>2. ProcessesTyped' BY <1>1, RowTypes DEF ProcessesTyped, ProcessShape, TypeOK, Location
<1>3. RowsTyped' BY <1>1 DEF RowsTyped, TypeOK
<1>4. RuntimeTyped' BY <1>1 DEF RuntimeTyped, RunKnown, TypeOK
<1>5. crashes' \in 0 .. MaxCrashes BY <1>1, BoundAssumption DEF TypeOK
<1>6. ArtifactsTyped' BY <1>1, SameArtifacts
<1>7. QED
  BY <1>1, <1>2, <1>3, <1>4, <1>5, <1>6
  DEF TypeOK, ProcessesTyped, RowsTyped, ArtifactsTyped, RuntimeTyped, clientVars

\* The runtime executes, time passes.
LEMMA WorldTypes ==
    ASSUME TypeInvariant, NEW r \in Request,
           Age(r) \/ ExpireLease(r) \/ \E outcome \in Outcome : Execute(r, outcome)
    PROVE  TypeInvariant'
<1>. USE DEF TypeInvariant
<1>1. CASE Age(r) \/ ExpireLease(r)
  <2>1. /\ UNCHANGED <<op, base, submitted, artifactVars, processVars, runtimeVars, clientVars, crashes>>
        /\ aged' \in [Request -> BOOLEAN] /\ lease' \in [Request -> Reconciler \cup {None}]
    <3>1. CASE Age(r)
      <4>1. aged \in [Request -> BOOLEAN] /\ lease \in [Request -> Reconciler \cup {None}] BY DEF TypeOK
      <4>2. QED BY <3>1, <4>1 DEF Age
    <3>2. CASE ExpireLease(r)
      <4>1. aged \in [Request -> BOOLEAN] /\ lease \in [Request -> Reconciler \cup {None}] BY DEF TypeOK
      <4>2. QED BY <3>2, <4>1 DEF ExpireLease
    <3>3. QED BY <1>1, <3>1, <3>2
  <2>2. ArtifactsTyped' /\ RuntimeTyped' BY <2>1, SameArtifacts, SameRuntime
  <2>3. ProcessesTyped' BY <2>1 DEF ProcessesTyped, ProcessShape, processVars, TypeOK
  <2>4. QED
    BY <2>1, <2>2, <2>3 DEF TypeOK, ArtifactsTyped, RuntimeTyped, ProcessesTyped, clientVars
<1>2. ASSUME NEW outcome \in Outcome, Execute(r, outcome) PROVE TypeInvariant'
  <2>1. /\ run' = [run EXCEPT ![r] = outcome]
        /\ rt' = IF rt[r] = "cancelled" THEN rt
                 ELSE [rt EXCEPT ![r] = IF outcome = "failed" THEN "failed" ELSE "completed"]
        /\ UNCHANGED <<rowVars, artifactVars, processVars, gateway, intent, clientVars, crashes>>
    BY <1>2 DEF Execute
  <2>2. RuntimeTyped' BY <2>1 DEF RuntimeTyped, RunKnown, TypeOK
  <2>3. ProcessesTyped' BY <2>1 DEF ProcessesTyped, ProcessShape, processVars, TypeOK
  <2>4. RowsTyped' /\ ArtifactsTyped' BY <2>1, SameRows, SameArtifacts DEF rowVars
  <2>5. QED
    BY <2>1, <2>2, <2>3, <2>4 DEF TypeOK, RowsTyped, ArtifactsTyped, RuntimeTyped, ProcessesTyped, clientVars
<1>3. QED BY <1>1, <1>2

LEMMA TypeStep == TypeInvariant /\ [Next]_vars => TypeInvariant'
<1>. SUFFICES ASSUME TypeInvariant, [Next]_vars PROVE TypeInvariant'
  OBVIOUS
<1>1. acked \subseteq Request /\ caught \subseteq Request BY DEF TypeInvariant, TypeOK
<1>2. ASSUME NEW r \in Request, RefineStep(r) PROVE TypeInvariant'
  BY <1>1, <1>2, RefineStepTyped, OwnStepTypes DEF Process, clientVars
<1>3. ASSUME NEW c \in Canceller, CancelStep(c) PROVE TypeInvariant'
  BY <1>1, <1>3, CancelStepTyped, OwnStepTypes DEF Process, clientVars
<1>4. ASSUME NEW w \in Reconciler, ReconcileStep(w) PROVE TypeInvariant'
  BY <1>1, <1>4, ReconcileStepTyped, OwnStepTypes DEF Process, clientVars
<1>5. ASSUME NEW p \in Process, TailStep(p) PROVE TypeInvariant'
  BY <1>1, <1>5, TailStepTyped, OwnStepTypes
<1>6. CASE UNCHANGED vars
  BY <1>6 DEF TypeInvariant, TypeOK, RunKnown, ProcessShape, vars, rowVars, artifactVars, processVars,
              runtimeVars, clientVars
<1>7. QED
  BY <1>2, <1>3, <1>4, <1>5, <1>6, SubmitTypes, ReadForCancelTypes, ClaimTypes, CrashTypes, WorldTypes
  DEF Next

LEMMA TypeInit == Init => TypeInvariant
<1>. SUFFICES ASSUME Init PROVE TypeInvariant
  OBVIOUS
<1>. DEFINE first == [of |-> None, content |-> None]
<1>1. artifacts = <<first>> /\ first \in ArtifactSet BY DEF Init, ArtifactSet
<1>. HIDE DEF first
<1>2. artifacts \in Seq(ArtifactSet) /\ 1 \in DOMAIN artifacts BY <1>1
<1>3. NoRow \in Row /\ submitted \in Seq(Request)
  <2>1. submitted = <<>> BY DEF Init
  <2>2. submitted \in Seq(Request) BY <2>1
  <2>3. QED BY <2>2, RowTypes, Zenon
<1>4. QED
  BY <1>2, <1>3, BoundAssumption DEF Init, TypeInvariant, TypeOK, RunKnown, ProcessShape, Location

\* Every row, copy, artifact and event keeps its type, and a process at work has a
\* request, under any interleaving of handlers, crashes and clocks.
THEOREM TypeCorrect == Spec => []TypeInvariant
<1>1. TypeInvariant /\ [Next]_vars => TypeInvariant' BY TypeStep
<1>2. QED BY <1>1, TypeInit, PTL DEF Spec

-----------------------------------------------------------------------------
(* Whoever finishes an operation, as long as no cancel was requested.      *)

CancelPlaces ==
    {"dropping", "confirming", "restoring", "recording", "marking", "asking", "accepted",
     "refused", "refusing"}

Uncancelled(row) == ~row.cancelRequested /\ row.status \notin {"cancelling", "cancelled"}

\* Nothing was asked to be cancelled, in a row, in a copy, at the gateway or in the runtime.
NoCancel ==
    /\ \A p \in Process : pc[p] \notin CancelPlaces /\ Uncancelled(copy[p])
    /\ \A c \in Canceller : pc[c] = "idle"
    /\ \A r \in Request : Uncancelled(op[r]) /\ ~intent[r] /\ rt[r] # "cancelled"

\* At most the operation submitted last is active.
OneActive == \A r \in Request : IsActive(r) => submitted # <<>> /\ r = Latest

\* At most one process works, on the active operation: its handler until it is
\* lost, and afterwards the reconciler that holds the lease.
OneWorker ==
    /\ \A p \in Process : pc[p] # "idle" => IsActive(req[p])
    /\ \A p, q \in Process : pc[p] # "idle" /\ pc[q] # "idle" => p = q
    /\ \A w \in Reconciler : pc[w] # "idle" => lease[req[w]] = w
    /\ \A r \in Request : aged[r] => pc[r] = "idle" /\ op[r].status # "absent"

\* The base artifact is current, or a version that the latest refine made, which
\* takes an execution that did not fail; what is recorded says which.
VersionKnown == submitted # <<>> =>
    /\ current = base[Latest] \/ artifacts[current].of = Latest
    /\ run[Latest] \in {"unread", "executing", "failed"} => current = base[Latest]
    /\ op[Latest].status = "completed" => artifacts[current].of = Latest
    /\ op[Latest].status = "failed" => current = base[Latest] \/ Latest \in caught

\* Where a handler has applied nothing yet.
Unapplied == {"created", "opening", "creating", "consuming", "waiting", "received", "applying"}

WorkerKnows(p) ==
    /\ pc[p] \in Unapplied => current = base[Latest]
    /\ pc[p] = "catching" => Latest \in caught
    /\ pc[p] = "failing" => current = base[Latest] \/ Latest \in caught
    /\ pc[p] = "completing" => current # base[Latest]
    /\ pc[p] \in {"received", "applying"} /\ event[p] # "failed" => event[p] = run[req[p]]
    /\ pc[p] \in {"adopting", "finalizing", "verifying"} => event[p] = run[req[p]]

OutcomeKnown ==
    NoCancel /\ OneActive /\ OneWorker /\ VersionKnown /\ \A p \in Process : WorkerKnows(p)

OutcomeInvariant == TypeInvariant /\ (cancels = 0 => OutcomeKnown)

\* The steps that are left when nothing was cancelled.
HandlerStep(r) ==
    \/ StartRunning(r) \/ OpenGateway(r) \/ AgentCreated(r) \/ GatewayFails(r) \/ ConsumeStream(r)
    \/ EventArrives(r) \/ CheckEvent(r) \/ ApplyAndEnd(r) \/ ApplyFails(r) \/ CallFails(r)
    \/ EndRefine(r) \/ Judge(r) \/ Revert(r) \/ CatchError(r)

RecoveryStep(w) ==
    \/ ReadSnapshot(w) \/ RecoverStream(w) \/ FollowStream(w) \/ AdoptEvent(w)
    \/ RereadSnapshot(w) \/ Finalize(w) \/ Verify(w)

LEMMA StepsLeft ==
    /\ \A r \in Request : NoCancel /\ RefineStep(r) => HandlerStep(r)
    /\ \A c \in Canceller : NoCancel => ~CancelStep(c)
    /\ \A w \in Reconciler : NoCancel /\ ReconcileStep(w) => RecoveryStep(w)
    /\ \A p \in Process : NoCancel /\ TailStep(p) => Settle(p)
<1>1. ASSUME NoCancel, NEW r \in Request, RefineStep(r) PROVE HandlerStep(r)
  BY <1>1 DEF RefineStep, HandlerStep, NoCancel, CancelPlaces, DropAgent, Process
<1>2. ASSUME NoCancel, NEW c \in Canceller, CancelStep(c) PROVE FALSE
  BY <1>2 DEF NoCancel, CancelStep, MarkCancelling, StoreAnswer, RefuseCancel, CancelUnanswered, CancelFails,
              CancelAnswered
<1>3. ASSUME NoCancel, NEW w \in Reconciler, ReconcileStep(w) PROVE RecoveryStep(w)
  BY <1>3 DEF ReconcileStep, RecoveryStep, NoCancel, CancelPlaces, CancelRecovered, Process
<1>4. ASSUME NoCancel, NEW p \in Process, TailStep(p) PROVE Settle(p)
  BY <1>4 DEF TailStep, NoCancel, CancelPlaces, ConfirmCancel, RestoreBase, RecordCancellation
<1>5. QED BY <1>1, <1>2, <1>3, <1>4

\* What they do to the rows: a process keeps at work on an operation that stays
\* active, gives it up, or records its outcome.
GoesOn(p) ==
    /\ pc'[p] \notin CancelPlaces \cup {"idle"} /\ req'[p] = req[p] /\ lease' = lease
    /\ \A r \in Request : op'[r].status = op[r].status \/ (r = req[p] /\ op'[r].status = "running")

WorkStep(p) ==
    /\ pc[p] # "idle" /\ OwnStep(p) /\ UNCHANGED <<submitted, base, cancels>> /\ NoCancel'
    /\ \A r \in Request : aged'[r] => aged[r]
    /\ caught \subseteq caught'
    /\ \/ GoesOn(p)
       \/ Finish(p) /\ UNCHANGED op
       \/ Settle(p)

LEMMA PlainCopies ==
    ASSUME TypeInvariant, NoCancel, NEW p \in Process, StepTyped(p), p \notin Canceller,
           pc'[p] \notin CancelPlaces, Uncancelled(copy'[p]),
           \A r \in Request : Uncancelled(op'[r]) /\ ~intent'[r] /\ rt'[r] # "cancelled"
    PROVE  NoCancel'
BY DEF NoCancel, StepTyped, OwnStep, Process

LEMMA SavedPlain ==
    ASSUME TypeInvariant, NoCancel, NEW p \in Process, req[p] \in Request,
           NEW status \in {"running", "completed", "failed"}, Save(p, WithStatus(p, status))
    PROVE  /\ op' = [op EXCEPT ![req[p]] = WithStatus(p, status)]
           /\ Uncancelled(WithStatus(p, status)) /\ WithStatus(p, status).status = status
           /\ \A r \in Request : Uncancelled(op'[r])
           /\ \A r \in Request : aged'[r] => aged[r]
<1>1. copy[p] \in Row /\ Uncancelled(copy[p]) BY DEF NoCancel, TypeInvariant, TypeOK
<1>2. Uncancelled(WithStatus(p, status)) /\ WithStatus(p, status).status = status
  BY <1>1 DEF WithStatus, Uncancelled, Row
<1>3. op' = [op EXCEPT ![req[p]] = WithStatus(p, status)] BY DEF Save
<1>4. \A r \in Request : aged'[r] => aged[r] BY DEF Save, TypeInvariant, TypeOK
<1>5. \A r \in Request : Uncancelled(op'[r])
  BY <1>2, <1>3 DEF NoCancel, TypeInvariant, TypeOK
<1>6. QED BY <1>2, <1>3, <1>4, <1>5

LEMMA HandlerWork ==
    ASSUME TypeInvariant, NoCancel, NEW r \in Request, HandlerStep(r)
    PROVE  WorkStep(r) /\ GoesOn(r)
<1>. USE DEF TypeInvariant
<1>0. /\ r \in Process /\ r \notin Canceller /\ Uncancelled(copy[r]) /\ Uncancelled(op[r]) /\ ~intent[r]
      /\ ~op[r].cancelRequested
  BY ProcessAssumption DEF NoCancel, Process, Uncancelled
<1>1. RefineStep(r) BY DEF HandlerStep, RefineStep
<1>2. StepTyped(r) /\ pc[r] # "idle" /\ pc'[r] # "idle" /\ cancels' = cancels /\ req[r] = r
      /\ caught \subseteq caught'
  BY <1>0, <1>1, RefineStepTyped DEF ProcessShape
<1>3. UNCHANGED <<submitted, base, lease>> /\ req'[r] = req[r]
  BY DEF HandlerStep, StartRunning, OpenGateway, AgentCreated, GatewayFails, ConsumeStream,
         EventArrives, CheckEvent, ApplyAndEnd, ApplyFails, CallFails, ToCatch, EndRefine, Judge, Revert,
         CatchError, rowVars
<1>4. /\ Uncancelled(copy'[r])
      /\ \A q \in Request : Uncancelled(op'[q])
      /\ \A q \in Request : op'[q].status = op[q].status \/ (q = req[r] /\ op'[q].status = "running")
      /\ \A q \in Request : aged'[q] => aged[q]
  <2>1. CASE StartRunning(r)
    <3>1. CASE UNCHANGED <<op, aged, copy>> BY <1>0, <3>1 DEF NoCancel
    <3>2. CASE Save(r, WithStatus(r, "running")) /\ Keep(r, WithStatus(r, "running"))
      <4>1. /\ op' = [op EXCEPT ![r] = WithStatus(r, "running")]
            /\ Uncancelled(WithStatus(r, "running")) /\ WithStatus(r, "running").status = "running"
            /\ \A q \in Request : Uncancelled(op'[q])
            /\ \A q \in Request : aged'[q] => aged[q]
        BY <1>0, <1>2, <3>2, SavedPlain
      <4>2. copy'[r] = WithStatus(r, "running") BY <1>0, <3>2 DEF Keep, TypeOK
      <4>3. \A q \in Request : op'[q].status = op[q].status \/ (q = r /\ op'[q].status = "running")
        BY <4>1 DEF TypeOK
      <4>4. QED BY <1>2, <4>1, <4>2, <4>3
    <3>3. QED BY <2>1, <3>1, <3>2 DEF StartRunning
  <2>2. CASE ~StartRunning(r)
    <3>1. UNCHANGED <<op, aged>> /\ (copy' = copy \/ Keep(r, op[r]))
      BY <1>2, <2>2 DEF HandlerStep, OpenGateway, AgentCreated, GatewayFails, ConsumeStream,
         EventArrives, CheckEvent, ApplyAndEnd, ApplyFails, CallFails, ToCatch, EndRefine, Judge, Revert,
         CatchError, rowVars, Refresh
    <3>2. copy'[r] \in {copy[r], op[r]} BY <1>0, <3>1 DEF Keep, TypeOK
    <3>3. QED BY <1>0, <3>1, <3>2 DEF NoCancel
  <2>3. QED BY <2>1, <2>2
<1>5. /\ \A q \in Request : ~intent'[q] /\ rt'[q] # "cancelled"
      /\ pc'[r] \notin CancelPlaces
  <2>1. CASE OpenGateway(r) \/ AgentCreated(r) \/ ConsumeStream(r) \/ StartRunning(r)
    <3>1. intent' = intent
      BY <2>1 DEF OpenGateway, AgentCreated, ConsumeStream, StartRunning, runtimeVars
    <3>2. \A q \in Request : rt'[q] \in {rt[q], "queued", "running"}
      <4>1. \/ rt' = rt \/ rt' = [rt EXCEPT ![r] = "queued"]
            \/ rt' = [rt EXCEPT ![r] = "running"]
        BY <2>1 DEF OpenGateway, AgentCreated, ConsumeStream, StartRunning, Executing, runtimeVars
      <4>2. QED BY <4>1 DEF TypeOK
    <3>3. pc'[r] \in {"creating", "consuming", "waiting", "catching", "opening"}
      <4>1. \E place \in {"creating", "consuming", "waiting", "catching", "opening"} : Goto(r, place)
        BY <1>0, <2>1 DEF OpenGateway, AgentCreated, ConsumeStream, StartRunning
      <4>2. QED BY <1>0, <4>1 DEF Goto, TypeOK
    <3>4. QED BY <3>1, <3>2, <3>3 DEF NoCancel, CancelPlaces
  <2>2. CASE GatewayFails(r) \/ EventArrives(r) \/ CheckEvent(r) \/ ApplyAndEnd(r) \/ ApplyFails(r) \/ CallFails(r)
    <3>1. /\ rt' = rt /\ (intent' = intent \/ intent' = [intent EXCEPT ![r] = FALSE])
          /\ \E place \in {"ending", "received", "applying", "catching"} : Goto(r, place)
      BY <1>0, <1>2, <2>2 DEF GatewayFails, EventArrives, CheckEvent, ApplyAndEnd, ApplyFails, CallFails, ToCatch,
                              Receive, EndOfStream, LeaveStream
    <3>2. pc'[r] \notin CancelPlaces BY <1>0, <3>1 DEF Goto, CancelPlaces, TypeOK
    <3>3. intent \in [Request -> BOOLEAN] BY DEF TypeOK
    <3>4. \A q \in Request : ~intent[q] /\ rt[q] # "cancelled" BY DEF NoCancel
    <3>5. \A q \in Request : ~intent'[q]
      <4>1. CASE intent' = intent BY ONLY <3>4, <4>1
      <4>2. CASE intent' = [intent EXCEPT ![r] = FALSE] BY ONLY <3>3, <3>4, <4>2
      <4>3. QED BY <3>1, <4>1, <4>2
    <3>6. QED BY <3>1, <3>2, <3>4, <3>5
  <2>3. CASE EndRefine(r) \/ Judge(r) \/ Revert(r) \/ CatchError(r)
    <3>1. /\ UNCHANGED <<rt, intent>>
          /\ \E place \in {"judging", "completing", "reverting", "failing"} : Goto(r, place)
      BY <1>0, <1>2, <2>3 DEF EndRefine, Judge, Revert, CatchError, runtimeVars
    <3>2. pc'[r] \notin CancelPlaces BY <1>0, <3>1 DEF Goto, CancelPlaces, TypeOK
    <3>3. QED BY <3>1, <3>2 DEF NoCancel, TypeOK
  <2>4. QED BY <2>1, <2>2, <2>3 DEF HandlerStep
<1>6. NoCancel' BY <1>0, <1>2, <1>4, <1>5, PlainCopies
<1>7. GoesOn(r) BY <1>2, <1>3, <1>4, <1>5 DEF GoesOn
<1>8. QED BY <1>2, <1>3, <1>4, <1>6, <1>7 DEF WorkStep, StepTyped

LEMMA RecoveryWork ==
    ASSUME TypeInvariant, NoCancel, NEW w \in Reconciler, RecoveryStep(w)
    PROVE  WorkStep(w) /\ UNCHANGED <<op, caught>>
<1>. USE DEF TypeInvariant
<1>0. w \in Process /\ w \notin Canceller /\ Uncancelled(copy[w])
  BY ProcessAssumption DEF NoCancel, Process
<1>1. ReconcileStep(w) BY DEF RecoveryStep, ReconcileStep
<1>2. StepTyped(w) /\ pc[w] # "idle" /\ UNCHANGED <<caught, cancels>> /\ req[w] \in Request
  BY <1>0, <1>1, ReconcileStepTyped DEF clientVars, ProcessShape
<1>3. rt[req[w]] # "cancelled" BY <1>2 DEF NoCancel
<1>4. UNCHANGED <<op, aged, submitted, base>>
  BY DEF RecoveryStep, ReadSnapshot, RecoverStream, FollowStream, AdoptEvent, RereadSnapshot, Finalize,
         Verify, rowVars
<1>5. \/ Finish(w)
      \/ /\ pc'[w] \notin CancelPlaces \cup {"idle"} /\ req'[w] = req[w] /\ lease' = lease
         /\ copy'[w] = copy[w]
  <2>1. CASE ReadSnapshot(w)
    BY <1>0, <1>3, <2>1 DEF ReadSnapshot, Uncancelled, Goto, CancelPlaces, TypeOK
  <2>2. CASE RereadSnapshot(w)
    BY <1>0, <1>3, <2>2 DEF RereadSnapshot, Goto, CancelPlaces, TypeOK
  <2>3. CASE RecoverStream(w) \/ FollowStream(w) \/ AdoptEvent(w) \/ Finalize(w) \/ Verify(w)
    BY <1>0, <2>3 DEF RecoverStream, FollowStream, AdoptEvent, Finalize, Verify, Goto, CancelPlaces, TypeOK,
                      rowVars
  <2>4. QED BY <2>1, <2>2, <2>3 DEF RecoveryStep
<1>6. \A q \in Request : ~intent'[q] /\ rt'[q] # "cancelled"
  <2>1. CASE RecoverStream(w)
    <3>1. intent' = intent /\ (rt' = rt \/ Executing(req[w])) BY <2>1 DEF RecoverStream
    <3>2. QED BY <1>2, <3>1 DEF Executing, NoCancel, TypeOK
  <2>2. CASE ~RecoverStream(w)
    <3>1. intent' = intent /\ rt' = rt
      BY <2>2 DEF RecoveryStep, ReadSnapshot, FollowStream, AdoptEvent, RereadSnapshot, Finalize,
                  Verify, runtimeVars
    <3>2. QED BY <3>1 DEF NoCancel
  <2>3. QED BY <2>1, <2>2
<1>7. NoCancel'
  <2>1. pc'[w] \notin CancelPlaces /\ Uncancelled(copy'[w])
    BY <1>0, <1>5 DEF Finish, CancelPlaces, TypeOK, Uncancelled, NoRow
  <2>2. \A r \in Request : Uncancelled(op'[r]) BY <1>4 DEF NoCancel
  <2>3. QED BY <1>0, <1>2, <1>6, <2>1, <2>2, PlainCopies
<1>8. GoesOn(w) \/ (Finish(w) /\ UNCHANGED op) BY <1>4, <1>5 DEF GoesOn
<1>9. QED BY <1>2, <1>4, <1>7, <1>8 DEF WorkStep, StepTyped

LEMMA SettleWork ==
    ASSUME TypeInvariant, NoCancel, NEW p \in Process, Settle(p)
    PROVE  WorkStep(p)
<1>. USE DEF TypeInvariant
<1>. DEFINE status == IF pc[p] = "completing" THEN "completed" ELSE "failed"
<1>1. StepTyped(p) /\ pc[p] # "idle" /\ UNCHANGED <<caught, cancels>> /\ req[p] \in Request
  BY TailStepTyped DEF TailStep, ProcessShape
<1>2. Save(p, WithStatus(p, status)) /\ Finish(p) /\ UNCHANGED <<base, submitted, runtimeVars>>
  BY DEF Settle
<1>3. \A r \in Request : Uncancelled(op'[r]) /\ (aged'[r] => aged[r])
  <2>1. status \in {"running", "completed", "failed"} OBVIOUS
  <2>2. QED BY <1>1, <1>2, <2>1, SavedPlain
<1>4. pc'[p] = "idle" /\ copy'[p] = NoRow BY <1>2 DEF Finish, TypeOK
<1>5. Uncancelled(NoRow) BY DEF Uncancelled, NoRow
<1>6. p \notin Canceller BY <1>1 DEF NoCancel
<1>7. NoCancel' BY <1>1, <1>2, <1>3, <1>4, <1>5, <1>6, PlainCopies DEF CancelPlaces, runtimeVars, NoCancel
<1>8. QED BY <1>1, <1>2, <1>3, <1>7 DEF WorkStep, StepTyped

\* The worker works on the operation submitted last, and nobody else works.
LEMMA WorkerAlone ==
    ASSUME TypeInvariant, OutcomeKnown, NEW p \in Process, pc[p] # "idle"
    PROVE  /\ submitted # <<>> /\ req[p] \in Request /\ req[p] = Latest /\ IsActive(Latest)
           /\ \A q \in Process \ {p} : pc[q] = "idle"
<1>1. req[p] \in Request BY DEF TypeInvariant, ProcessShape
<1>2. IsActive(req[p]) /\ \A q \in Process \ {p} : pc[q] = "idle" BY DEF OutcomeKnown, OneWorker
<1>3. QED BY <1>1, <1>2 DEF OutcomeKnown, OneActive

LEMMA SettleRow ==
    ASSUME TypeInvariant, NoCancel, NEW p \in Process, Settle(p)
    PROVE  /\ \A r \in Request \ {req[p]} : op'[r] = op[r]
           /\ op'[req[p]].status = (IF pc[p] = "completing" THEN "completed" ELSE "failed")
           /\ pc[p] \in {"completing", "failing"}
<1>. DEFINE status == IF pc[p] = "completing" THEN "completed" ELSE "failed"
<1>1. Save(p, WithStatus(p, status)) /\ pc[p] \in {"completing", "failing"} BY DEF Settle
<1>2. req[p] \in Request BY <1>1 DEF TypeInvariant, ProcessShape
<1>3. status \in {"running", "completed", "failed"} OBVIOUS
<1>4. op' = [op EXCEPT ![req[p]] = WithStatus(p, status)] /\ WithStatus(p, status).status = status
  BY <1>1, <1>2, <1>3, SavedPlain
<1>. HIDE DEF status
<1>5. /\ \A r \in Request \ {req[p]} : op'[r] = op[r]
      /\ op'[req[p]].status = status
  BY <1>2, <1>4 DEF TypeInvariant, TypeOK
<1>6. QED BY <1>1, <1>5 DEF status

LEMMA WorkStepRows ==
    ASSUME TypeInvariant, OutcomeKnown, NEW p \in Process, WorkStep(p)
    PROVE  /\ OneActive' /\ OneWorker' /\ Latest' = Latest
           /\ \A q \in Process \ {p} : pc'[q] = "idle"
           /\ GoesOn(p) => IsActive(Latest)'
<1>. USE DEF TypeInvariant, OutcomeKnown
<1>1. /\ submitted # <<>> /\ req[p] \in Request /\ req[p] = Latest /\ IsActive(Latest)
      /\ \A q \in Process \ {p} : pc[q] = "idle"
  BY WorkerAlone DEF WorkStep
<1>2. submitted' = submitted /\ \A q \in Process \ {p} : pc'[q] = "idle"
  BY <1>1 DEF WorkStep, OwnStep
<1>3. Latest' = Latest BY <1>2 DEF Latest
<1>4. /\ \A r \in Request \ {Latest} : op'[r].status = op[r].status
      /\ op'[Latest].status \in {op[Latest].status, "running", "completed", "failed"}
      /\ GoesOn(p) => op'[Latest].status \in {op[Latest].status, "running"}
      /\ ~GoesOn(p) => pc'[p] = "idle"
  <2>1. CASE GoesOn(p) BY <1>1, <2>1 DEF GoesOn
  <2>2. CASE Finish(p) /\ UNCHANGED op BY <1>1, <2>2 DEF Finish, GoesOn, TypeOK
  <2>3. CASE Settle(p)
    <3>1. pc'[p] = "idle" BY <2>3 DEF Settle, Finish, TypeOK
    <3>2. QED BY <1>1, <2>3, <3>1, SettleRow DEF GoesOn
  <2>4. QED BY <2>1, <2>2, <2>3 DEF WorkStep
<1>5. OneActive' BY <1>1, <1>2, <1>3, <1>4 DEF OneActive, IsActive
<1>6. GoesOn(p) => IsActive(Latest)' BY <1>1, <1>3, <1>4 DEF IsActive, Active
<1>7. OneWorker'
  <2>1. \A q \in Process : pc'[q] # "idle" => q = p /\ GoesOn(p) /\ req'[q] = Latest
    BY <1>1, <1>2, <1>4 DEF GoesOn
  <2>2. \A q \in Process : pc'[q] # "idle" => IsActive(req[q])'
    BY <1>3, <1>6, <2>1
  <2>3. \A w \in Reconciler : pc'[w] # "idle" => lease'[req'[w]] = w
    BY <1>1, <2>1 DEF GoesOn, WorkStep, OneWorker, Process
  <2>4. \A r \in Request : aged'[r] => pc'[r] = "idle" /\ op'[r].status # "absent"
    <3>1. \A r \in Request : aged'[r] => aged[r] BY DEF WorkStep
    <3>2. \A r \in Request : aged[r] => r # p /\ op[r].status # "absent" BY DEF OneWorker, WorkStep
    <3>3. \A r \in Request : op[r].status # "absent" => op'[r].status # "absent"
      BY <1>4
    <3>4. QED BY <1>2, <3>1, <3>2, <3>3 DEF Process
  <2>5. QED BY <2>1, <2>2, <2>3, <2>4 DEF OneWorker
<1>8. QED BY <1>2, <1>3, <1>5, <1>6, <1>7

\* Steps after which the operation is still active: what is left to show.
LEMMA KnownAfter ==
    ASSUME TypeInvariant, OutcomeKnown, NEW p \in Process, WorkStep(p), GoesOn(p),
           current' = base[Latest] \/ artifacts'[current'].of = Latest,
           run'[Latest] \in {"unread", "executing", "failed"} => current' = base[Latest],
           pc'[p] \in Unapplied => current' = base[Latest],
           pc'[p] = "catching" => Latest \in caught',
           pc'[p] = "failing" => current' = base[Latest] \/ Latest \in caught',
           pc'[p] = "completing" => current' # base[Latest],
           pc'[p] \in {"received", "applying"} /\ event'[p] # "failed" => event'[p] = run'[Latest],
           pc'[p] \in {"adopting", "finalizing", "verifying"} => event'[p] = run'[Latest]
    PROVE  OutcomeKnown'
<1>1. /\ OneActive' /\ OneWorker' /\ Latest' = Latest /\ IsActive(Latest)'
      /\ \A q \in Process \ {p} : pc'[q] = "idle"
  BY WorkStepRows
<1>2. NoCancel' /\ base' = base BY DEF WorkStep
<1>3. VersionKnown' BY <1>1, <1>2 DEF VersionKnown, IsActive, Active
<1>4. req'[p] = Latest BY WorkerAlone DEF WorkStep, GoesOn
<1>5. WorkerKnows(p)' BY <1>1, <1>2, <1>4 DEF WorkerKnows
<1>6. \A q \in Process \ {p} : WorkerKnows(q)' BY <1>1 DEF WorkerKnows, Unapplied
<1>7. QED BY <1>1, <1>2, <1>3, <1>5, <1>6 DEF OutcomeKnown

\* The version an applied event makes.
LEMMA AppliedVersion ==
    ASSUME TypeInvariant, NEW p \in Process, req[p] \in Request, ApplyEvent(p), event[p] # "failed"
    PROVE  artifacts'[current'].of = req[p] /\ current' # base[req[p]]
<1>. DEFINE content == IF event[p] = "changed" THEN req[p] ELSE artifacts[base[req[p]]].content
            a == [of |-> req[p], content |-> content]
<1>1. artifacts' = Append(artifacts, a) /\ current' = Len(artifacts) + 1 BY DEF ApplyEvent
<1>2. a.of = req[p] OBVIOUS
<1>. HIDE DEF a
<1>3. artifacts'[Len(artifacts) + 1] = a BY <1>1 DEF TypeInvariant, TypeOK
<1>4. base[req[p]] \in 1 .. Len(artifacts) /\ Len(artifacts) \in Nat BY DEF TypeInvariant, TypeOK
<1>5. QED BY <1>1, <1>2, <1>3, <1>4

LEMMA HandlerKnows ==
    ASSUME TypeInvariant, OutcomeKnown, NEW r \in Request, HandlerStep(r)
    PROVE  OutcomeKnown'
<1>. USE DEF TypeInvariant
<1>0. r \in Process /\ NoCancel BY DEF Process, OutcomeKnown
<1>1. WorkStep(r) /\ GoesOn(r) /\ pc[r] # "idle" BY <1>0, HandlerWork DEF WorkStep
<1>2. req[r] = r /\ r = Latest /\ submitted # <<>>
  BY <1>0, <1>1, WorkerAlone DEF ProcessShape
<1>3. WorkerKnows(r) /\ VersionKnown /\ ~intent[r] /\ Uncancelled(op[r])
  BY <1>0 DEF OutcomeKnown, NoCancel
<1>4. /\ current = base[r] \/ artifacts[current].of = r
      /\ run[r] \in {"unread", "executing", "failed"} => current = base[r]
  BY <1>2, <1>3 DEF VersionKnown
<1>5. CASE StartRunning(r) \/ OpenGateway(r) \/ AgentCreated(r) \/ ConsumeStream(r)
  <2>1. /\ UNCHANGED artifactVars /\ pc[r] \in Unapplied
        /\ \E place \in {"catching", "opening", "creating", "consuming", "waiting"} :
              Goto(r, place) /\ (place = "catching" => r \in caught')
    BY <1>3, <1>5 DEF StartRunning, OpenGateway, AgentCreated, ConsumeStream, Unapplied
  <2>2. /\ pc'[r] \in {"catching", "opening", "creating", "consuming", "waiting"}
        /\ pc'[r] = "catching" => r \in caught'
    BY <1>0, <2>1 DEF Goto, TypeOK
  <2>3. current = base[r] BY <1>2, <1>3, <2>1 DEF WorkerKnows
  <2>4. QED BY <1>0, <1>1, <1>2, <2>1, <2>2, <2>3, KnownAfter DEF artifactVars
<1>6. CASE GatewayFails(r) \/ EventArrives(r)
  <2>1. /\ UNCHANGED <<artifactVars, run>> /\ pc[r] \in Unapplied
        /\ pc' = [pc EXCEPT ![r] = "received"]
        /\ \/ event' = [event EXCEPT ![r] = "failed"]
           \/ event' = [event EXCEPT ![r] = run[r]]
    BY <1>3, <1>6 DEF GatewayFails, EventArrives, Receive, Goto, Unapplied
  <2>2. pc'[r] = "received" /\ event'[r] \in {"failed", run[r]} BY <1>0, <2>1 DEF TypeOK
  <2>3. current = base[r] BY <1>2, <1>3, <2>1 DEF WorkerKnows
  <2>4. QED BY <1>0, <1>1, <1>2, <2>1, <2>2, <2>3, KnownAfter DEF artifactVars
<1>7. CASE CheckEvent(r)
  <2>1. UNCHANGED <<artifactVars, run, event>> /\ pc[r] = "received" /\ Goto(r, "applying")
    BY <1>3, <1>7 DEF CheckEvent, Uncancelled
  <2>2. pc'[r] = "applying" BY <1>0, <2>1 DEF Goto, TypeOK
  <2>3. current = base[r] /\ (event[r] # "failed" => event[r] = run[r])
    BY <1>2, <1>3, <2>1 DEF WorkerKnows, Unapplied
  <2>4. QED BY <1>0, <1>1, <1>2, <2>1, <2>2, <2>3, KnownAfter DEF artifactVars
<1>8. CASE ApplyFails(r) \/ CallFails(r)
  <2>1. /\ run' = run /\ Goto(r, "catching") /\ r \in caught'
        /\ UNCHANGED artifactVars \/ (pc[r] = "applying" /\ ApplyEvent(r))
    BY <1>8 DEF ApplyFails, CallFails, ToCatch, LeaveStream
  <2>2. pc'[r] = "catching" BY <1>0, <2>1 DEF Goto, TypeOK
  <2>3. CASE UNCHANGED artifactVars
    BY <1>0, <1>1, <1>2, <1>4, <2>1, <2>2, <2>3, KnownAfter DEF artifactVars, Unapplied
  <2>4. CASE pc[r] = "applying" /\ ApplyEvent(r)
    <3>1. event[r] # "failed" => event[r] = run[r] /\ event[r] \in Outcome
      BY <1>0, <1>2, <1>3, <2>4 DEF WorkerKnows, ProcessShape
    <3>2. CASE event[r] = "failed"
      <4>1. UNCHANGED artifactVars BY <2>4, <3>2 DEF ApplyEvent
      <4>2. QED BY <2>3, <4>1
    <3>3. CASE event[r] # "failed"
      <4>1. artifacts'[current'].of = r BY <1>0, <1>2, <2>4, <3>3, AppliedVersion
      <4>2. run[r] \notin {"unread", "executing", "failed"} BY <3>1, <3>3 DEF Outcome
      <4>3. QED BY <1>0, <1>1, <1>2, <2>1, <2>2, <4>1, <4>2, KnownAfter DEF Unapplied
    <3>4. QED BY <3>2, <3>3
  <2>5. QED BY <2>1, <2>3, <2>4
<1>9. CASE ApplyAndEnd(r)
  <2>1. run' = run /\ pc[r] = "applying" /\ ApplyEvent(r) /\ Goto(r, "ending")
    BY <1>9 DEF ApplyAndEnd, EndOfStream, LeaveStream
  <2>2. pc'[r] = "ending" BY <1>0, <2>1 DEF Goto, TypeOK
  <2>3. current = base[r] /\ (event[r] # "failed" => event[r] = run[r]) /\ event[r] \in Outcome
    BY <1>0, <1>2, <1>3, <2>1 DEF WorkerKnows, Unapplied, ProcessShape
  <2>4. CASE event[r] = "failed"
    <3>1. current' = current BY <2>1, <2>4 DEF ApplyEvent, artifactVars
    <3>2. QED BY <1>0, <1>1, <1>2, <2>1, <2>2, <2>3, <3>1, KnownAfter DEF Unapplied
  <2>5. CASE event[r] # "failed"
    <3>1. artifacts'[current'].of = r BY <1>0, <1>2, <2>1, <2>5, AppliedVersion
    <3>2. run[r] \notin {"unread", "executing", "failed"} BY <2>3, <2>5 DEF Outcome
    <3>3. QED BY <1>0, <1>1, <1>2, <2>1, <2>2, <3>1, <3>2, KnownAfter DEF Unapplied
  <2>6. QED BY <2>4, <2>5
<1>10. CASE EndRefine(r) \/ CatchError(r)
  <2>1. /\ UNCHANGED <<artifactVars, run>>
        /\ \/ Goto(r, "judging")
           \/ pc[r] = "catching" /\ Goto(r, "failing")
    BY <1>2, <1>3, <1>10 DEF EndRefine, CatchError, Uncancelled, runtimeVars
  <2>2. pc'[r] = "judging" \/ (pc'[r] = "failing" /\ pc[r] = "catching") BY <1>0, <2>1 DEF Goto, TypeOK
  <2>3. pc[r] = "catching" => r \in caught' BY <1>1, <1>2, <1>3 DEF WorkerKnows, WorkStep
  <2>4. QED BY <1>0, <1>1, <1>2, <1>4, <2>1, <2>2, <2>3, KnownAfter DEF artifactVars, Unapplied
<1>11. CASE Judge(r)
  <2>1. /\ UNCHANGED <<artifactVars, run>>
        /\ \/ Goto(r, "reverting")
           \/ ProducedChange(r) /\ Goto(r, "completing")
    BY <1>11 DEF Judge, runtimeVars
  <2>2. pc'[r] = "reverting" \/ (pc'[r] = "completing" /\ ProducedChange(r)) BY <1>0, <2>1 DEF Goto, TypeOK
  <2>3. ProducedChange(r) => current # base[r] BY DEF ProducedChange, TypeOK
  <2>4. QED BY <1>0, <1>1, <1>2, <1>4, <2>1, <2>2, <2>3, KnownAfter DEF artifactVars, Unapplied
<1>12. CASE Revert(r)
  <2>1. current' = base[r] /\ run' = run /\ Goto(r, "failing")
    BY <1>2, <1>12 DEF Revert, SetCurrentToBase, runtimeVars
  <2>2. pc'[r] = "failing" BY <1>0, <2>1 DEF Goto, TypeOK
  <2>3. QED BY <1>0, <1>1, <1>2, <2>1, <2>2, KnownAfter
<1>13. QED BY <1>5, <1>6, <1>7, <1>8, <1>9, <1>10, <1>11, <1>12 DEF HandlerStep

\* Giving an operation up, or recording its outcome.
LEMMA EndKnows ==
    ASSUME TypeInvariant, OutcomeKnown, NEW p \in Process, WorkStep(p), ~GoesOn(p),
           UNCHANGED <<artifactVars, run, caught>>
    PROVE  OutcomeKnown'
<1>. USE DEF TypeInvariant
<1>1. /\ OneActive' /\ OneWorker' /\ Latest' = Latest /\ NoCancel' /\ base' = base /\ submitted' = submitted
      /\ \A q \in Process \ {p} : pc'[q] = "idle"
  BY WorkStepRows DEF WorkStep
<1>2. submitted # <<>> /\ req[p] = Latest /\ IsActive(Latest) /\ Latest \in Request
  BY WorkerAlone DEF WorkStep
<1>3. VersionKnown /\ WorkerKnows(p) BY DEF OutcomeKnown
<1>4. CASE Finish(p) /\ UNCHANGED op
  <2>1. pc'[p] = "idle" BY <1>4 DEF Finish, TypeOK
  <2>2. \A q \in Process : WorkerKnows(q)' BY <1>1, <2>1 DEF WorkerKnows, Unapplied
  <2>3. VersionKnown' BY <1>1, <1>3, <1>4 DEF VersionKnown, artifactVars
  <2>4. QED BY <1>1, <2>2, <2>3 DEF OutcomeKnown
<1>5. CASE Settle(p)
  <2>1. pc'[p] = "idle" BY <1>5 DEF Settle, Finish, TypeOK
  <2>2. \A q \in Process : WorkerKnows(q)' BY <1>1, <2>1 DEF WorkerKnows, Unapplied
  <2>3. /\ op'[Latest].status = (IF pc[p] = "completing" THEN "completed" ELSE "failed")
        /\ pc[p] \in {"completing", "failing"}
    BY <1>2, <1>5, SettleRow DEF OutcomeKnown
  <2>4. VersionKnown' BY <1>1, <1>2, <1>3, <2>3 DEF VersionKnown, WorkerKnows, Unapplied, artifactVars
  <2>5. QED BY <1>1, <2>2, <2>4 DEF OutcomeKnown
<1>6. QED BY <1>4, <1>5 DEF WorkStep

LEMMA RecoveryKnows ==
    ASSUME TypeInvariant, OutcomeKnown, NEW w \in Reconciler, RecoveryStep(w)
    PROVE  OutcomeKnown'
<1>. USE DEF TypeInvariant
<1>0. w \in Process /\ NoCancel BY DEF Process, OutcomeKnown
<1>1. WorkStep(w) /\ UNCHANGED <<op, caught>> BY <1>0, RecoveryWork
<1>2. req[w] = Latest /\ submitted # <<>> /\ req[w] \in Request
  BY <1>0, <1>1, WorkerAlone DEF WorkStep
<1>3. WorkerKnows(w) /\ VersionKnown BY <1>0 DEF OutcomeKnown
<1>. DEFINE r == req[w]
<1>4. /\ current = base[r] \/ artifacts[current].of = r
      /\ run[r] \in {"unread", "executing", "failed"} => current = base[r]
      /\ pc[w] \in {"adopting", "finalizing", "verifying"} => event[w] = run[r] /\ event[w] \in Outcome
  BY <1>0, <1>2, <1>3 DEF VersionKnown, WorkerKnows, ProcessShape
<1>5. ~GoesOn(w) /\ UNCHANGED <<artifactVars, run>> => OutcomeKnown'
  BY <1>0, <1>1, EndKnows
<1>6. CASE ReadSnapshot(w)
  <2>1. /\ UNCHANGED <<artifactVars, run>>
        /\ \/ Goto(w, "finalizing") /\ event' = [event EXCEPT ![w] = run[r]]
           \/ Goto(w, "recovering")
           \/ rt[r] = "not_found" /\ Goto(w, "failing")
           \/ pc'[w] \in CancelPlaces
    BY <1>0, <1>6 DEF ReadSnapshot, runtimeVars, Goto, CancelPlaces, TypeOK
  <2>2. \/ pc'[w] = "finalizing" /\ event'[w] = run[r]
        \/ pc'[w] = "recovering"
        \/ rt[r] = "not_found" /\ pc'[w] = "failing"
        \/ pc'[w] \in CancelPlaces
    BY <1>0, <2>1 DEF Goto, TypeOK
  <2>3. rt[r] = "not_found" => current = base[r] BY <1>2, <1>4 DEF RunKnown
  <2>4. pc'[w] \notin CancelPlaces BY <1>0, <1>1 DEF WorkStep, NoCancel
  <2>5. GoesOn(w)
    <3>1. ~Settle(w) BY <1>6 DEF Settle, ReadSnapshot
    <3>2. ~Finish(w) BY <1>0, <2>2, <2>4 DEF Finish, TypeOK
    <3>3. QED BY <1>1, <3>1, <3>2 DEF WorkStep
  <2>6. CASE pc'[w] = "finalizing" /\ event'[w] = run[r]
    BY <1>0, <1>1, <1>2, <1>4, <2>1, <2>5, <2>6, KnownAfter DEF artifactVars, Unapplied
  <2>7. CASE pc'[w] = "recovering"
    BY <1>0, <1>1, <1>2, <1>4, <2>1, <2>5, <2>7, KnownAfter DEF artifactVars, Unapplied
  <2>8. CASE rt[r] = "not_found" /\ pc'[w] = "failing"
    BY <1>0, <1>1, <1>2, <1>4, <2>1, <2>3, <2>5, <2>8, KnownAfter DEF artifactVars, Unapplied
  <2>9. QED BY <2>2, <2>4, <2>6, <2>7, <2>8
<1>7. CASE RecoverStream(w)
  <2>1. UNCHANGED artifactVars /\ \E place \in {"following", "rereading"} : Goto(w, place)
    BY <1>7 DEF RecoverStream
  <2>2. pc'[w] \in {"following", "rereading"} BY <1>0, <2>1 DEF Goto, TypeOK
  <2>3. run'[r] # run[r] => run[r] = "unread"
    BY <1>2, <1>7 DEF RecoverStream
  <2>4. /\ current' = current /\ artifacts' = artifacts
        /\ run'[r] \in {"unread", "executing", "failed"} => current = base[r]
    BY <1>4, <2>1, <2>3 DEF artifactVars
  <2>5. GoesOn(w)
    <3>1. ~Settle(w) BY <1>7 DEF Settle, RecoverStream
    <3>2. ~Finish(w) BY <1>0, <2>2 DEF Finish, TypeOK
    <3>3. QED BY <1>1, <3>1, <3>2 DEF WorkStep
  <2>6. QED BY <1>0, <1>1, <1>2, <1>4, <2>2, <2>4, <2>5, KnownAfter DEF Unapplied
<1>8. CASE FollowStream(w)
  <2>1. /\ UNCHANGED <<artifactVars, run>> /\ Goto(w, "adopting") /\ event' = [event EXCEPT ![w] = run[r]]
    BY <1>8 DEF FollowStream, runtimeVars
  <2>2. pc'[w] = "adopting" /\ event'[w] = run[r] BY <1>0, <2>1 DEF Goto, TypeOK
  <2>3. QED BY <1>0, <1>1, <1>2, <1>4, <1>5, <2>1, <2>2, KnownAfter DEF artifactVars, Unapplied
<1>9. CASE AdoptEvent(w) \/ Finalize(w)
  <2>1. /\ run' = run /\ event' = event /\ pc[w] \in {"adopting", "finalizing"} /\ Goto(w, "verifying")
        /\ \/ ApplyEvent(w)
           \/ event[w] # "failed" /\ artifacts[current].of = r /\ UNCHANGED artifactVars
    BY <1>9 DEF AdoptEvent, Finalize, runtimeVars
  <2>2. pc'[w] = "verifying" /\ event'[w] = run'[r] BY <1>0, <1>4, <2>1 DEF Goto, TypeOK
  <2>3. /\ current' = base[r] \/ artifacts'[current'].of = r
        /\ run[r] \in {"unread", "executing", "failed"} => current' = base[r]
    <3>1. CASE UNCHANGED artifactVars BY <1>4, <3>1 DEF artifactVars
    <3>2. CASE ApplyEvent(w) /\ event[w] = "failed"
      BY <1>4, <3>2 DEF ApplyEvent, artifactVars
    <3>3. CASE ApplyEvent(w) /\ event[w] # "failed"
      <4>1. artifacts'[current'].of = r BY <1>0, <1>2, <3>3, AppliedVersion
      <4>2. run[r] \notin {"unread", "executing", "failed"} BY <1>4, <2>1, <3>3 DEF Outcome
      <4>3. QED BY <4>1, <4>2
    <3>4. QED BY <2>1, <3>1, <3>2, <3>3
  <2>4. CASE GoesOn(w)
    BY <1>0, <1>1, <1>2, <2>1, <2>2, <2>3, <2>4, KnownAfter DEF Unapplied
  <2>5. GoesOn(w)
    <3>1. ~Settle(w) BY <2>1 DEF Settle
    <3>2. ~Finish(w) BY <1>0, <2>2 DEF Finish, TypeOK
    <3>3. QED BY <1>1, <3>1, <3>2 DEF WorkStep
  <2>6. QED BY <2>4, <2>5
<1>10. CASE RereadSnapshot(w)
  <2>1. UNCHANGED <<artifactVars, run>> BY <1>10 DEF RereadSnapshot, runtimeVars
  <2>2. CASE ~GoesOn(w) BY <1>5, <2>1, <2>2
  <2>3. CASE GoesOn(w)
    <3>1. \/ pc'[w] = "confirming" \/ pc'[w] = "idle"
          \/ pc'[w] = "finalizing" /\ event'[w] = run[r]
      BY <1>0, <1>10 DEF RereadSnapshot, Goto, Finish, TypeOK
    <3>2. pc'[w] = "finalizing" /\ event'[w] = run[r]
      BY <2>3, <3>1 DEF GoesOn, CancelPlaces
    <3>3. QED BY <1>0, <1>1, <1>2, <1>4, <2>1, <2>3, <3>2, KnownAfter DEF artifactVars, Unapplied
  <2>4. QED BY <2>2, <2>3
<1>11. CASE Verify(w)
  <2>1. /\ run' = run /\ pc[w] = "verifying"
        /\ \/ event[w] # "failed" /\ ~ProducedChange(r) /\ current' = base[r] /\ Goto(w, "failing")
           \/ event[w] # "failed" /\ ProducedChange(r) /\ UNCHANGED artifactVars /\ Goto(w, "completing")
           \/ event[w] = "failed" /\ UNCHANGED artifactVars /\ Goto(w, "failing")
    BY <1>11 DEF Verify, SetCurrentToBase, runtimeVars
  <2>2. \/ pc'[w] = "failing" /\ current' = base[r]
        \/ pc'[w] = "completing" /\ UNCHANGED artifactVars /\ ProducedChange(r) /\ event[w] # "failed"
    BY <1>0, <1>4, <2>1 DEF Goto, TypeOK, artifactVars
  <2>3. ProducedChange(r) => current # base[r] BY <1>2 DEF ProducedChange, TypeOK
  <2>4. GoesOn(w)
    <3>1. ~Settle(w) BY <2>1 DEF Settle
    <3>2. ~Finish(w) BY <1>0, <2>2 DEF Finish, TypeOK
    <3>3. QED BY <1>1, <3>1, <3>2 DEF WorkStep
  <2>5. CASE pc'[w] = "failing" /\ current' = base[r]
    BY <1>0, <1>1, <1>2, <2>1, <2>4, <2>5, KnownAfter DEF Unapplied
  <2>6. CASE pc'[w] = "completing" /\ UNCHANGED artifactVars /\ ProducedChange(r)
    BY <1>0, <1>1, <1>2, <1>4, <2>1, <2>3, <2>4, <2>6, KnownAfter DEF Unapplied, artifactVars
  <2>7. QED BY <2>2, <2>5, <2>6
<1>12. QED BY <1>6, <1>7, <1>8, <1>9, <1>10, <1>11 DEF RecoveryStep

-----------------------------------------------------------------------------
(* The operations come one after the other, and time passes.               *)

LEMMA SubmitKnows ==
    ASSUME TypeInvariant, OutcomeKnown, ~AnyBase, NEW r \in Request, NEW b \in DOMAIN artifacts,
           Submit(r, b), cancels' = cancels
    PROVE  OutcomeKnown'
<1>. USE DEF TypeInvariant
<1>. DEFINE row == [NoRow EXCEPT !.status = "starting"]
<1>0. r \in Process /\ NoCancel /\ r \notin Canceller /\ r \notin Reconciler
  BY ProcessAssumption DEF Process, OutcomeKnown
<1>1. /\ op[r].status = "absent" /\ b = current /\ \A q \in Request : ~IsActive(q)
      /\ req' = [req EXCEPT ![r] = r] /\ op' = [op EXCEPT ![r] = row] /\ copy' = [copy EXCEPT ![r] = row]
      /\ base' = [base EXCEPT ![r] = b] /\ submitted' = Append(submitted, r)
      /\ pc' = [pc EXCEPT ![r] = "created"]
      /\ UNCHANGED <<aged, lease, artifactVars, event, runtimeVars>>
  BY DEF Submit, Goto
<1>2. row.status = "starting" /\ Uncancelled(row) BY DEF Uncancelled, NoRow
<1>. HIDE DEF row
<1>3. \A p \in Process : pc[p] = "idle"
  <2>1. \A p \in Process : pc[p] # "idle" => IsActive(req[p]) /\ req[p] \in Request
    BY DEF OutcomeKnown, OneWorker, ProcessShape
  <2>2. QED BY <1>1, <2>1
<1>4. submitted' # <<>> /\ Latest' = r
  <2>1. submitted \in Seq(Request) BY DEF TypeOK
  <2>2. Len(submitted') = Len(submitted) + 1 /\ Len(submitted) \in Nat BY <1>1, <2>1
  <2>3. submitted'[Len(submitted) + 1] = r BY <1>1, <2>1
  <2>4. QED BY <2>2, <2>3 DEF Latest
<1>5. /\ op'[r] = row /\ \A q \in Request \ {r} : op'[q] = op[q]
      /\ pc'[r] = "created" /\ \A p \in Process \ {r} : pc'[p] = "idle"
      /\ req'[r] = r /\ base'[r] = current /\ copy'[r] = row
      /\ \A p \in Process \ {r} : copy'[p] = copy[p]
  BY <1>0, <1>1, <1>3 DEF TypeOK
<1>6. NoCancel' BY <1>0, <1>1, <1>2, <1>5 DEF NoCancel, CancelPlaces, runtimeVars, Process
<1>7. OneActive' BY <1>1, <1>4, <1>5 DEF OneActive, IsActive
<1>8. OneWorker'
  <2>1. IsActive(r)' BY <1>2, <1>5 DEF IsActive, Active
  <2>2. \A q \in Request : aged'[q] => pc'[q] = "idle" /\ op'[q].status # "absent"
    BY <1>1, <1>5 DEF OutcomeKnown, OneWorker, Process
  <2>3. QED BY <1>0, <1>5, <2>1, <2>2 DEF OneWorker, Process
<1>9. VersionKnown' BY <1>1, <1>2, <1>4, <1>5 DEF VersionKnown, artifactVars
<1>10. \A p \in Process : WorkerKnows(p)'
  BY <1>1, <1>4, <1>5 DEF WorkerKnows, Unapplied, artifactVars
<1>11. QED BY <1>6, <1>7, <1>8, <1>9, <1>10 DEF OutcomeKnown

LEMMA ExecuteKnows ==
    ASSUME TypeInvariant, OutcomeKnown, NEW r \in Request, NEW outcome \in Outcome, Execute(r, outcome)
    PROVE  OutcomeKnown'
<1>. USE DEF TypeInvariant
<1>1. /\ run[r] = "executing" /\ run' = [run EXCEPT ![r] = outcome]
      /\ UNCHANGED <<rowVars, artifactVars, processVars, gateway, intent, caught>>
  BY DEF Execute, clientVars
<1>2. \A q \in Request : rt'[q] # "cancelled"
  <2>1. rt[r] # "cancelled" /\ \A q \in Request : rt[q] # "cancelled"
    BY DEF OutcomeKnown, NoCancel
  <2>2. \E s \in {"failed", "completed"} : rt' = [rt EXCEPT ![r] = s]
    BY <2>1 DEF Execute
  <2>3. QED BY <2>1, <2>2 DEF TypeOK
<1>3. NoCancel' BY <1>1, <1>2 DEF OutcomeKnown, NoCancel, rowVars, processVars
<1>4. OneActive' /\ OneWorker' /\ Latest' = Latest
  BY <1>1 DEF OutcomeKnown, OneActive, OneWorker, IsActive, Latest, rowVars, processVars
<1>5. VersionKnown'
  <2>1. run'[Latest] \in {"unread", "executing", "failed"} =>
            run[Latest] \in {"unread", "executing", "failed"}
    BY <1>1 DEF TypeOK
  <2>2. QED BY <1>1, <1>4, <2>1 DEF OutcomeKnown, VersionKnown, rowVars, artifactVars
<1>6. ASSUME NEW p \in Process PROVE WorkerKnows(p)'
  <2>1. pc[p] \in {"received", "applying"} /\ event[p] # "failed" =>
            event[p] \in Outcome /\ event[p] = run[req[p]]
    BY DEF OutcomeKnown, WorkerKnows, ProcessShape
  <2>2. pc[p] \in {"adopting", "finalizing", "verifying"} => event[p] \in Outcome /\ event[p] = run[req[p]]
    BY DEF OutcomeKnown, WorkerKnows, ProcessShape
  <2>3. run[req[p]] \in Outcome => run'[req[p]] = run[req[p]]
    BY <1>1 DEF TypeOK, Outcome
  <2>4. QED BY <1>1, <1>4, <2>1, <2>2, <2>3 DEF OutcomeKnown, WorkerKnows, processVars, artifactVars, rowVars
<1>7. QED BY <1>3, <1>4, <1>5, <1>6 DEF OutcomeKnown

\* Time passes: a row gets old, or a lease ends, while nobody works on it.
LEMMA TimeKnows ==
    ASSUME TypeInvariant, OutcomeKnown, ~SlowRefines, NEW r \in Request, Age(r) \/ ExpireLease(r)
    PROVE  OutcomeKnown'
<1>. USE DEF TypeInvariant
<1>1. UNCHANGED <<op, base, submitted, artifactVars, processVars, runtimeVars, caught>>
  BY DEF Age, ExpireLease, clientVars
<1>2. NoCancel' /\ OneActive' /\ VersionKnown' /\ \A p \in Process : WorkerKnows(p)'
  BY <1>1 DEF OutcomeKnown, NoCancel, OneActive, IsActive, VersionKnown, WorkerKnows, Latest, processVars,
              runtimeVars, artifactVars
<1>3. \A q \in Request : aged'[q] => pc[q] = "idle" /\ op[q].status # "absent"
  <2>1. CASE ExpireLease(r) BY <2>1 DEF ExpireLease, OutcomeKnown, OneWorker
  <2>2. CASE Age(r)
    <3>1. op[r].status \in {"starting", "running"} /\ req[r] # r /\ aged' = [aged EXCEPT ![r] = TRUE]
      BY <2>2 DEF Age, Process
    <3>2. pc[r] = "idle" BY <3>1 DEF ProcessShape, Process
    <3>3. QED BY <3>1, <3>2 DEF OutcomeKnown, OneWorker, TypeOK
  <2>3. QED BY <2>1, <2>2
<1>4. \A w \in Reconciler : pc[w] # "idle" => lease'[req[w]] = w
  <2>1. CASE Age(r) BY <2>1 DEF Age, OutcomeKnown, OneWorker
  <2>2. CASE ExpireLease(r)
    <3>1. lease[r] # None /\ pc[lease[r]] = "idle" /\ lease' = [lease EXCEPT ![r] = None]
      BY <2>2 DEF ExpireLease
    <3>2. \A w \in Reconciler : pc[w] # "idle" => req[w] \in Request /\ lease[req[w]] = w
      BY DEF OutcomeKnown, OneWorker, ProcessShape, Process
    <3>3. QED BY <3>1, <3>2 DEF TypeOK
  <2>3. QED BY <2>1, <2>2
<1>5. OneWorker'
  BY <1>1, <1>3, <1>4 DEF OutcomeKnown, OneWorker, IsActive, processVars
<1>6. QED BY <1>2, <1>5 DEF OutcomeKnown

\* A reconciler takes over an operation that nobody works on any more.
LEMMA ClaimKnows ==
    ASSUME TypeInvariant, OutcomeKnown, NEW w \in Reconciler, NEW r \in Request, Claim(w, r)
    PROVE  OutcomeKnown'
<1>. USE DEF TypeInvariant
<1>0. w \in Process /\ w \notin Request /\ w \notin Canceller /\ NoCancel
  BY ProcessAssumption DEF Process, OutcomeKnown
<1>1. /\ pc[w] = "idle" /\ lease[r] = None
      /\ lease' = [lease EXCEPT ![r] = w] /\ req' = [req EXCEPT ![w] = r]
      /\ copy' = [copy EXCEPT ![w] = op[r]] /\ pc' = [pc EXCEPT ![w] = "reading"]
      /\ UNCHANGED <<op, aged, base, submitted, artifactVars, event, runtimeVars, caught>>
  BY DEF Claim, Claimable, Goto, clientVars
<1>2. IsActive(r) /\ aged[r]
  BY <1>0 DEF Claim, Claimable, NoCancel, Uncancelled
<1>3. submitted # <<>> /\ r = Latest BY <1>2 DEF OutcomeKnown, OneActive
<1>4. \A p \in Process : pc[p] = "idle"
  <2>1. SUFFICES ASSUME NEW p \in Process, pc[p] # "idle" PROVE FALSE
    OBVIOUS
  <2>2. req[p] = r BY <1>3, <2>1, WorkerAlone
  <2>3. p \notin Canceller BY <1>0, <2>1 DEF NoCancel
  <2>4. p \notin Request BY <1>2, <2>1, <2>2 DEF ProcessShape, OutcomeKnown, OneWorker
  <2>5. p \in Reconciler BY <2>3, <2>4 DEF Process
  <2>6. lease[r] = p BY <2>1, <2>2, <2>5 DEF OutcomeKnown, OneWorker
  <2>7. QED BY <1>1, <2>5, <2>6, ProcessAssumption
<1>5. /\ pc'[w] = "reading" /\ \A p \in Process \ {w} : pc'[p] = "idle"
      /\ req'[w] = r /\ lease'[r] = w /\ copy'[w] = op[r]
      /\ \A p \in Process \ {w} : copy'[p] = copy[p]
  BY <1>0, <1>1, <1>4 DEF TypeOK
<1>6. NoCancel' BY <1>0, <1>1, <1>5 DEF NoCancel, CancelPlaces, runtimeVars, Process
<1>7. OneActive' /\ VersionKnown' /\ Latest' = Latest
  BY <1>1 DEF OutcomeKnown, OneActive, IsActive, VersionKnown, Latest, artifactVars, runtimeVars
<1>8. OneWorker'
  <2>1. IsActive(r)' BY <1>1, <1>2 DEF IsActive
  <2>2. \A q \in Request : aged'[q] => pc'[q] = "idle" /\ op'[q].status # "absent"
    BY <1>0, <1>1, <1>5 DEF OutcomeKnown, OneWorker, Process
  <2>3. QED BY <1>0, <1>5, <2>1, <2>2 DEF OneWorker, Process
<1>9. \A p \in Process : WorkerKnows(p)' BY <1>5 DEF WorkerKnows, Unapplied
<1>10. QED BY <1>6, <1>7, <1>8, <1>9 DEF OutcomeKnown

\* A process is lost; the operation it worked on stays active.
LEMMA CrashKnows ==
    ASSUME TypeInvariant, OutcomeKnown, NEW p \in Process, Crash(p)
    PROVE  OutcomeKnown'
<1>. USE DEF TypeInvariant
<1>0. NoCancel BY DEF OutcomeKnown
<1>1. /\ pc[p] # "idle" /\ pc' = [pc EXCEPT ![p] = "idle"] /\ copy' = [copy EXCEPT ![p] = NoRow]
      /\ intent' = IF p \in Request THEN [intent EXCEPT ![p] = FALSE] ELSE intent
      /\ UNCHANGED <<op, aged, base, submitted, artifactVars, rt, run, caught>>
  BY DEF Crash, clientVars
<1>2. \A q \in Process : pc'[q] = "idle" BY <1>1, WorkerAlone DEF TypeOK
<1>3. Uncancelled(NoRow) BY DEF Uncancelled, NoRow
<1>4. \A q \in Process : Uncancelled(copy'[q]) BY <1>0, <1>1, <1>3 DEF NoCancel, TypeOK
<1>5. \A r \in Request : ~intent'[r] BY <1>0, <1>1 DEF NoCancel, TypeOK
<1>6. NoCancel' BY <1>0, <1>1, <1>2, <1>4, <1>5 DEF NoCancel, CancelPlaces, Process
<1>7. OneActive' /\ VersionKnown'
  BY <1>1 DEF OutcomeKnown, OneActive, IsActive, VersionKnown, Latest, artifactVars
<1>8. OneWorker' BY <1>1, <1>2 DEF OutcomeKnown, OneWorker, Process
<1>9. \A q \in Process : WorkerKnows(q)' BY <1>2 DEF WorkerKnows, Unapplied
<1>10. QED BY <1>6, <1>7, <1>8, <1>9 DEF OutcomeKnown

LEMMA SettleKnows ==
    ASSUME TypeInvariant, OutcomeKnown, NEW p \in Process, Settle(p)
    PROVE  OutcomeKnown'
<1>1. WorkStep(p) BY SettleWork DEF OutcomeKnown
<1>2. pc'[p] = "idle" BY DEF Settle, Finish, TypeInvariant, TypeOK
<1>3. ~GoesOn(p) BY <1>2 DEF GoesOn
<1>4. UNCHANGED <<artifactVars, run, caught>> BY DEF Settle, runtimeVars, clientVars
<1>5. QED BY <1>1, <1>3, <1>4, EndKnows

LEMMA OutcomeStep ==
    ASSUME ~AnyBase, ~SlowRefines
    PROVE  OutcomeInvariant /\ [Next]_vars => OutcomeInvariant'
<1>. SUFFICES ASSUME OutcomeInvariant, [Next]_vars PROVE OutcomeInvariant'
  OBVIOUS
<1>0. TypeInvariant' BY TypeStep DEF OutcomeInvariant
<1>. SUFFICES ASSUME cancels' = 0 PROVE OutcomeKnown'
  BY <1>0 DEF OutcomeInvariant
<1>1. TypeInvariant BY DEF OutcomeInvariant
<1>2. cancels' = cancels \/ cancels' = cancels + 1
  <2>1. ASSUME NEW c \in Canceller, NEW r \in Request, ReadForCancel(c, r) PROVE cancels' = cancels + 1
    BY <2>1 DEF ReadForCancel
  <2>2. ASSUME NEW r \in Request, RefineStep(r) PROVE cancels' = cancels
    BY <1>1, <2>2, RefineStepTyped DEF clientVars
  <2>3. ASSUME NEW c \in Canceller, CancelStep(c) PROVE cancels' = cancels
    BY <1>1, <2>3, CancelStepTyped DEF clientVars
  <2>4. ASSUME NEW w \in Reconciler, ReconcileStep(w) PROVE cancels' = cancels
    BY <1>1, <2>4, ReconcileStepTyped DEF clientVars
  <2>5. ASSUME NEW p \in Process, TailStep(p) PROVE cancels' = cancels
    BY <1>1, <2>5, TailStepTyped
  <2>6. QED BY <2>1, <2>2, <2>3, <2>4, <2>5
    DEF Next, Age, ExpireLease, Submit, Execute, Claim, Crash, clientVars, vars
<1>3. cancels = 0 BY <1>1, <1>2 DEF TypeInvariant, TypeOK
<1>4. OutcomeKnown /\ NoCancel BY <1>3 DEF OutcomeInvariant, OutcomeKnown
<1>5. ASSUME NEW r \in Request, RefineStep(r) PROVE OutcomeKnown'
  BY <1>1, <1>4, <1>5, StepsLeft, HandlerKnows
<1>6. ASSUME NEW w \in Reconciler, ReconcileStep(w) PROVE OutcomeKnown'
  BY <1>1, <1>4, <1>6, StepsLeft, RecoveryKnows
<1>7. ASSUME NEW p \in Process, TailStep(p) PROVE OutcomeKnown'
  BY <1>1, <1>4, <1>7, StepsLeft, SettleKnows
<1>8. ASSUME NEW c \in Canceller, CancelStep(c) PROVE OutcomeKnown'
  BY <1>4, <1>8, StepsLeft
<1>9. ASSUME NEW c \in Canceller, NEW r \in Request, ReadForCancel(c, r) PROVE FALSE
  BY <1>3, <1>9 DEF ReadForCancel
<1>10. CASE UNCHANGED vars
  BY <1>4, <1>10 DEF OutcomeKnown, NoCancel, OneActive, OneWorker, VersionKnown, WorkerKnows, IsActive,
     Latest, vars, rowVars, artifactVars, processVars, runtimeVars, clientVars
<1>11. QED
  BY <1>1, <1>2, <1>3, <1>4, <1>5, <1>6, <1>7, <1>8, <1>9, <1>10, SubmitKnows, ExecuteKnows, TimeKnows,
     ClaimKnows, CrashKnows
  DEF Next

LEMMA OutcomeInit == Init => OutcomeInvariant
<1>. SUFFICES ASSUME Init PROVE OutcomeInvariant
  OBVIOUS
<1>1. Uncancelled(NoRow) /\ NoRow.status \notin Active BY DEF Uncancelled, NoRow, Active
<1>2. OutcomeKnown
  BY <1>1 DEF Init, OutcomeKnown, NoCancel, OneActive, OneWorker, VersionKnown, WorkerKnows, IsActive,
              CancelPlaces, Unapplied, Process
<1>3. QED BY <1>2, TypeInit DEF OutcomeInvariant

\* As long as no cancel was asked for: at most one process works on the operation
\* submitted last, the handler or after its loss the reconciler with the lease, and
\* the current version is its base or one it made itself, whatever was lost or failed
\* when; a failure is recorded over an own version only out of a catch clause.
THEOREM OutcomeInvariantHolds == ~AnyBase /\ ~SlowRefines => (Spec => []OutcomeInvariant)
<1>1. CASE ~AnyBase /\ ~SlowRefines
  <2>1. OutcomeInvariant /\ [Next]_vars => OutcomeInvariant' BY <1>1, OutcomeStep
  <2>2. Spec => []OutcomeInvariant BY <2>1, OutcomeInit, PTL DEF Spec
  <2>3. QED BY <2>2
<1>2. QED BY <1>1

LEMMA OutcomeFollows ==
    OutcomeInvariant => (cancels = 0 => OutcomeIsCurrent)
BY DEF OutcomeInvariant, OutcomeKnown, VersionKnown, OutcomeIsCurrent, Settled

\* Once nobody works any more, a refine recorded as completed left its own version
\* current and one recorded as failed left its base current, whoever finished it and
\* however many handlers and reconcilers were lost on the way; only a handler that
\* caught an error may have left its own version current under a recorded failure.
THEOREM OutcomeStands ==
    ~AnyBase /\ ~SlowRefines => (Spec => [](cancels = 0 => OutcomeIsCurrent))
<1>1. CASE ~AnyBase /\ ~SlowRefines
  <2>1. Spec => []OutcomeInvariant BY <1>1, OutcomeInvariantHolds
  <2>2. Spec => [](cancels = 0 => OutcomeIsCurrent) BY <2>1, OutcomeFollows, PTL
  <2>3. QED BY <2>2
<1>2. QED BY <1>1

-----------------------------------------------------------------------------
(* One cancel: what its answer is worth.                                   *)

\* p works on r; r is being cancelled or was; its row was marked; its base was made current.
WorksOn(p, r) == pc[p] # "idle" /\ req[p] = r
Cancelling(r) == r \in acked \/ \E c \in Canceller : WorksOn(c, r)
Marked(r) == r \in acked \/ \E c \in Canceller : WorksOn(c, r) /\ pc[c] # "marking"
Restored(r) == r \in acked \/ \E c \in Canceller : WorksOn(c, r) /\ pc[c] = "recording"

\* Before the cancel only handlers work, one at a time, on what is active.
Undisturbed ==
    /\ NoCancel /\ acked = {}
    /\ \A w \in Reconciler : pc[w] = "idle"
    /\ \A r \in Request :
        /\ ~aged[r]
        /\ IsActive(r) <=> pc[r] # "idle"
        /\ pc[r] # "idle" => submitted # <<>> /\ r = Latest
        /\ pc[r] = "created" => op[r].status = "starting"

\* What the row that p writes next will say.
WorkerShape(p) ==
    /\ pc[p] \in {"confirming", "restoring", "recording"} => copy[p].cancelRequested
    /\ pc[p] \in {"restoring", "recording"} => copy[p].status = "cancelled"
    /\ p \in Request => pc[p] # "created"
    /\ p \in Reconciler =>
        /\ pc[p] \in {"reading", "asking", "confirming", "restoring", "recording"}
        /\ copy[p].cancelRequested
    /\ p \in Canceller =>
        /\ pc[p] \in {"marking", "asking", "accepted", "refused", "refusing",
                      "confirming", "restoring", "recording"}
        /\ pc[p] # "marking" => copy[p].cancelRequested
        /\ pc[p] \in {"asking", "accepted", "refused"} => copy[p].status = "cancelling"
        /\ pc[p] \in {"restoring", "recording"} => ~IsActive(req[p])

\* Where a handler may have made its version current late, and looks at its row again.
LateVersion == {"ending", "catching", "confirming", "restoring"}

\* A request that is cancelled: its row stays marked for its handler until that has
\* ended, and nobody makes it active again or can leave another version current.
Watched(r) ==
    /\ op[r].status \notin {"absent", "starting"}
    /\ op[r].status = "cancelling" => op[r].cancelRequested
    /\ IF r \in acked THEN ~IsActive(r) ELSE ~aged[r]
    /\ \A p \in Process : WorksOn(p, r) => WorkerShape(p)
    /\ Marked(r) => op[r].cancelRequested \/ pc[r] = "idle"
    /\ Latest = r =>
        /\ \A p \in Process : pc[p] # "idle" => req[p] = r
        /\ \A q \in Request \ {r} : ~IsActive(q)
        /\ Restored(r) => current = base[r] \/ pc[r] \in LateVersion

OneCancel ==
    /\ \A c, d \in Canceller : pc[c] # "idle" /\ pc[d] # "idle" => c = d
    /\ \A c \in Canceller : pc[c] # "idle" => acked = {}
    /\ \A q, r \in acked : q = r

CancelWatched == OneCancel /\ \A r \in Request : Cancelling(r) => Watched(r)

\* Up to the first cancel nothing is disturbed; after it, what was cancelled is watched.
CancelKnown == (cancels = 0 => Undisturbed) /\ (cancels = 1 => CancelWatched)

CancelInvariant == TypeInvariant /\ (crashes = 0 => CancelKnown)

\* A step of a process that is at work.
StepOf(p) ==
    \/ p \in Request /\ RefineStep(p)
    \/ p \in Canceller /\ CancelStep(p)
    \/ p \in Reconciler /\ ReconcileStep(p)
    \/ TailStep(p)

LEMMA RowParts ==
    ASSUME NEW row \in Row, NEW s, NEW b
    PROVE  /\ [row EXCEPT !.status = s].status = s
           /\ [row EXCEPT !.status = s].cancelRequested = row.cancelRequested
           /\ [row EXCEPT !.recorded = b].status = row.status
           /\ [row EXCEPT !.recorded = b].cancelRequested = row.cancelRequested
           /\ [row EXCEPT !.status = s, !.cancelRequested = b].status = s
           /\ [row EXCEPT !.status = s, !.cancelRequested = b].cancelRequested = b
BY DEF Row

\* What a step may write: the row of its own request, with a fresh updatedAt.
Wrote(p) ==
    /\ \A q \in Request \ {req[p]} : op'[q] = op[q] /\ aged'[q] = aged[q]
    /\ aged'[req[p]] => aged[req[p]]

LEMMA Writing ==
    ASSUME TypeInvariant, NEW p \in Process, req[p] \in Request,
           UNCHANGED <<op, aged>> \/ \E row : Save(p, row)
    PROVE  Wrote(p)
BY DEF Wrote, Save, TypeInvariant, TypeOK

LEMMA StepShape ==
    ASSUME TypeInvariant, NEW p \in Process, StepOf(p)
    PROVE  /\ pc[p] # "idle" /\ req[p] \in Request /\ OwnStep(p) /\ Wrote(p)
           /\ pc'[p] # "idle" => req'[p] = req[p]
           /\ UNCHANGED <<submitted, base, cancels, crashes>>
           /\ \/ acked' = acked
              \/ /\ p \in Canceller /\ acked' = acked \cup {req[p]}
                 /\ pc[p] \in {"restoring", "recording"} /\ pc'[p] = "idle"
<1>1. /\ pc[p] # "idle" /\ StepTyped(p) /\ UNCHANGED <<cancels, crashes>>
      /\ TailStep(p) \/ UNCHANGED acked
  BY RefineStepTyped, CancelStepTyped, ReconcileStepTyped, TailStepTyped DEF StepOf, clientVars
<1>2. req[p] \in Request BY <1>1 DEF TypeInvariant, ProcessShape
<1>3. /\ UNCHANGED <<op, aged>> \/ \E row : Save(p, row)
      /\ UNCHANGED <<submitted, base>>
      /\ UNCHANGED req \/ Finish(p)
  <2>1. CASE p \in Request /\ RefineStep(p)
    BY <2>1
    DEF RefineStep, StartRunning, OpenGateway, AgentCreated, GatewayFails, DropAgent, ConsumeStream, EventArrives,
        CheckEvent, ApplyAndEnd, ApplyFails, CallFails, ToCatch, EndRefine, Judge, Revert, CatchError,
        rowVars
  <2>2. CASE CancelStep(p)
    BY <2>2
    DEF CancelStep, MarkCancelling, StoreAnswer, RefuseCancel, CancelUnanswered, CancelFails, CancelAnswered,
        rowVars
  <2>3. CASE ReconcileStep(p)
    <3>1. CASE ReadSnapshot(p) BY <3>1 DEF ReadSnapshot
    <3>2. CASE RereadSnapshot(p) BY <3>2 DEF RereadSnapshot
    <3>3. CASE \E accepted \in BOOLEAN : CancelRecovered(p, accepted) BY <3>3 DEF CancelRecovered
    <3>4. CASE RecoverStream(p) \/ FollowStream(p) \/ AdoptEvent(p) \/ Finalize(p) \/ Verify(p)
      BY <3>4 DEF RecoverStream, FollowStream, AdoptEvent, Finalize, Verify, rowVars
    <3>5. QED BY <2>3, <3>1, <3>2, <3>3, <3>4 DEF ReconcileStep
  <2>4. CASE TailStep(p)
    BY <2>4 DEF TailStep, Settle, ConfirmCancel, RestoreBase, RecordCancellation
  <2>5. QED BY <2>1, <2>2, <2>3, <2>4 DEF StepOf
<1>4. Wrote(p) BY <1>2, <1>3, Writing
<1>5. pc'[p] # "idle" => req'[p] = req[p] BY <1>3 DEF Finish, TypeInvariant, TypeOK
<1>6. \/ acked' = acked
      \/ /\ p \in Canceller /\ acked' = acked \cup {req[p]}
         /\ pc[p] \in {"restoring", "recording"} /\ pc'[p] = "idle"
  <2>1. CASE Settle(p) \/ ConfirmCancel(p) BY <2>1 DEF Settle, ConfirmCancel, clientVars
  <2>2. CASE RestoreBase(p) \/ RecordCancellation(p)
    <3>1. /\ pc[p] \in {"restoring", "recording"}
          /\ (Finish(p) /\ Answer(p)) \/ UNCHANGED acked
      BY <2>2 DEF RestoreBase, RecordCancellation
    <3>2. Finish(p) => pc'[p] = "idle" BY DEF Finish, TypeInvariant, TypeOK
    <3>3. QED BY <3>1, <3>2 DEF Answer
  <2>3. QED BY <1>1, <2>1, <2>2 DEF TailStep
<1>7. QED BY <1>1, <1>2, <1>3, <1>4, <1>5, <1>6 DEF StepTyped

\* What a step of p may do to the request it works on when that is being cancelled.
Kept(p, r) ==
    /\ op'[r].status \notin {"absent", "starting"}
    /\ op'[r].status = "cancelling" => op'[r].cancelRequested
    /\ pc'[p] # "idle" => WorkerShape(p)'
    /\ IsActive(r)' => IsActive(r) \/ (p \in Canceller /\ pc'[p] \notin {"restoring", "recording", "idle"})
    /\ Marked(r)' => op'[r].cancelRequested \/ pc'[r] = "idle"
    /\ Latest = r /\ Restored(r)' => current' = base[r] \/ pc'[r] \in LateVersion

\* Who cancels after a step cancelled before it.
LEMMA CancelStays ==
    ASSUME TypeInvariant, OneCancel, NEW p \in Process, StepOf(p)
    PROVE  /\ OneCancel'
           /\ \A r \in Request : Cancelling(r)' => Cancelling(r)
           /\ p \in Canceller => acked = {}
<1>1. /\ pc[p] # "idle" /\ OwnStep(p) /\ req[p] \in Request
      /\ pc'[p] # "idle" => req'[p] = req[p]
      /\ \/ acked' = acked
         \/ p \in Canceller /\ acked' = acked \cup {req[p]} /\ pc'[p] = "idle"
  BY StepShape
<1>2. p \in Canceller => acked = {} BY <1>1 DEF OneCancel
<1>3. \A q \in Process : pc'[q] # "idle" => pc[q] # "idle" /\ req'[q] = req[q]
  BY <1>1 DEF OwnStep
<1>4. Canceller \subseteq Process BY DEF Process
<1>5. OneCancel'
  <2>1. CASE acked' = acked BY <1>3, <1>4, <2>1 DEF OneCancel
  <2>2. CASE p \in Canceller /\ acked' = acked \cup {req[p]} /\ pc'[p] = "idle"
    <3>1. \A c \in Canceller : pc'[c] = "idle" BY <1>1, <1>3, <1>4, <2>2 DEF OneCancel
    <3>2. QED BY <1>2, <2>2, <3>1 DEF OneCancel
  <2>3. QED BY <1>1, <2>1, <2>2
<1>6. \A r \in Request : Cancelling(r)' => Cancelling(r)
  BY <1>1, <1>3, <1>4 DEF Cancelling, WorksOn
<1>7. QED BY <1>2, <1>5, <1>6

\* A step on a request that is being cancelled.
LEMMA WatchedStep ==
    ASSUME TypeInvariant, OneCancel, NEW p \in Process, NEW r \in Request, StepOf(p), req[p] = r,
           Watched(r), Kept(p, r)
    PROVE  Watched(r)'
<1>1. /\ pc[p] # "idle" /\ OwnStep(p) /\ Wrote(p)
      /\ pc'[p] # "idle" => req'[p] = req[p]
      /\ UNCHANGED <<submitted, base>>
      /\ \/ acked' = acked
         \/ /\ p \in Canceller /\ acked' = acked \cup {req[p]}
            /\ pc[p] \in {"restoring", "recording"} /\ pc'[p] = "idle"
  BY StepShape
<1>2. p \in Canceller => acked = {} BY <1>1 DEF OneCancel
<1>3. IF r \in acked' THEN ~IsActive(r)' ELSE ~aged'[r]
  <2>1. CASE r \notin acked' BY <1>1, <2>1 DEF Wrote, Watched
  <2>2. CASE r \in acked
    <3>1. ~IsActive(r) /\ p \notin Canceller BY <1>2, <2>2 DEF Watched
    <3>2. acked' = acked BY <1>1, <3>1
    <3>3. QED BY <2>2, <3>1, <3>2 DEF Kept
  <2>3. CASE r \in acked' /\ r \notin acked
    <3>1. p \in Canceller /\ pc[p] \in {"restoring", "recording"} /\ pc'[p] = "idle" BY <1>1, <2>3
    <3>2. WorkerShape(p) BY <1>1 DEF Watched, WorksOn
    <3>3. ~IsActive(r) BY <3>1, <3>2 DEF WorkerShape
    <3>4. QED BY <2>3, <3>1, <3>3 DEF Kept
  <2>4. QED BY <2>1, <2>2, <2>3
<1>4. ASSUME NEW q \in Process, WorksOn(q, r)' PROVE WorkerShape(q)'
  <2>1. CASE q = p BY <1>4, <2>1 DEF Kept, WorksOn
  <2>2. CASE q # p
    <3>1. pc'[q] = pc[q] /\ copy'[q] = copy[q] /\ req'[q] = r /\ req[q] = r
      BY <1>1, <1>4, <2>2 DEF OwnStep, WorksOn
    <3>2. WorkerShape(q) BY <1>4, <3>1 DEF Watched, WorksOn
    <3>3. q \in Canceller /\ pc[q] \in {"restoring", "recording"} => ~IsActive(r)'
      <4>1. q \in Canceller => p \notin Canceller BY <1>1, <1>4, <2>2, <3>1 DEF OneCancel, WorksOn
      <4>2. QED BY <3>1, <3>2, <4>1 DEF Kept, WorkerShape
    <3>4. QED BY <3>1, <3>2, <3>3 DEF WorkerShape
  <2>3. QED BY <2>1, <2>2
<1>5. Latest' = Latest BY <1>1 DEF Latest
<1>6. Latest = r =>
        /\ \A q \in Process : pc'[q] # "idle" => req'[q] = r
        /\ \A q \in Request \ {r} : ~IsActive(q)'
  BY <1>1 DEF Watched, OwnStep, Wrote, IsActive
<1>7. QED BY <1>1, <1>3, <1>4, <1>5, <1>6 DEF Watched, Kept

\* A step on another request: no cancel handler's, and not while r is the latest.
LEMMA OtherStep ==
    ASSUME TypeInvariant, OneCancel, NEW p \in Process, NEW r \in Request, StepOf(p), req[p] # r,
           Cancelling(r), Watched(r)
    PROVE  Watched(r)'
<1>1. /\ pc[p] # "idle" /\ OwnStep(p) /\ Wrote(p)
      /\ pc'[p] # "idle" => req'[p] = req[p]
      /\ UNCHANGED <<submitted, base>>
      /\ acked' = acked \/ p \in Canceller
  BY StepShape
<1>2. Canceller \subseteq Process /\ Request \subseteq Process BY DEF Process
<1>3. p \notin Canceller /\ acked' = acked
  <2>1. p \in Canceller => acked = {} /\ \A c \in Canceller : pc[c] # "idle" => c = p
    BY <1>1 DEF OneCancel
  <2>2. QED BY <1>1, <2>1 DEF Cancelling, WorksOn
<1>4. Latest # r /\ Latest' = Latest BY <1>1 DEF Watched, Latest
<1>5. p # r BY <1>1 DEF TypeInvariant, ProcessShape
<1>6. /\ op'[r] = op[r] /\ aged'[r] = aged[r] /\ pc'[r] = pc[r]
  BY <1>1, <1>2, <1>5 DEF Wrote, OwnStep
<1>7. \A q \in Process : WorksOn(q, r)' =>
        WorksOn(q, r) /\ pc'[q] = pc[q] /\ req'[q] = req[q] /\ copy'[q] = copy[q]
  BY <1>1 DEF OwnStep, WorksOn
<1>8. \A q \in Process : WorksOn(q, r)' => WorkerShape(q)'
  <2>1. SUFFICES ASSUME NEW q \in Process, WorksOn(q, r)' PROVE WorkerShape(q)'
    OBVIOUS
  <2>2. WorkerShape(q) /\ pc'[q] = pc[q] /\ req'[q] = r /\ req[q] = r /\ copy'[q] = copy[q]
    BY <1>7, <2>1 DEF Watched, WorksOn
  <2>3. IsActive(r)' = IsActive(r) BY <1>6 DEF IsActive
  <2>4. QED BY <2>2, <2>3 DEF WorkerShape
<1>9. Marked(r)' => Marked(r) BY <1>2, <1>3, <1>7 DEF Marked
<1>10. IsActive(r)' = IsActive(r) BY <1>6 DEF IsActive
<1>11. QED BY <1>3, <1>4, <1>6, <1>8, <1>9, <1>10 DEF Watched

\* A step that writes no row and moves no version.
LEMMA QuietKept ==
    ASSUME TypeInvariant, NEW p \in Process, NEW r \in Request, StepOf(p), req[p] = r,
           Watched(r), UNCHANGED op, UNCHANGED current,
           pc'[p] # "idle" => WorkerShape(p)',
           Marked(r)' => Marked(r), Restored(r)' => Restored(r),
           pc[p] \notin LateVersion \/ p # r
    PROVE  Kept(p, r)
<1>1. OwnStep(p) BY StepShape
<1>2. r \in Process BY DEF Process
<1>3. pc[r] = "idle" => pc'[r] = "idle" BY <1>1, <1>2, StepShape DEF OwnStep
<1>4. p # r => pc'[r] = pc[r] BY <1>1, <1>2 DEF OwnStep
<1>5. IsActive(r)' = IsActive(r) BY DEF IsActive
<1>6. QED BY <1>3, <1>4, <1>5 DEF Kept, Watched

\* Only a cancel handler's step changes what was marked and restored.
LEMMA OthersMark ==
    ASSUME TypeInvariant, NEW p \in Process \ Canceller, NEW r \in Request, StepOf(p)
    PROVE  (Marked(r)' <=> Marked(r)) /\ (Restored(r)' <=> Restored(r))
<1>1. OwnStep(p) /\ acked' = acked BY StepShape
<1>2. \A c \in Canceller : pc'[c] = pc[c] /\ req'[c] = req[c] BY <1>1 DEF OwnStep, Process
<1>3. QED BY <1>1, <1>2 DEF Marked, Restored, WorksOn

\* The handler of a request that is being cancelled: a version it makes current
\* late is looked at again, in a row that is marked.
LEMMA HandlerKept ==
    ASSUME TypeInvariant, NEW r \in Request, RefineStep(r), Watched(r)
    PROVE  Kept(r, r)
<1>0. r \in Process \ Canceller BY ProcessAssumption DEF Process
<1>1. StepOf(r) BY DEF StepOf
<1>2. pc[r] # "idle" /\ req[r] = r /\ OwnStep(r) BY <1>0, <1>1, StepShape DEF TypeInvariant, ProcessShape
<1>3. WorkerShape(r) BY <1>0, <1>2 DEF Watched, WorksOn
<1>4. pc[r] # "created" BY <1>3 DEF WorkerShape
<1>5. (Marked(r)' <=> Marked(r)) /\ (Restored(r)' <=> Restored(r)) BY <1>0, <1>1, OthersMark
<1>6. /\ UNCHANGED op
      /\ pc'[r] \notin {"created", "restoring", "recording"}
      /\ pc'[r] = "confirming" => copy'[r].cancelRequested
      /\ pc[r] \in LateVersion /\ op[r].cancelRequested => pc'[r] \in {"confirming", "catching"}
      /\ current' = current \/ current' = base[r] \/ pc'[r] \in {"ending", "catching"}
  <2>1. CASE OpenGateway(r) \/ AgentCreated(r) \/ GatewayFails(r) \/ DropAgent(r) \/ ConsumeStream(r) \/ EventArrives(r)
    BY <1>0, <2>1
    DEF OpenGateway, AgentCreated, GatewayFails, DropAgent, ConsumeStream, EventArrives, Receive, EndOfStream,
        LeaveStream, Goto, rowVars, artifactVars, TypeInvariant, TypeOK, LateVersion
  <2>2. CASE CheckEvent(r) \/ ApplyAndEnd(r) \/ ApplyFails(r) \/ CallFails(r)
    BY <1>0, <2>2
    DEF CheckEvent, ApplyAndEnd, ApplyFails, CallFails, ToCatch, EndOfStream, LeaveStream, Goto, rowVars,
        artifactVars, TypeInvariant, TypeOK, LateVersion
  <2>3. CASE EndRefine(r) \/ CatchError(r)
    BY <1>0, <1>2, <2>3
    DEF EndRefine, CatchError, Refresh, Keep, Goto, rowVars, artifactVars, TypeInvariant, TypeOK, LateVersion
  <2>4. CASE Judge(r) \/ Revert(r)
    BY <1>0, <1>2, <2>4
    DEF Judge, Revert, SetCurrentToBase, Goto, rowVars, artifactVars, TypeInvariant, TypeOK, LateVersion
  <2>5. CASE StartRunning(r) BY <1>4, <2>5 DEF StartRunning
  <2>6. QED BY <2>1, <2>2, <2>3, <2>4, <2>5 DEF RefineStep
<1>7. r \notin Reconciler BY ProcessAssumption
<1>8. WorkerShape(r)' BY <1>0, <1>6, <1>7 DEF WorkerShape
<1>9. Marked(r) => op[r].cancelRequested BY <1>2 DEF Watched
<1>10. Restored(r) => Marked(r) BY DEF Restored, Marked
<1>11. Latest = r /\ Restored(r) => current' = base[r] \/ pc'[r] \in LateVersion
  BY <1>6, <1>9, <1>10 DEF Watched, LateVersion
<1>12. IsActive(r)' = IsActive(r) BY <1>6 DEF IsActive
<1>13. QED BY <1>5, <1>6, <1>8, <1>9, <1>11, <1>12 DEF Kept, Watched

\* A reconciler that took over a request that is being cancelled cancels it.
LEMMA ReconcilerKept ==
    ASSUME TypeInvariant, NEW w \in Reconciler, NEW r \in Request, ReconcileStep(w), req[w] = r, Watched(r)
    PROVE  Kept(w, r)
<1>0. w \in Process \ Canceller /\ w \notin Request BY ProcessAssumption DEF Process
<1>1. StepOf(w) BY DEF StepOf
<1>2. pc[w] # "idle" BY <1>0, <1>1, StepShape
<1>3. WorkerShape(w) BY <1>0, <1>2 DEF Watched, WorksOn
<1>4. pc[w] \in {"reading", "asking", "confirming", "restoring", "recording"} /\ copy[w].cancelRequested
  BY <1>3 DEF WorkerShape
<1>5. (Marked(r)' <=> Marked(r)) /\ (Restored(r)' <=> Restored(r)) BY <1>0, <1>1, OthersMark
<1>6. /\ UNCHANGED op /\ UNCHANGED current
      /\ pc'[w] = "idle" \/ (pc'[w] \in {"asking", "confirming"} /\ copy'[w] = copy[w])
  <2>1. CASE ReadSnapshot(w)
    BY <1>0, <1>4, <2>1 DEF ReadSnapshot, Goto, artifactVars, TypeInvariant, TypeOK
  <2>2. ASSUME NEW accepted \in BOOLEAN, CancelRecovered(w, accepted)
        PROVE  /\ UNCHANGED op /\ UNCHANGED current
               /\ pc'[w] = "idle" \/ (pc'[w] \in {"asking", "confirming"} /\ copy'[w] = copy[w])
    BY <1>0, <2>2 DEF CancelRecovered, Finish, Goto, artifactVars, TypeInvariant, TypeOK
  <2>3. ~(RecoverStream(w) \/ FollowStream(w) \/ AdoptEvent(w) \/ RereadSnapshot(w) \/ Finalize(w) \/ Verify(w))
    BY <1>4 DEF RecoverStream, FollowStream, AdoptEvent, RereadSnapshot, Finalize, Verify
  <2>4. QED BY <2>1, <2>2, <2>3 DEF ReconcileStep
<1>7. pc'[w] # "idle" => WorkerShape(w)' BY <1>0, <1>4, <1>6 DEF WorkerShape
<1>8. QED BY <1>0, <1>1, <1>5, <1>6, <1>7, QuietKept

\* The cancel handler at work, unless its step was its last and cancelled nothing.
LEMMA CancellerKept ==
    ASSUME TypeInvariant, OneCancel, NEW c \in Canceller, NEW r \in Request, CancelStep(c), req[c] = r,
           Watched(r), Cancelling(r)'
    PROVE  Kept(c, r)
<1>0. c \in Process /\ c \notin Request /\ c \notin Reconciler BY ProcessAssumption DEF Process
<1>1. StepOf(c) BY DEF StepOf
<1>2. pc[c] # "idle" /\ OwnStep(c) /\ acked' = acked /\ copy[c] \in Row
  BY <1>0, CancelStepTyped DEF clientVars, StepTyped, TypeInvariant, TypeOK
<1>3. acked = {} /\ \A d \in Canceller \ {c} : pc[d] = "idle" /\ pc'[d] = "idle"
  BY <1>2 DEF OneCancel, OwnStep, Process
<1>4. pc'[c] # "idle" BY <1>2, <1>3 DEF Cancelling, WorksOn
<1>5. WorkerShape(c) BY <1>0, <1>2 DEF Watched, WorksOn
<1>6. pc[c] \in {"marking", "asking", "accepted", "refused", "refusing", "confirming", "restoring", "recording"}
  BY <1>5 DEF WorkerShape
<1>7. Marked(r)' => pc'[c] # "marking" BY <1>2, <1>3 DEF Marked, WorksOn
<1>8. Restored(r)' => pc'[c] = "recording" BY <1>2, <1>3 DEF Restored, WorksOn
<1>9. pc[c] # "marking" => Marked(r) BY <1>2 DEF Marked, WorksOn
<1>10. current' = current /\ pc'[r] = pc[r]
  BY <1>0, <1>2 DEF CancelStep, MarkCancelling, StoreAnswer, RefuseCancel, CancelUnanswered, CancelFails,
                    CancelAnswered, artifactVars, OwnStep, Process
<1>11. CASE MarkCancelling(c)
  <2>. DEFINE row == [copy[c] EXCEPT !.status = "cancelling", !.cancelRequested = TRUE]
  <2>1. ~Finish(c) BY <1>0, <1>4 DEF Finish, TypeInvariant, TypeOK
  <2>2. Save(c, row) /\ Keep(c, row) /\ Goto(c, "asking") /\ req' = req
    BY <1>11, <2>1 DEF MarkCancelling
  <2>3. row.status = "cancelling" /\ row.cancelRequested BY <1>2 DEF Row
  <2>. HIDE DEF row
  <2>4. op'[r] = row /\ copy'[c] = row /\ pc'[c] = "asking"
    BY <1>0, <2>2 DEF Save, Keep, Goto, TypeInvariant, TypeOK
  <2>5. WorkerShape(c)' BY <1>0, <2>3, <2>4 DEF WorkerShape
  <2>6. QED BY <1>8, <2>3, <2>4, <2>5 DEF Kept
<1>12. CASE StoreAnswer(c)
  <2>1. /\ pc[c] \in {"accepted", "refused"} /\ copy' = copy /\ req' = req
        /\ UNCHANGED op \/ op' = [op EXCEPT ![r] = copy[c]]
        /\ pc'[c] \in {"refusing", "confirming"}
    BY <1>0, <1>12 DEF StoreAnswer, Save, Goto, TypeInvariant, TypeOK
  <2>2. copy[c].cancelRequested /\ copy[c].status = "cancelling" BY <1>5, <2>1 DEF WorkerShape
  <2>3. op'[r] = op[r] \/ op'[r] = copy[c] BY <2>1 DEF TypeInvariant, TypeOK
  <2>4. WorkerShape(c)' BY <1>0, <2>1, <2>2 DEF WorkerShape
  <2>5. QED BY <1>8, <1>9, <1>10, <2>1, <2>2, <2>3, <2>4 DEF Kept, Watched, IsActive
<1>13. CASE RefuseCancel(c) BY <1>0, <1>4, <1>13 DEF RefuseCancel, Finish, TypeInvariant, TypeOK
<1>14. ASSUME \/ CancelUnanswered(c) \/ CancelFails(c)
              \/ \E accepted \in BOOLEAN : CancelAnswered(c, accepted)
       PROVE  Kept(c, r)
  <2>1. /\ pc[c] # "marking" /\ copy' = copy /\ req' = req /\ UNCHANGED op
        /\ pc'[c] = "refusing" \/ (pc[c] = "asking" /\ pc'[c] \in {"accepted", "refused"})
    BY <1>0, <1>14 DEF CancelUnanswered, CancelFails, CancelAnswered, Goto, rowVars, TypeInvariant, TypeOK
  <2>2. WorkerShape(c)' BY <1>0, <1>5, <2>1 DEF WorkerShape
  <2>3. Marked(r) /\ (Restored(r)' => Restored(r)) BY <1>8, <1>9, <2>1
  <2>4. QED BY <1>0, <1>1, <1>10, <2>1, <2>2, <2>3, QuietKept
<1>15. QED BY <1>11, <1>12, <1>13, <1>14 DEF CancelStep

\* The steps that any handler ends with.
LEMMA TailKept ==
    ASSUME TypeInvariant, OneCancel, NEW p \in Process, NEW r \in Request, TailStep(p), req[p] = r, Watched(r)
    PROVE  Kept(p, r)
<1>1. StepOf(p) BY DEF StepOf
<1>2. pc[p] # "idle" /\ OwnStep(p) /\ copy[p] \in Row /\ (p \in Request => p = r)
  BY <1>1, StepShape DEF TypeInvariant, TypeOK, ProcessShape
<1>3. WorkerShape(p) BY <1>2 DEF Watched, WorksOn
<1>4. r \in Process /\ Request \cap Canceller = {} /\ Request \cap Reconciler = {} /\ Canceller \subseteq Process
  BY ProcessAssumption DEF Process
<1>5. p # r => pc'[r] = pc[r] BY <1>2, <1>4 DEF OwnStep
<1>6. \A c \in Canceller \ {p} : pc'[c] = pc[c] /\ req'[c] = req[c] BY <1>2, <1>4 DEF OwnStep
<1>7. acked' = acked \/ (p \in Canceller /\ acked' = acked \cup {r}) BY <1>1, StepShape
<1>8. Marked(r)' => Marked(r)
  <2>1. p \in Canceller => Marked(r) BY <1>2, <1>3 DEF Marked, WorksOn, TailStep, Settle, ConfirmCancel,
                                     RestoreBase, RecordCancellation
  <2>2. p \notin Canceller => (Marked(r)' <=> Marked(r)) BY <1>1, OthersMark
  <2>3. QED BY <2>1, <2>2
<1>9. CASE Settle(p)
  <2>1. /\ pc[p] \in {"completing", "failing"} /\ Finish(p) /\ current' = current
        /\ Save(p, WithStatus(p, IF pc[p] = "completing" THEN "completed" ELSE "failed"))
    BY <1>9 DEF Settle, artifactVars
  <2>2. p \in Request /\ p = r
    <3>1. p \notin Canceller /\ p \notin Reconciler BY <1>3, <2>1 DEF WorkerShape
    <3>2. QED BY <1>2, <3>1 DEF Process
  <2>3. pc'[r] = "idle" BY <1>4, <2>1, <2>2 DEF Finish, TypeInvariant, TypeOK
  <2>4. op'[r].status \in {"completed", "failed"}
    <3>1. op'[r] = WithStatus(p, IF pc[p] = "completing" THEN "completed" ELSE "failed")
      BY <2>1 DEF Save, TypeInvariant, TypeOK
    <3>2. QED BY <1>2, <3>1, RowParts DEF WithStatus
  <2>5. Restored(r)' <=> Restored(r) BY <1>1, <1>4, <2>2, OthersMark
  <2>6. QED BY <2>1, <2>2, <2>3, <2>4, <2>5 DEF Kept, Watched, IsActive, Active, LateVersion
<1>10. CASE ConfirmCancel(p)
  <2>1. /\ pc[p] = "confirming" /\ current' = current /\ req' = req
        /\ op'[r] = WithStatus(p, "cancelled") /\ copy'[p] = WithStatus(p, "cancelled")
        /\ pc'[p] = "restoring"
    BY <1>10 DEF ConfirmCancel, Save, Keep, Goto, artifactVars, TypeInvariant, TypeOK
  <2>2. /\ copy[p].cancelRequested
        /\ WithStatus(p, "cancelled").status = "cancelled" /\ WithStatus(p, "cancelled").cancelRequested
    <3>1. copy[p].cancelRequested BY <1>3, <2>1 DEF WorkerShape
    <3>2. QED BY <1>2, <3>1, RowParts DEF WithStatus
  <2>3. ~IsActive(r)' BY <2>1, <2>2 DEF IsActive, Active
  <2>4. WorkerShape(p)' BY <2>1, <2>2, <2>3 DEF WorkerShape
  <2>5. Restored(r)' => Restored(r)
    BY <1>6, <1>7, <1>10, <2>1 DEF Restored, WorksOn, ConfirmCancel, clientVars
  <2>6. pc'[r] = pc[r] \/ pc'[r] = "restoring" BY <1>5, <2>1
  <2>7. QED BY <2>1, <2>2, <2>3, <2>4, <2>5, <2>6 DEF Kept, Watched, LateVersion
<1>11. CASE RestoreBase(p)
  <2>1. /\ pc[p] = "restoring" /\ current' = base[r] /\ op' = op
        /\ \/ pc'[p] = "idle"
           \/ pc'[p] = "recording" /\ req' = req /\ copy' = copy
    BY <1>11 DEF RestoreBase, SetCurrentToBase, Finish, Goto, TypeInvariant, TypeOK
  <2>2. pc'[p] # "idle" => WorkerShape(p)' BY <1>3, <2>1 DEF WorkerShape, IsActive
  <2>3. IsActive(r)' = IsActive(r) BY <2>1 DEF IsActive
  <2>4. pc[r] = "idle" => pc'[r] = "idle" BY <1>5, <2>1
  <2>5. QED BY <1>8, <2>1, <2>2, <2>3, <2>4 DEF Kept, Watched
<1>12. CASE RecordCancellation(p)
  <2>1. /\ pc[p] = "recording" /\ current' = current /\ pc'[p] = "idle"
        /\ op'[r] = [copy[p] EXCEPT !.recorded = TRUE]
    BY <1>12 DEF RecordCancellation, Save, Finish, artifactVars, TypeInvariant, TypeOK
  <2>2. op'[r].status = "cancelled" /\ op'[r].cancelRequested
    BY <1>2, <1>3, <2>1, RowParts DEF WorkerShape
  <2>3. Restored(r)' => Restored(r)
    <3>1. p \in Canceller => Restored(r) BY <1>2, <2>1 DEF Restored, WorksOn
    <3>2. p \notin Canceller => (Restored(r)' <=> Restored(r)) BY <1>1, OthersMark
    <3>3. QED BY <3>1, <3>2
  <2>4. pc'[r] = pc[r] \/ pc[r] = "recording" BY <1>5, <2>1
  <2>5. QED BY <2>1, <2>2, <2>3, <2>4 DEF Kept, Watched, IsActive, Active, LateVersion
<1>13. QED BY <1>9, <1>10, <1>11, <1>12 DEF TailStep

LEMMA StepWatched ==
    ASSUME TypeInvariant, CancelWatched, NEW p \in Process, StepOf(p)
    PROVE  CancelWatched'
<1>1. /\ OneCancel /\ OneCancel' /\ \A r \in Request : Cancelling(r)' => Cancelling(r)
  BY CancelStays DEF CancelWatched
<1>2. ASSUME NEW r \in Request, Cancelling(r)' PROVE Watched(r)'
  <2>1. Watched(r) /\ Cancelling(r) BY <1>1, <1>2 DEF CancelWatched
  <2>2. CASE req[p] # r BY <1>1, <2>1, <2>2, OtherStep
  <2>3. CASE req[p] = r
    <3>1. p \in Request => p = r BY <2>3, StepShape DEF TypeInvariant, ProcessShape
    <3>2. Kept(p, r)
      BY <1>1, <1>2, <2>1, <2>3, <3>1, HandlerKept, CancellerKept, ReconcilerKept, TailKept DEF StepOf
    <3>3. QED BY <1>1, <2>1, <2>3, <3>2, WatchedStep
  <2>4. QED BY <2>2, <2>3
<1>3. QED BY <1>1, <1>2 DEF CancelWatched

\* What the other actions leave alone.
LEMMA SameWatched ==
    ASSUME UNCHANGED <<op, base, submitted, artifactVars, processVars, acked>>, NEW r \in Request,
           Watched(r), IF r \in acked THEN TRUE ELSE ~aged'[r]
    PROVE  Watched(r)'
<1>1. Latest' = Latest BY DEF Latest
<1>2. UNCHANGED <<current, pc, req, copy>> BY DEF artifactVars, processVars
<1>3. (Marked(r)' <=> Marked(r)) /\ (Restored(r)' <=> Restored(r)) BY <1>2 DEF Marked, Restored, WorksOn
<1>4. \A q \in Request : IsActive(q)' <=> IsActive(q) BY DEF IsActive
<1>5. ASSUME NEW p \in Process, WorksOn(p, r)' PROVE WorkerShape(p)'
  <2>1. WorkerShape(p) /\ req[p] = r BY <1>2, <1>5 DEF Watched, WorksOn
  <2>2. QED BY <1>2, <1>4, <2>1 DEF WorkerShape
<1>6. QED BY <1>1, <1>2, <1>3, <1>4, <1>5 DEF Watched

\* Time passes, the runtime executes: a row does not get old while a cancel handler
\* works on it.
LEMMA WorldWatched ==
    ASSUME TypeInvariant, CancelWatched, ~SlowRefines, NEW x \in Request,
           Age(x) \/ ExpireLease(x) \/ \E outcome \in Outcome : Execute(x, outcome)
    PROVE  CancelWatched'
<1>1. /\ UNCHANGED <<op, base, submitted, artifactVars, processVars, acked>>
      /\ aged' = aged \/ Age(x)
  BY DEF Age, ExpireLease, Execute, rowVars, clientVars
<1>2. OneCancel' /\ \A r \in Request : Cancelling(r)' <=> Cancelling(r)
  BY <1>1 DEF CancelWatched, OneCancel, Cancelling, WorksOn, processVars
<1>3. ASSUME NEW r \in Request, Cancelling(r), r \notin acked PROVE ~aged'[r]
  <2>1. ~aged[r] BY <1>3 DEF CancelWatched, Watched
  <2>2. CASE Age(x)
    <3>1. x # r BY <1>3, <2>2 DEF Age, Cancelling, WorksOn, Process
    <3>2. QED BY <2>1, <2>2, <3>1 DEF Age, TypeInvariant, TypeOK
  <2>3. QED BY <1>1, <2>1, <2>2
<1>4. QED BY <1>1, <1>2, <1>3, SameWatched DEF CancelWatched

LEMMA SubmitWatched ==
    ASSUME TypeInvariant, CancelWatched, NEW q \in Request, NEW b \in DOMAIN artifacts, Submit(q, b)
    PROVE  CancelWatched'
<1>1. /\ op[q].status = "absent" /\ pc' = [pc EXCEPT ![q] = "created"] /\ req' = [req EXCEPT ![q] = q]
      /\ \A p \in Process \ {q} : copy'[p] = copy[p]
      /\ \A r \in Request \ {q} : op'[r] = op[r]
      /\ submitted' = Append(submitted, q) /\ UNCHANGED <<aged, acked>>
  BY DEF Submit, Goto, clientVars, TypeInvariant, TypeOK
<1>2. q \in Process /\ q \notin Canceller /\ Canceller \subseteq Process BY ProcessAssumption DEF Process
<1>3. Latest' = q
  <2>1. submitted \in Seq(Request) BY DEF TypeInvariant, TypeOK
  <2>2. Len(submitted') = Len(submitted) + 1 /\ Len(submitted) \in Nat BY <1>1, <2>1
  <2>3. submitted'[Len(submitted) + 1] = q BY <1>1, <2>1
  <2>4. QED BY <2>2, <2>3 DEF Latest
<1>4. \A p \in Process \ {q} : pc'[p] = pc[p] /\ req'[p] = req[p] BY <1>1 DEF TypeInvariant, TypeOK
<1>5. OneCancel' /\ \A r \in Request : Cancelling(r)' => Cancelling(r)
  BY <1>1, <1>2, <1>4 DEF CancelWatched, OneCancel, Cancelling, WorksOn
<1>6. ASSUME NEW r \in Request, Watched(r) PROVE Watched(r)'
  <2>1. q # r BY <1>1, <1>6 DEF Watched
  <2>2. op'[r] = op[r] /\ pc'[r] = pc[r] /\ (IsActive(r)' <=> IsActive(r))
    BY <1>1, <1>4, <2>1 DEF Process, IsActive
  <2>3. ASSUME NEW p \in Process, WorksOn(p, r)' PROVE WorkerShape(p)'
    <3>1. p # q BY <1>1, <1>2, <2>1, <2>3 DEF WorksOn, TypeInvariant, TypeOK
    <3>2. WorksOn(p, r) /\ req[p] = r BY <1>4, <2>3, <3>1 DEF WorksOn
    <3>3. WorkerShape(p) BY <1>6, <3>2 DEF Watched
    <3>4. QED BY <1>1, <1>4, <2>2, <3>1, <3>2, <3>3 DEF WorkerShape
  <2>4. Marked(r)' => Marked(r) BY <1>1, <1>2, <1>4 DEF Marked, WorksOn
  <2>5. QED BY <1>1, <1>3, <1>6, <2>1, <2>2, <2>3, <2>4 DEF Watched
<1>7. QED BY <1>5, <1>6 DEF CancelWatched

LEMMA ClaimWatched ==
    ASSUME TypeInvariant, CancelWatched, NEW w \in Reconciler, NEW x \in Request, Claim(w, x)
    PROVE  CancelWatched'
<1>1. /\ pc[w] = "idle" /\ pc' = [pc EXCEPT ![w] = "reading"] /\ req' = [req EXCEPT ![w] = x]
      /\ copy' = [copy EXCEPT ![w] = op[x]]
      /\ UNCHANGED <<op, aged, base, submitted, artifactVars, acked>>
      /\ op[x].status = "cancelling" \/ (IsActive(x) /\ aged[x])
  BY DEF Claim, Claimable, Goto, clientVars
<1>2. /\ w \in Process /\ w \notin Canceller /\ w \notin Request /\ Canceller \subseteq Process
      /\ Request \subseteq Process
  BY ProcessAssumption DEF Process
<1>3. /\ pc'[w] = "reading" /\ req'[w] = x /\ copy'[w] = op[x]
      /\ \A p \in Process \ {w} : pc'[p] = pc[p] /\ req'[p] = req[p] /\ copy'[p] = copy[p]
  BY <1>1, <1>2 DEF TypeInvariant, TypeOK
<1>4. OneCancel' /\ \A r \in Request : Cancelling(r)' <=> Cancelling(r)
  BY <1>1, <1>2, <1>3 DEF CancelWatched, OneCancel, Cancelling, WorksOn
<1>5. IsActive(x) BY <1>1 DEF IsActive, Active
<1>6. Latest' = Latest /\ current' = current /\ \A r \in Request : IsActive(r)' <=> IsActive(r)
  BY <1>1 DEF Latest, IsActive, artifactVars
<1>7. ASSUME NEW r \in Request, Watched(r) PROVE Watched(r)'
  <2>1. x = r => op[x].cancelRequested BY <1>1, <1>5, <1>7 DEF Watched
  <2>2. ASSUME NEW p \in Process, WorksOn(p, r)' PROVE WorkerShape(p)'
    <3>1. CASE p = w BY <1>2, <1>3, <2>1, <2>2, <3>1 DEF WorkerShape, WorksOn
    <3>2. CASE p # w
      <4>1. WorkerShape(p) /\ pc'[p] = pc[p] /\ req'[p] = r /\ req[p] = r /\ copy'[p] = copy[p]
        BY <1>3, <1>7, <2>2, <3>2 DEF Watched, WorksOn
      <4>2. QED BY <1>6, <4>1 DEF WorkerShape
    <3>3. QED BY <3>1, <3>2
  <2>3. (Marked(r)' <=> Marked(r)) /\ (Restored(r)' <=> Restored(r)) /\ pc'[r] = pc[r]
    BY <1>1, <1>2, <1>3 DEF Marked, Restored, WorksOn
  <2>4. Latest = r => x = r BY <1>5, <1>7 DEF Watched
  <2>5. Latest = r => \A p \in Process : pc'[p] # "idle" => req'[p] = r
    BY <1>3, <1>7, <2>4 DEF Watched
  <2>6. QED BY <1>1, <1>6, <1>7, <2>2, <2>3, <2>5 DEF Watched
<1>8. QED BY <1>4, <1>7 DEF CancelWatched

\* The first cancel, in the middle of anything a handler does.
LEMMA ReadWatched ==
    ASSUME TypeInvariant, Undisturbed, ~EarlyCancel, NEW c \in Canceller, NEW x \in Request, ReadForCancel(c, x)
    PROVE  CancelWatched'
<1>0. /\ c \in Process /\ c \notin Request /\ c \notin Reconciler /\ Canceller \subseteq Process
      /\ Request \subseteq Process /\ NoCancel /\ acked = {}
  BY ProcessAssumption DEF Process, Undisturbed
<1>1. /\ op[x].status \notin {"absent", "starting"} /\ UNCHANGED <<rowVars, artifactVars>>
      /\ \/ /\ IsActive(x) /\ req' = [req EXCEPT ![c] = x] /\ copy' = [copy EXCEPT ![c] = op[x]]
            /\ pc' = [pc EXCEPT ![c] = "marking"] /\ acked' = acked
         \/ acked' = (IF op[x].status = "cancelled" THEN acked \cup {x} ELSE acked) /\ UNCHANGED <<req, copy, pc>>
  BY DEF ReadForCancel, Goto
<1>2. op[x].status # "cancelled" /\ op[x].status # "cancelling" BY <1>0 DEF NoCancel, Uncancelled
<1>3. acked' = {} BY <1>0, <1>1, <1>2
<1>4. CASE UNCHANGED <<req, copy, pc>>
  BY <1>0, <1>3, <1>4 DEF CancelWatched, OneCancel, Cancelling, WorksOn, NoCancel
<1>5. CASE /\ IsActive(x) /\ req' = [req EXCEPT ![c] = x] /\ copy' = [copy EXCEPT ![c] = op[x]]
           /\ pc' = [pc EXCEPT ![c] = "marking"]
  <2>1. /\ pc'[c] = "marking" /\ req'[c] = x
        /\ \A p \in Process \ {c} : pc'[p] = pc[p] /\ req'[p] = req[p] /\ copy'[p] = copy[p]
    BY <1>0, <1>5 DEF TypeInvariant, TypeOK
  <2>2. \A d \in Canceller \ {c} : pc'[d] = "idle" BY <1>0, <2>1 DEF NoCancel
  <2>3. OneCancel' /\ \A r \in Request : Cancelling(r)' => r = x /\ ~Restored(r)' /\ ~Marked(r)'
    BY <1>3, <2>1, <2>2 DEF OneCancel, Cancelling, WorksOn, Restored, Marked
  <2>4. \A p \in Process : pc[p] # "idle" => p \in Request /\ req[p] = p /\ p = Latest /\ pc[p] \notin CancelPlaces
    BY <1>0 DEF Undisturbed, NoCancel, Process, TypeInvariant, ProcessShape
  <2>5. pc[x] # "idle" /\ x = Latest /\ pc[x] # "created" /\ ~aged[x] BY <1>1, <1>5 DEF Undisturbed
  <2>6. \A q \in Request \ {x} : ~IsActive(q)' BY <1>1, <2>5 DEF Undisturbed, IsActive, rowVars
  <2>7. ASSUME NEW p \in Process, WorksOn(p, x)' PROVE WorkerShape(p)'
    <3>1. CASE p = c BY <1>0, <2>1, <3>1 DEF WorkerShape
    <3>2. CASE p # c
      <4>1. p = x /\ pc'[p] = pc[p] /\ pc[p] # "idle" /\ p \in Request
        BY <2>1, <2>4, <2>5, <2>7, <3>2 DEF WorksOn
      <4>2. pc[p] \notin CancelPlaces BY <2>4, <4>1
      <4>3. p \notin Canceller /\ p \notin Reconciler BY <4>1, ProcessAssumption
      <4>4. QED BY <2>5, <4>1, <4>2, <4>3 DEF WorkerShape, CancelPlaces
    <3>3. QED BY <3>1, <3>2
  <2>8. Latest' = Latest BY <1>1 DEF Latest, rowVars
  <2>9. Cancelling(x)' => Watched(x)'
    <3>1. op'[x] = op[x] /\ aged'[x] = aged[x] BY <1>1 DEF rowVars
    <3>2. \A p \in Process : pc'[p] # "idle" => req'[p] = x BY <2>1, <2>4, <2>5
    <3>3. QED BY <1>1, <1>2, <1>3, <2>3, <2>5, <2>6, <2>7, <3>1, <3>2 DEF Watched
  <2>10. QED BY <2>3, <2>9 DEF CancelWatched
<1>6. QED BY <1>1, <1>4, <1>5

\* Before that: handlers come one after the other.
LEMMA UndisturbedStep ==
    ASSUME TypeInvariant, Undisturbed, ~SlowRefines, [Next]_vars, cancels' = cancels, crashes' = crashes
    PROVE  Undisturbed'
<1>0. NoCancel /\ acked = {} /\ Request \subseteq Process /\ Request \cap Canceller = {} /\ Request \cap Reconciler = {}
  BY ProcessAssumption DEF Undisturbed, Process
<1>1. ASSUME NEW r \in Request, WorkStep(r), pc'[r] # "created", acked' = acked, GoesOn(r) \/ Settle(r)
      PROVE  Undisturbed'
  <2>1. req[r] = r /\ pc[r] # "idle" BY <1>0, <1>1 DEF WorkStep, TypeInvariant, ProcessShape
  <2>2. NoCancel' /\ UNCHANGED submitted /\ \A q \in Request : aged'[q] => aged[q] BY <1>1 DEF WorkStep
  <2>3. \A p \in Process \ {r} : pc'[p] = pc[p] BY <1>1 DEF WorkStep, OwnStep
  <2>4. \A q \in Request \ {r} : op'[q].status = op[q].status
    <3>1. CASE GoesOn(r) BY <2>1, <3>1 DEF GoesOn
    <3>2. CASE Settle(r) BY <1>0, <2>1, <3>2, SettleRow
    <3>3. QED BY <1>1, <3>1, <3>2
  <2>5. IsActive(r)' <=> pc'[r] # "idle"
    <3>1. CASE GoesOn(r) BY <2>1, <3>1 DEF GoesOn, Undisturbed, IsActive, Active
    <3>2. CASE Settle(r)
      <4>1. op'[r].status \in {"completed", "failed"} BY <1>0, <2>1, <3>2, SettleRow
      <4>2. pc'[r] = "idle" BY <1>0, <3>2 DEF Settle, Finish, TypeInvariant, TypeOK
      <4>3. QED BY <4>1, <4>2 DEF IsActive, Active
    <3>3. QED BY <1>1, <3>1, <3>2
  <2>6. Latest' = Latest /\ submitted # <<>> /\ r = Latest BY <2>1, <2>2 DEF Latest, Undisturbed
  <2>7. QED BY <1>0, <1>1, <2>2, <2>3, <2>4, <2>5, <2>6 DEF Undisturbed, IsActive, Process
<1>2. ASSUME NEW r \in Request, RefineStep(r) PROVE Undisturbed'
  <2>1. WorkStep(r) /\ GoesOn(r) BY <1>0, <1>2, StepsLeft, HandlerWork
  <2>2. pc'[r] # "created"
    <3>1. \A place : Goto(r, place) => pc'[r] = place BY <1>0 DEF Goto, TypeInvariant, TypeOK
    <3>2. QED
      BY <1>2, <3>1 DEF RefineStep, StartRunning, OpenGateway, AgentCreated, GatewayFails, DropAgent, ConsumeStream,
         EventArrives, CheckEvent, ApplyAndEnd, ApplyFails, CallFails, ToCatch, EndRefine, Judge, Revert,
         CatchError, Receive, EndOfStream, LeaveStream
  <2>3. acked' = acked BY <1>2, RefineStepTyped DEF clientVars
  <2>4. QED BY <1>1, <2>1, <2>2, <2>3
<1>3. ASSUME NEW p \in Process, TailStep(p) PROVE Undisturbed'
  <2>1. Settle(p) BY <1>0, <1>3, StepsLeft
  <2>2. p \in Request BY <1>0, <2>1 DEF Settle, Undisturbed, NoCancel, Process
  <2>3. acked' = acked /\ pc'[p] # "created" BY <2>1 DEF Settle, Finish, clientVars, TypeInvariant, TypeOK
  <2>4. QED BY <1>0, <1>1, <2>1, <2>2, <2>3, SettleWork
<1>4. ASSUME NEW w \in Reconciler, ReconcileStep(w) PROVE FALSE
  BY <1>4, ReconcileStepTyped DEF Undisturbed
<1>5. ASSUME NEW c \in Canceller, CancelStep(c) PROVE FALSE BY <1>0, <1>5, StepsLeft
<1>6. ASSUME NEW c \in Canceller, NEW r \in Request, ReadForCancel(c, r) PROVE FALSE
  BY <1>6 DEF ReadForCancel, TypeInvariant, TypeOK
<1>7. ASSUME NEW p \in Process, Crash(p) PROVE FALSE BY <1>7 DEF Crash, TypeInvariant, TypeOK
<1>8. ASSUME NEW w \in Reconciler, NEW r \in Request, Claim(w, r) PROVE FALSE
  BY <1>0, <1>8 DEF Claim, Claimable, Undisturbed, NoCancel, Uncancelled
<1>9. ASSUME NEW r \in Request, Age(r) PROVE FALSE
  <2>1. IsActive(r) /\ req[r] # r BY <1>0, <1>9 DEF Age, IsActive, Active
  <2>2. QED BY <1>0, <2>1 DEF Undisturbed, TypeInvariant, ProcessShape
<1>10. ASSUME UNCHANGED <<op, aged, submitted, processVars, acked, intent>>,
              \A r \in Request : rt'[r] # "cancelled"
       PROVE  Undisturbed'
  BY <1>0, <1>10 DEF Undisturbed, NoCancel, processVars, IsActive, Latest
<1>11. ASSUME NEW r \in Request, ExpireLease(r) \/ \E outcome \in Outcome : Execute(r, outcome)
       PROVE  Undisturbed'
  <2>1. UNCHANGED <<op, aged, submitted, processVars, acked, intent>>
    BY <1>11 DEF ExpireLease, Execute, rowVars, runtimeVars, clientVars
  <2>2. rt[r] # "cancelled" /\ \A q \in Request : rt[q] # "cancelled" BY <1>0 DEF NoCancel
  <2>3. rt' = rt \/ \E s \in {"failed", "completed"} : rt' = [rt EXCEPT ![r] = s]
    BY <1>11, <2>2 DEF ExpireLease, Execute, runtimeVars
  <2>4. \A q \in Request : rt'[q] # "cancelled" BY <2>2, <2>3 DEF TypeInvariant, TypeOK
  <2>5. QED BY <1>10, <2>1, <2>4
<1>12. ASSUME NEW r \in Request, NEW b \in DOMAIN artifacts, Submit(r, b) PROVE Undisturbed'
  <2>. DEFINE row == [NoRow EXCEPT !.status = "starting"]
  <2>1. /\ \A q \in Request : ~IsActive(q)
        /\ op' = [op EXCEPT ![r] = row] /\ copy' = [copy EXCEPT ![r] = row]
        /\ submitted' = Append(submitted, r) /\ pc' = [pc EXCEPT ![r] = "created"]
        /\ UNCHANGED <<aged, runtimeVars, acked>>
    BY <1>12 DEF Submit, Goto, clientVars
  <2>2. row.status = "starting" /\ Uncancelled(row) BY DEF Uncancelled, NoRow
  <2>. HIDE DEF row
  <2>3. submitted' # <<>> /\ Latest' = r
    <3>1. submitted \in Seq(Request) BY DEF TypeInvariant, TypeOK
    <3>2. Len(submitted') = Len(submitted) + 1 /\ Len(submitted) \in Nat BY <2>1, <3>1
    <3>3. submitted'[Len(submitted) + 1] = r BY <2>1, <3>1
    <3>4. QED BY <3>2, <3>3 DEF Latest
  <2>4. /\ op'[r] = row /\ copy'[r] = row /\ pc'[r] = "created"
        /\ \A q \in Request \ {r} : op'[q] = op[q]
        /\ \A p \in Process \ {r} : pc'[p] = pc[p] /\ copy'[p] = copy[p]
    BY <1>0, <2>1 DEF TypeInvariant, TypeOK
  <2>5. NoCancel' BY <1>0, <2>1, <2>2, <2>4 DEF NoCancel, CancelPlaces, runtimeVars, Process
  <2>6. \A q \in Request \ {r} : pc'[q] = "idle" /\ ~IsActive(q)'
    BY <1>0, <2>1, <2>4 DEF Undisturbed, IsActive
  <2>7. IsActive(r)' BY <2>2, <2>4 DEF IsActive, Active
  <2>8. QED BY <1>0, <2>1, <2>2, <2>3, <2>4, <2>5, <2>6, <2>7 DEF Undisturbed, Process
<1>13. CASE UNCHANGED vars
  BY <1>0, <1>10, <1>13 DEF vars, rowVars, runtimeVars, clientVars, NoCancel
<1>14. QED
  BY <1>2, <1>3, <1>4, <1>5, <1>6, <1>7, <1>8, <1>9, <1>11, <1>12, <1>13 DEF Next

LEMMA CancelInvariantStep ==
    ASSUME ~EarlyCancel, ~SlowRefines
    PROVE  CancelInvariant /\ [Next]_vars => CancelInvariant'
<1>. SUFFICES ASSUME CancelInvariant, [Next]_vars PROVE CancelInvariant'
  OBVIOUS
<1>1. TypeInvariant /\ TypeInvariant' BY TypeStep DEF CancelInvariant
<1>. SUFFICES ASSUME crashes' = 0 PROVE CancelKnown'
  BY <1>1 DEF CancelInvariant
<1>2. ASSUME NEW p \in Process, StepOf(p) PROVE UNCHANGED <<cancels, crashes>>
  BY <1>1, <1>2, StepShape
<1>3. ASSUME NEW r \in Request, Age(r) \/ ExpireLease(r) \/ \E outcome \in Outcome : Execute(r, outcome)
      PROVE  UNCHANGED <<cancels, crashes>>
  BY <1>3 DEF Age, ExpireLease, Execute, clientVars
<1>4. ASSUME NEW r \in Request, NEW b \in DOMAIN artifacts, Submit(r, b) PROVE UNCHANGED <<cancels, crashes>>
  BY <1>4 DEF Submit, clientVars
<1>5. ASSUME NEW w \in Reconciler, NEW r \in Request, Claim(w, r) PROVE UNCHANGED <<cancels, crashes>>
  BY <1>5 DEF Claim, clientVars
<1>6. ASSUME NEW c \in Canceller, NEW r \in Request, ReadForCancel(c, r)
      PROVE  cancels' = cancels + 1 /\ crashes' = crashes
  BY <1>6 DEF ReadForCancel
<1>7. ASSUME NEW p \in Process, Crash(p) PROVE FALSE BY <1>1, <1>7 DEF Crash, TypeInvariant, TypeOK
<1>8. CASE UNCHANGED vars
  <2>1. UNCHANGED <<op, aged, base, submitted, artifactVars, processVars, acked, cancels, crashes>>
    BY <1>8 DEF vars, rowVars, clientVars
  <2>2. \A r \in Request : Watched(r) => Watched(r)' BY <2>1, SameWatched DEF Watched
  <2>3. OneCancel' <=> OneCancel BY <2>1 DEF OneCancel, processVars
  <2>4. \A r \in Request : Cancelling(r)' <=> Cancelling(r) BY <2>1 DEF Cancelling, WorksOn, processVars
  <2>5. CancelWatched => CancelWatched' BY <2>2, <2>3, <2>4 DEF CancelWatched
  <2>6. cancels = 0 /\ Undisturbed => Undisturbed' BY <1>1, <2>1, UndisturbedStep
  <2>7. QED BY <2>1, <2>5, <2>6 DEF CancelInvariant, CancelKnown
<1>9. CASE UNCHANGED <<cancels, crashes>> /\ ~UNCHANGED vars
  <2>1. CASE cancels = 0
    <3>1. Undisturbed BY <1>9, <2>1 DEF CancelInvariant, CancelKnown
    <3>2. Undisturbed' BY <1>1, <1>9, <3>1, UndisturbedStep
    <3>3. QED BY <1>9, <2>1, <3>2 DEF CancelKnown
  <2>2. CASE cancels = 1
    <3>1. CancelWatched BY <1>9, <2>2 DEF CancelInvariant, CancelKnown
    <3>2. ASSUME NEW p \in Process, StepOf(p) PROVE CancelWatched' BY <1>1, <3>1, <3>2, StepWatched
    <3>3. ASSUME NEW c \in Canceller, NEW r \in Request, ReadForCancel(c, r) PROVE FALSE
      BY <1>9, <2>2, <3>3, <1>6
    <3>4. CancelWatched'
      BY <1>1, <1>7, <1>9, <3>1, <3>2, <3>3, WorldWatched, SubmitWatched, ClaimWatched DEF Next, StepOf, Process
    <3>5. QED BY <1>9, <2>2, <3>4 DEF CancelKnown
  <2>3. QED BY <1>9, <2>1, <2>2 DEF CancelKnown
<1>10. ASSUME NEW c \in Canceller, NEW r \in Request, ReadForCancel(c, r) PROVE CancelKnown'
  <2>1. cancels' = cancels + 1 /\ crashes = 0 /\ cancels \in Nat
    BY <1>1, <1>6, <1>10, BoundAssumption DEF TypeInvariant, TypeOK
  <2>2. cancels = 0 => CancelWatched'
    BY <1>1, <1>10, <2>1, ReadWatched DEF CancelInvariant, CancelKnown
  <2>3. QED BY <2>1, <2>2 DEF CancelKnown
<1>11. QED
  BY <1>2, <1>3, <1>4, <1>5, <1>7, <1>8, <1>9, <1>10 DEF Next, StepOf, Process

LEMMA CancelInvariantInit == Init => CancelInvariant
<1>. SUFFICES ASSUME Init PROVE CancelInvariant
  OBVIOUS
<1>1. Uncancelled(NoRow) /\ NoRow.status \notin Active BY DEF Uncancelled, NoRow, Active
<1>2. Undisturbed BY <1>1 DEF Init, Undisturbed, NoCancel, IsActive, CancelPlaces, Process
<1>3. cancels = 0 BY DEF Init
<1>4. QED BY <1>2, <1>3, TypeInit DEF CancelInvariant, CancelKnown

\* After one cancel, and without a crash: the handler's row stays marked until the
\* handler has ended, so that it undoes itself a version it made current late; the
\* cancel handler and the reconcilers write only marked or cancelled copies.
THEOREM CancelInvariantHolds == ~EarlyCancel /\ ~SlowRefines => (Spec => []CancelInvariant)
<1>1. CASE ~EarlyCancel /\ ~SlowRefines
  <2>1. CancelInvariant /\ [Next]_vars => CancelInvariant' BY <1>1, CancelInvariantStep
  <2>2. Spec => []CancelInvariant BY <2>1, CancelInvariantInit, PTL DEF Spec
  <2>3. QED BY <2>2
<1>2. QED BY <1>1

LEMMA CancelFollows ==
    CancelInvariant => (cancels <= 1 /\ crashes = 0 => CancelAnswerHolds)
<1>. SUFFICES ASSUME CancelInvariant, cancels <= 1, crashes = 0 PROVE CancelAnswerHolds
  OBVIOUS
<1>1. acked \subseteq Request /\ (cancels = 0 \/ cancels = 1)
  BY BoundAssumption DEF CancelInvariant, TypeInvariant, TypeOK
<1>2. CASE cancels = 0
  BY <1>2 DEF CancelInvariant, CancelKnown, Undisturbed, CancelAnswerHolds
<1>3. CASE cancels = 1
  <2>1. \A r \in acked : Watched(r) /\ Restored(r) /\ r \in Process
    BY <1>1, <1>3 DEF CancelInvariant, CancelKnown, CancelWatched, Cancelling, Restored, Process
  <2>2. \A r \in acked : ~IsActive(r) BY <2>1 DEF Watched
  <2>3. Quiet /\ Latest \in acked => current = base[Latest] BY <2>1 DEF Watched, Quiet, LateVersion
  <2>4. QED BY <2>2, <2>3 DEF CancelAnswerHolds
<1>4. QED BY <1>1, <1>2, <1>3

\* An answer "cancelled" holds, wherever the refine was when the cancel came and
\* whichever base it started from: the base artifact is current once nobody works,
\* and the operation is never active again. It takes a single cancel and no crash: a
\* handler that is lost cannot take back the version it made current late, and a
\* second cancel is answered from a row that the first one still overwrites.
THEOREM CancelStands ==
    ~EarlyCancel /\ ~SlowRefines => (Spec => [](cancels <= 1 /\ crashes = 0 => CancelAnswerHolds))
<1>1. CASE ~EarlyCancel /\ ~SlowRefines
  <2>1. Spec => []CancelInvariant BY <1>1, CancelInvariantHolds
  <2>2. Spec => [](cancels <= 1 /\ crashes = 0 => CancelAnswerHolds) BY <2>1, CancelFollows, PTL
  <2>3. QED BY <2>2
<1>2. QED BY <1>1
=============================================================================
