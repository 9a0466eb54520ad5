------------------------------ MODULE DesignJobs ------------------------------
(***************************************************************************)
(* One design job (apps/api/src/service.ts): the request that creates it,  *)
(* the queue consumer that follows the runtime's event stream, the quality *)
(* review of every page and the repairs it queues, the finalization that   *)
(* gives the job its end, and an administrator's cancel.  They run         *)
(* concurrently in one process and share the job's rows and the in-memory  *)
(* set pendingAutomationReviews.                                           *)
(*                                                                         *)
(* A task is a triple <<kind, variation, page>>; an action is the code     *)
(* from one await to the next.  Where an action covers several awaits,     *)
(* those between only publish events or write files nobody here reads.     *)
(***************************************************************************)
EXTENDS Naturals, Sequences, FiniteSets

CONSTANTS
    Variation,      \* the job's variations
    None,           \* no variation
    Store,          \* "memory" (InMemoryStore) or "postgres" (PostgresRepository)
    Gateway,        \* "babel-o" (BabelOGateway) or "cli-agent" (CliAgentGateway)
    Flaw,           \* what a quality gate may find wrong with a page
    MaxRepairs,     \* automation.maxRepairAttempts
    LostBase,       \* whether a repair may find its base page unreadable
    MaxEvents,      \* bound: events a consumer receives besides the results
    MaxPages,       \* bound: pages of one variation
    MaxConfirms,    \* bound: repairs that an owner asks for,
    MaxBusy,        \* and variations that have or may get a page when he does
    MaxUpsets       \* bound: administrator's cancels, failures of the creating request, and deaths of
                    \* the worker process, which are no more than BullMQ's maxStalledCount

ASSUME StoreAssumption == Store \in {"memory", "postgres"}
ASSUME GatewayAssumption == Gateway \in {"babel-o", "cli-agent"}
ASSUME ContentAssumption == IsFiniteSet(Flaw) /\ Flaw \cap {"pass", "bare", "none"} = {}
ASSUME BoundAssumption ==
    {MaxRepairs, MaxEvents, MaxPages, MaxConfirms, MaxBusy, MaxUpsets} \subseteq Nat
ASSUME SwitchAssumption == LostBase \in BOOLEAN
ASSUME VariationAssumption == IsFiniteSet(Variation) /\ None \notin Variation

VARIABLES
    job,        \* design_jobs.status
    var,        \* variation -> its row: status and currentArtifactId
    pages,      \* variation -> its html artifacts in the order of creation
    pending,    \* pendingAutomationReviews of the job
    consumer,   \* design and repair jobs of the queue -> their progress
    reviews,    \* reviews under way, each named by its page
    finals,     \* finalizations under way
    cancel,     \* the administrator's cancel
    writes,     \* applyVariationEvent calls that wait for PostgreSQL
    ended,      \* design.job_completed events published (two stands for more)
    confirms,   \* repairs an owner has asked for
    upsets      \* cancels, failures and deaths so far

rowVars == <<job, var, pages>>
vars == <<rowVars, pending, consumer, reviews, finals, cancel, writes, ended, confirms, upsets>>

-----------------------------------------------------------------------------
\* What a page is: a result without files becomes a placeholder, which is not reviewed.
Content == {"pass", "bare"} \cup Flaw
Terminal == {"completed", "failed", "cancelled"}        \* isTerminalVariationStatus
Unfinished == {"queued", "streaming", "rendering_preview"}
Row == [status : Unfinished \cup Terminal \cup {"absent"}, artifact : 0 .. MaxPages]

Worker == <<"design", None, 0>>
Repair == {"repair"} \X Variation \X (1 .. MaxPages)
Consumer == {Worker} \cup Repair
Canceller == <<"cancel", None, 0>>
Final(task) == <<"final", task[2], task[3]>>
Page == {"page"} \X Variation \X (1 .. MaxPages)
Task == Consumer \cup {Canceller, Final(Worker)} \cup Page
          \cup ({"final"} \X Variation \X (1 .. MaxPages))

\* The variations a consumer hears of.
Scope(p) == IF p = Worker THEN Variation ELSE {p[2]}

Progress ==
    [at : {"absent", "created", "prepared", "abandoned", "queued", "streaming", "handling", "making",
           "applying", "stopping", "releasing", "failing", "marking", "done"},
     v : Variation \cup {None},
     kind : {"none", "queued", "streaming", "lane", "updated", "completed", "failed", "unfinished"},
     content : Content \cup {"none"},
     seen : Unfinished \cup Terminal \cup {"absent"},
     version : 0 .. MaxPages + 1,
     left : 0 .. MaxEvents,
     results : SUBSET Variation,
     todo : SUBSET Variation]

Idle == [at |-> "absent", v |-> None, kind |-> "none", content |-> "none", seen |-> "absent",
         version |-> 0, left |-> MaxEvents, results |-> {}, todo |-> {}]

TypeOK ==
    /\ job \in {"absent", "queued", "running"} \cup Terminal
    /\ var \in [Variation -> Row]
    /\ pages \in [Variation -> Seq([version : 1 .. MaxPages + 1, content : Content])]
    /\ pending \subseteq Variation
    /\ consumer \in [Consumer -> Progress]
    /\ reviews \subseteq Page
    /\ finals \subseteq [by : Task, at : {"snapshot", "reconciling", "concluding"},
                         snapshot : [Variation -> Row], todo : SUBSET Variation,
                         status : Terminal \cup {"none"}]
    /\ cancel \in [at : {"idle", "asking", "cancelling"}, todo : SUBSET Variation]
    /\ writes \subseteq [by : Task, v : Variation, status : Unfinished \cup Terminal \cup {"keep"},
                         artifact : 0 .. MaxPages, row : Row, read : BOOLEAN]
    /\ ended \in 0 .. 2
    /\ confirms \in 0 .. MaxConfirms /\ upsets \in 0 .. MaxUpsets

Upset == upsets < MaxUpsets /\ upsets' = upsets + 1

NoRow == [status |-> "absent", artifact |-> 0]

Init ==
    /\ job = "absent" /\ var = [v \in Variation |-> NoRow]
    /\ pages = [v \in Variation |-> <<>>]
    /\ pending = {} /\ reviews = {} /\ finals = {} /\ writes = {}
    /\ consumer = [p \in Consumer |-> Idle]
    /\ cancel = [at |-> "idle", todo |-> {}]
    /\ ended = 0 /\ confirms = 0 /\ upsets = 0

-----------------------------------------------------------------------------
(* The store.                                                              *)

\* applyVariationEvent: the whole row, with the fields the caller named.
Merge(row, status, artifact) ==
    [status |-> IF status = "keep" THEN row.status ELSE status,
     artifact |-> IF artifact = 0 THEN row.artifact ELSE artifact]

\* The in-memory store applies the call at once; PostgreSQL reads the row and
\* writes it back in a second statement.
Apply(task, v, status, artifact) ==
    IF Store = "memory"
      THEN /\ var' = [var EXCEPT ![v] = Merge(@, status, artifact)]
           /\ UNCHANGED writes
      ELSE /\ writes' = writes \cup {[by |-> task, v |-> v, status |-> status,
                                      artifact |-> artifact, row |-> NoRow, read |-> FALSE]}
           /\ UNCHANGED var

ReadRow(w) ==
    /\ ~w.read
    /\ writes' = (writes \ {w}) \cup {[w EXCEPT !.row = var[w.v], !.read = TRUE]}
    /\ UNCHANGED <<rowVars, pending, consumer, reviews, finals, cancel, ended, confirms, upsets>>

WriteRow(w) ==
    /\ w.read
    /\ var' = [var EXCEPT ![w.v] = Merge(w.row, w.status, w.artifact)]
    /\ writes' = writes \ {w}
    /\ UNCHANGED <<job, pages, pending, consumer, reviews, finals, cancel, ended, confirms, upsets>>

\* The task awaits its own call.
Waits(task) == \E w \in writes : w.by = task

\* nextHtmlArtifactVersion
NextVersion(v) ==
    LET taken == {pages[v][i].version : i \in DOMAIN pages[v]}
    IN  CHOOSE n \in 1 .. MaxPages + 1 :
            /\ \A m \in taken : m < n
            /\ n = 1 \/ n - 1 \in taken

-----------------------------------------------------------------------------
(* createDesignJobInternal and the start of its queue job.                 *)

Move(p, changes) == consumer' = [consumer EXCEPT ![p] = changes]

CreateJob ==
    /\ consumer[Worker].at = "absent"
    /\ job' = "queued"
    /\ Move(Worker, [consumer[Worker] EXCEPT !.at = "created"])
    /\ UNCHANGED <<var, pages, pending, reviews, finals, cancel, writes, ended, confirms, upsets>>

CreateVariations ==
    /\ consumer[Worker].at = "created"
    /\ var' = [v \in Variation |-> [status |-> "queued", artifact |-> 0]]
    /\ Move(Worker, [consumer[Worker] EXCEPT !.at = "prepared"])
    /\ UNCHANGED <<job, pages, pending, reviews, finals, cancel, writes, ended, confirms, upsets>>

EnqueueDesignJob ==
    /\ consumer[Worker].at = "prepared"
    /\ Move(Worker, [consumer[Worker] EXCEPT !.at = "queued"])
    /\ UNCHANGED <<rowVars, pending, reviews, finals, cancel, writes, ended, confirms, upsets>>

\* A write of the request fails, or its process dies: what it has written stays, and no
\* queue knows of the job.
AbandonJob ==
    /\ consumer[Worker].at \in {"created", "prepared"} /\ Upset
    /\ Move(Worker, [consumer[Worker] EXCEPT !.at = "abandoned"])
    /\ UNCHANGED <<rowVars, pending, reviews, finals, cancel, writes, ended, confirms>>

\* processQueuedDesignJob, runMockJob: whatever the status was, the job now runs.
StartDesignJob ==
    /\ consumer[Worker].at = "queued"
    /\ job' = "running"
    /\ Move(Worker, [consumer[Worker] EXCEPT !.at = "streaming"])
    /\ UNCHANGED <<var, pages, pending, reviews, finals, cancel, writes, ended, confirms, upsets>>

-----------------------------------------------------------------------------
(* Runtime events: the loop of runMockJob and of processQueuedRefineJob,   *)
(* and applyEventSideEffects.  A gateway gives every variation's stream    *)
(* one result.  The CLI agent's is its last event and the only one with a  *)
(* page; BabeL-O's may be followed by others, and a page comes whenever a  *)
(* workspace changes.                                                      *)

ProgressKind(p) ==
    IF Gateway = "babel-o" THEN {"queued", "streaming", "lane", "updated"}
    ELSE IF p = Worker THEN {"queued", "streaming"} ELSE {"streaming"}
UpdateContent == Content \ {"bare"}
ResultContent == IF Gateway = "babel-o" THEN Content ELSE Content \ {"bare"}

Streaming(p) == consumer[p].at = "streaming" /\ ~Waits(p)

\* Pages of v that exist or are being made (bound).
PageCount(v) == Len(pages[v]) + Cardinality({p \in Consumer :
                    consumer[p].v = v /\ consumer[p].at \in {"handling", "making"}
                    /\ consumer[p].content # "none"})

\* The next event is read, and then the variation's row.
Receive(p, v, kind, content) ==
    /\ Streaming(p) /\ v \in Scope(p)
    /\ content # "none" => PageCount(v) < MaxPages
    /\ Move(p, [consumer[p] EXCEPT !.at = "handling", !.v = v, !.kind = kind,
                !.content = content, !.seen = var[v].status,
                !.left = IF kind \in ProgressKind(p) \/ v \in consumer[p].results THEN @ - 1 ELSE @,
                !.results = IF kind \in ProgressKind(p) THEN @ ELSE @ \cup {v}])
    /\ UNCHANGED <<rowVars, pending, reviews, finals, cancel, writes, ended, confirms, upsets>>

ReceiveProgress(p) ==
    \E v \in Variation, kind \in ProgressKind(p) :
        /\ consumer[p].left > 0
        /\ Gateway = "cli-agent" => v \notin consumer[p].results
        /\ \E content \in {"none"} \cup IF kind = "updated" THEN UpdateContent ELSE {} :
              Receive(p, v, kind, content)

ReceiveResult(p) ==
    \E v \in Variation \ consumer[p].results :
        \/ Receive(p, v, "failed", "none")
        \/ \E content \in ResultContent : Receive(p, v, "completed", content)

\* BabeL-O's stream breaks after its result.
ReceiveBreak(p) ==
    /\ Gateway = "babel-o" /\ consumer[p].left > 0
    /\ \E v \in consumer[p].results : Receive(p, v, "failed", "none")

SeenTerminal(p) == consumer[p].seen \in Terminal

\* The handler is done with its event.
Leave(p, place) ==
    Move(p, [consumer[p] EXCEPT !.at = place, !.v = None, !.kind = "none", !.content = "none",
             !.seen = "absent", !.version = 0])

\* The queue job is done.
Finish(p) == Move(p, [Idle EXCEPT !.at = "done"])

\* variation_queued, variation_streaming, runtime_lane_assigned and _retry_started
HandleProgress(p) ==
    /\ consumer[p].at = "handling" /\ consumer[p].kind \in {"queued", "streaming", "lane"}
    /\ IF SeenTerminal(p) THEN UNCHANGED <<var, writes>>
       ELSE Apply(p, consumer[p].v,
                  IF consumer[p].kind = "lane" THEN "keep" ELSE consumer[p].kind, 0)
    /\ Leave(p, "streaming")
    /\ UNCHANGED <<job, pages, pending, reviews, finals, cancel, ended, confirms, upsets>>

\* variation_failed; a failed repair also stops the automation loop.
HandleFailure(p) ==
    /\ consumer[p].at = "handling" /\ consumer[p].kind \in {"failed", "unfinished"}
    /\ IF SeenTerminal(p) THEN UNCHANGED <<var, writes>>
       ELSE Apply(p, consumer[p].v, "failed", 0)
    /\ Leave(p, IF consumer[p].kind = "unfinished" THEN "marking"
                ELSE IF p \in Repair THEN "stopping" ELSE "streaming")
    /\ UNCHANGED <<job, pages, pending, reviews, finals, cancel, ended, confirms, upsets>>

\* variation_artifact_updated without a page
HandleUpdate(p) ==
    /\ consumer[p].at = "handling" /\ consumer[p].kind = "updated" /\ consumer[p].content = "none"
    /\ Apply(p, consumer[p].v, IF SeenTerminal(p) THEN consumer[p].seen ELSE "streaming", 0)
    /\ Leave(p, "streaming")
    /\ UNCHANGED <<job, pages, pending, reviews, finals, cancel, ended, confirms, upsets>>

\* variation_artifact_updated and variation_completed with a page: its version is
\* read first, and the gates look at the page before it is stored.
HandlePage(p) ==
    /\ consumer[p].at = "handling" /\ consumer[p].content # "none"
    /\ Move(p, [consumer[p] EXCEPT !.at = "making", !.version = NextVersion(consumer[p].v)])
    /\ UNCHANGED <<rowVars, pending, reviews, finals, cancel, writes, ended, confirms, upsets>>

\* createRuntimeHtmlArtifact and publishAutomationLoopEventsForArtifact: a page with
\* flaws locks the job and shows itself, in a call nobody awaits; then its review starts.
\* PostgreSQL's unique index takes no version twice.
MaterializeArtifact(p) ==
    LET v == consumer[p].v
        page == <<"page", v, Len(pages[v]) + 1>>
    IN  /\ consumer[p].at = "making"
        /\ Store = "memory" \/ \A i \in DOMAIN pages[v] : pages[v][i].version # consumer[p].version
        /\ pages' = [pages EXCEPT ![v] = Append(@, [version |-> consumer[p].version,
                                                    content |-> consumer[p].content])]
        /\ reviews' = IF consumer[p].content = "bare" THEN reviews ELSE reviews \cup {page}
        /\ IF consumer[p].content \notin Flaw THEN UNCHANGED <<pending, var, writes>>
           ELSE /\ pending' = pending \cup {v}
                /\ Apply(page, v, "rendering_preview", page[3])
        /\ Move(p, [consumer[p] EXCEPT !.at = "applying", !.version = page[3]])
        /\ UNCHANGED <<job, finals, cancel, ended, confirms, upsets>>

\* A page that cannot be stored ends the stream: its handler throws.
MaterializeFails(p) ==
    /\ consumer[p].at = "making"
    /\ Leave(p, IF p = Worker THEN "failing" ELSE "releasing")
    /\ UNCHANGED <<rowVars, pending, reviews, finals, cancel, writes, ended, confirms, upsets>>

\* A completed event completes the variation whatever it was; an updated one leaves
\* a terminal status as the handler saw it.
ApplyArtifact(p) ==
    /\ consumer[p].at = "applying"
    /\ Apply(p, consumer[p].v,
             IF consumer[p].kind = "completed" THEN "completed"
             ELSE IF SeenTerminal(p) THEN consumer[p].seen ELSE "rendering_preview",
             consumer[p].version)
    /\ Leave(p, "streaming")
    /\ UNCHANGED <<job, pages, pending, reviews, finals, cancel, ended, confirms, upsets>>

HandleEvent(p) ==
    \/ HandleProgress(p) \/ HandleFailure(p) \/ HandleUpdate(p) \/ HandlePage(p)
    \/ MaterializeArtifact(p) \/ MaterializeFails(p) \/ ApplyArtifact(p)

-----------------------------------------------------------------------------
(* The end of the stream and finalization.                                 *)

NewFinal(task) == [by |-> Final(task), at |-> "snapshot",
                   snapshot |-> [v \in Variation |-> NoRow], todo |-> {}, status |-> "none"]

\* Every variation has its result, or the runtime was unavailable from the start.
EndStream ==
    /\ Streaming(Worker)
    /\ \/ consumer[Worker].results = Variation
       \/ consumer[Worker].left = MaxEvents /\ consumer[Worker].results = {}
    /\ Move(Worker, [consumer[Worker] EXCEPT !.at = "failing"])
    /\ UNCHANGED <<rowVars, pending, reviews, finals, cancel, writes, ended, confirms, upsets>>

\* failUnfinishedVariations: one snapshot, then a failed event for each variation
\* that it shows neither finished nor with a page.
FailUnfinishedVariations ==
    /\ consumer[Worker].at = "failing" /\ ~Waits(Worker)
    /\ Move(Worker, [consumer[Worker] EXCEPT !.at = "marking",
                     !.todo = {v \in Variation : var[v].status \notin Terminal /\ var[v].artifact = 0}])
    /\ UNCHANGED <<rowVars, pending, reviews, finals, cancel, writes, ended, confirms, upsets>>

FailUnfinished ==
    /\ consumer[Worker].at = "marking" /\ ~Waits(Worker)
    /\ \E v \in consumer[Worker].todo :
          Move(Worker, [consumer[Worker] EXCEPT !.at = "handling", !.kind = "unfinished",
                        !.content = "none", !.v = v, !.seen = var[v].status, !.todo = @ \ {v}])
    /\ UNCHANGED <<rowVars, pending, reviews, finals, cancel, writes, ended, confirms, upsets>>

\* finalizeQueuedDesignJob is called, and returns at once while a review is pending.
EndDesignJob ==
    /\ consumer[Worker].at = "marking" /\ consumer[Worker].todo = {} /\ ~Waits(Worker)
    /\ finals' = IF pending = {} THEN finals \cup {NewFinal(Worker)} ELSE finals
    /\ Finish(Worker)
    /\ UNCHANGED <<rowVars, pending, reviews, cancel, writes, ended, confirms, upsets>>

ReplaceFinal(f, g) == finals' = (finals \ {f}) \cup {g}

\* Mutant: a page without its completed event is left as it is.
FinalizeSnapshotOnly(f) ==
    /\ f.at = "snapshot"
    /\ ReplaceFinal(f, [f EXCEPT !.at = "reconciling", !.snapshot = var])
    /\ UNCHANGED <<rowVars, pending, consumer, reviews, cancel, writes, ended, confirms, upsets>>

\* reconcileArtifactBackedVariationsBeforeFinalization works from the first snapshot.
FinalizeSnapshot(f) ==
    /\ f.at = "snapshot"
    /\ ReplaceFinal(f, [f EXCEPT !.at = "reconciling", !.snapshot = var,
                        !.todo = {v \in Variation : var[v].status \notin Terminal /\ var[v].artifact # 0}])
    /\ UNCHANGED <<rowVars, pending, consumer, reviews, cancel, writes, ended, confirms, upsets>>

Reconcile(f) ==
    /\ f.at = "reconciling" /\ ~Waits(f.by)
    /\ \E v \in f.todo :
          /\ Apply(f.by, v, "completed", f.snapshot[v].artifact)
          /\ ReplaceFinal(f, [f EXCEPT !.todo = @ \ {v}])
    /\ UNCHANGED <<job, pages, pending, consumer, reviews, cancel, ended, confirms, upsets>>

AllTerminal == \A v \in Variation : var[v].status \in Terminal

FinalStatus ==
    IF \E v \in Variation : var[v].status = "completed" THEN "completed"
    ELSE IF \A v \in Variation : var[v].status = "cancelled" THEN "cancelled"
    ELSE "failed"

\* The second snapshot decides, and a job with an open variation stays open.
JudgeJob(f) ==
    /\ f.at = "reconciling" /\ f.todo = {} /\ ~Waits(f.by)
    /\ IF AllTerminal
         THEN ReplaceFinal(f, [f EXCEPT !.at = "concluding", !.status = FinalStatus])
         ELSE finals' = finals \ {f}
    /\ UNCHANGED <<rowVars, pending, consumer, reviews, cancel, writes, ended, confirms, upsets>>

ConcludeJob(f) ==
    /\ f.at = "concluding"
    /\ job' = f.status
    /\ ended' = IF ended = 2 THEN 2 ELSE ended + 1
    /\ finals' = finals \ {f}
    /\ UNCHANGED <<var, pages, pending, consumer, reviews, cancel, writes, confirms, upsets>>

FinalizeQueuedDesignJob(f) ==
    FinalizeSnapshot(f) \/ Reconcile(f) \/ JudgeJob(f) \/ ConcludeJob(f)

-----------------------------------------------------------------------------
(* The automation loop.                                                    *)

\* Mutant: nobody finalizes the job the last lock held open.
FinishReviewOnly(v, task) ==
    /\ pending' = pending \ {v}
    /\ UNCHANGED finals

\* finishAutomationReview: the last lock to go starts a finalization.
FinishAutomationReview(v, task) ==
    /\ pending' = pending \ {v}
    /\ finals' = IF pending # {} /\ pending \subseteq {v}
                   THEN finals \cup {NewFinal(task)} ELSE finals

ReviewMode == IF MaxRepairs = 0 THEN "off" ELSE IF MaxRepairs = 1 THEN "semi_auto" ELSE "auto"

PageOf(r) == pages[r[2]][r[3]]

\* Mutant: findings are not compared with those of older versions.
NeverRepeated(r) == FALSE

\* isRepeatedFailure: an older version had the same findings.
Repeated(r) == \E i \in DOMAIN pages[r[2]] :
    /\ pages[r[2]][i].content = PageOf(r).content
    /\ pages[r[2]][i].version < PageOf(r).version

\* evaluateAutomationLoopStop; time and cost may have run out at any moment.
MustStop(r) == PageOf(r).content = "pass" \/ Repeated(r) \/ PageOf(r).version - 1 >= MaxRepairs

\* enqueueAutomationLoopRepair: the repair of a page is queued once.
EnqueueRepair(v, n) ==
    LET repair == <<"repair", v, n>>
    IN  IF consumer[repair].at = "absent"
          THEN Move(repair, [consumer[repair] EXCEPT !.at = "queued"])
          ELSE UNCHANGED consumer

\* A repair keeps the lock of the review that planned it.
PlanRepair(r) ==
    /\ ReviewMode = "auto" /\ ~MustStop(r)
    /\ EnqueueRepair(r[2], r[3])
    /\ UNCHANGED <<pending, finals>>

StopReview(r) ==
    /\ FinishAutomationReview(r[2], r)
    /\ UNCHANGED consumer

\* publishAutomationLoopEventsForArtifactNow
Review(r) ==
    /\ PlanRepair(r) \/ StopReview(r)
    /\ reviews' = reviews \ {r}
    /\ UNCHANGED <<rowVars, cancel, writes, ended, confirms, upsets>>

\* reviewVariationAction: the owner has any page repaired, whatever the review is doing;
\* no lock is taken for it.
ConfirmRepair ==
    /\ confirms < MaxConfirms /\ confirms' = confirms + 1
    /\ Cardinality({v \in Variation : pages[v] # <<>> \/ var[v].status \notin Terminal}) <= MaxBusy
    /\ \E v \in Variation : \E n \in DOMAIN pages[v] : EnqueueRepair(v, n)
    /\ UNCHANGED <<rowVars, pending, reviews, finals, cancel, writes, ended, upsets>>

\* processQueuedRefineJob reads its rows and the base page before the runtime is asked;
\* a page it cannot read ends it with an error that nobody handles.
StartRepair(p) ==
    /\ consumer[p].at = "queued"
    /\ \/ Move(p, [consumer[p] EXCEPT !.at = "streaming"])
       \/ LostBase /\ Finish(p)
    /\ UNCHANGED <<rowVars, pending, reviews, finals, cancel, writes, ended, confirms, upsets>>

\* publishAutomationLoopStoppedForRepair, after a failed event and after an exception
ReleaseRepair(p) ==
    /\ consumer[p].at \in {"stopping", "releasing"} /\ ~Waits(p)
    /\ FinishAutomationReview(p[2], p)
    /\ IF consumer[p].at = "stopping" THEN Leave(p, "streaming") ELSE Finish(p)
    /\ UNCHANGED <<rowVars, reviews, cancel, writes, ended, confirms, upsets>>

EndRepair(p) ==
    /\ Streaming(p) /\ consumer[p].results # {}
    /\ Finish(p)
    /\ UNCHANGED <<rowVars, pending, reviews, finals, cancel, writes, ended, confirms, upsets>>

-----------------------------------------------------------------------------
(* cancelJobAsAdmin.                                                       *)

\* The snapshot is taken before the runtime is asked to stop.
RequestCancel ==
    /\ cancel.at = "idle" /\ Upset
    /\ job \notin Terminal \cup {"absent"}
    /\ cancel' = [at |-> "asking",
                  todo |-> {v \in Variation : var[v].status \in Unfinished}]
    /\ UNCHANGED <<rowVars, pending, consumer, reviews, finals, writes, ended, confirms>>

CancelJob ==
    /\ cancel.at = "asking"
    /\ job' = "cancelled"
    /\ cancel' = [cancel EXCEPT !.at = "cancelling"]
    /\ UNCHANGED <<var, pages, pending, consumer, reviews, finals, writes, ended, confirms, upsets>>

CancelVariation ==
    /\ cancel.at = "cancelling" /\ ~Waits(Canceller)
    /\ \E v \in cancel.todo :
          /\ Apply(Canceller, v, "cancelled", 0)
          /\ cancel' = [cancel EXCEPT !.todo = @ \ {v}]
    /\ UNCHANGED <<job, pages, pending, consumer, reviews, finals, ended, confirms, upsets>>

EndCancel ==
    /\ cancel.at = "cancelling" /\ cancel.todo = {} /\ ~Waits(Canceller)
    /\ cancel' = [cancel EXCEPT !.at = "idle"]
    /\ UNCHANGED <<rowVars, pending, consumer, reviews, finals, writes, ended, confirms, upsets>>

CancelJobAsAdmin == CancelJob \/ CancelVariation \/ EndCancel

-----------------------------------------------------------------------------
(* The worker process dies.                                                *)

\* Redis hands out again what the process had not finished.
Unacknowledged(p) ==
    \/ consumer[p].at \notin {"absent", "created", "prepared", "abandoned", "queued", "done"}
    \/ \E f \in finals : p = Worker /\ f.by = Final(Worker)

\* What it kept in memory is gone; the API process and the rows are still there.
WorkerDies ==
    /\ Upset
    /\ consumer' = [p \in Consumer |->
            IF Unacknowledged(p) THEN [Idle EXCEPT !.at = "queued"] ELSE consumer[p]]
    /\ pending' = {} /\ reviews' = {} /\ finals' = {}
    /\ writes' = {w \in writes : w.by = Canceller}
    /\ UNCHANGED <<rowVars, cancel, ended, confirms>>

-----------------------------------------------------------------------------
CreateDesignJob == CreateJob \/ CreateVariations \/ EnqueueDesignJob

RunMockJob ==
    StartDesignJob \/ EndStream \/ FailUnfinishedVariations \/ FailUnfinished \/ EndDesignJob

FollowStream(p) == ReceiveProgress(p) \/ ReceiveResult(p) \/ ReceiveBreak(p) \/ HandleEvent(p)

RunRepair(p) == StartRepair(p) \/ ReleaseRepair(p) \/ EndRepair(p)

StoreStep == \E w \in writes : ReadRow(w) \/ WriteRow(w)

\* What the event loops and the store do once it can be done.
Work ==
    \/ CreateDesignJob
    \/ RunMockJob
    \/ \E p \in Consumer : FollowStream(p)
    \/ \E p \in Repair : RunRepair(p)
    \/ \E r \in reviews : Review(r)
    \/ \E f \in finals : FinalizeQueuedDesignJob(f)
    \/ CancelJobAsAdmin
    \/ StoreStep

Next == Work \/ ConfirmRepair \/ RequestCancel \/ AbandonJob \/ WorkerDies

\* No stream of the runtime goes on for ever, so it is enough that something is done as long
\* as there is something to do; nobody need cancel.
Fairness == WF_vars(Work)

Spec == Init /\ [][Next]_vars /\ Fairness

-----------------------------------------------------------------------------
(* Properties.                                                             *)

\* Nothing is under way: the design job and every repair have ended.
Quiet ==
    /\ consumer[Worker].at = "done"
    /\ \A p \in Repair : consumer[p].at \in {"absent", "done"}
    /\ reviews = {} /\ finals = {} /\ writes = {} /\ cancel.at = "idle"

\* When all tasks have ended the job has an end and so has each of its variations:
\* none of the orders in which they overwrite one another's rows leaves one open.
SettledWhenQuiet == Quiet => job \in Terminal /\ AllTerminal

\* A job publishes design.job_completed once. It does not hold: the end of a review and
\* the end of the design run may finalize it one after the other, and
\* finalizeQueuedDesignJob does not look whether the job has ended (service.ts:3041).
TerminalEventOnce == ended <= 1

\* Unless an owner asks for more, a variation is repaired at most maxRepairAttempts
\* times, and never again for findings it was repaired for before (evaluateAutomationLoopStop).
\* In memory this needs the streams of a variation not to make two pages at once: they
\* would share a version, and neither be older than the other.
RepairsBounded == \A v \in Variation :
    LET repairs == Cardinality({p \in Repair : p[2] = v /\ consumer[p].at # "absent"})
    IN  repairs <= MaxRepairs + confirms /\ repairs <= Cardinality(Flaw) + confirms

\* A job that was created ends, and so does each of its variations, whatever the runtime
\* does and although the worker dies in the middle of it; nobody comes back to a job that
\* was not enqueued any more (processQueuedDesignJob, finalizeQueuedDesignJob).
JobSettles == <>[]((job \in Terminal /\ AllTerminal) \/ consumer[Worker].at = "abandoned")
=============================================================================
