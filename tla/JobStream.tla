------------------------------- MODULE JobStream -------------------------------
(***************************************************************************)
(* How a browser learns of a design job: the process that runs the job     *)
(* writes its rows, appends every event to the event ledger and publishes  *)
(* it on its JobEventBus (service.ts, eventBus.ts); a request for the      *)
(* job's stream replays both and then follows them (server.ts,             *)
(* streamJobEvents); the job page merges the events with snapshots it      *)
(* polls (apps/web jobs/[jobId]/page.tsx).  The process that runs the job  *)
(* is the one that serves the stream, or a worker of its own.              *)
(***************************************************************************)
EXTENDS Naturals, Sequences, SequencesExt

CONSTANTS
    Variation,
    Cancels,        \* whether an administrator may cancel the job
    BufferSize,     \* events JobEventBus keeps (500)
    MaxDrops,       \* bound: connections the network drops
    MaxFetches      \* bound: snapshot requests of the page in flight at once

\* What the module assumes of its constants; the module of a run asserts it.
Assumptions ==
    /\ Cancels \in BOOLEAN
    /\ BufferSize \in Nat \ {0} /\ {MaxDrops, MaxFetches} \subseteq Nat

VARIABLES
    worker,     \* whether a worker process runs the job: its bus is not the server's
    row,        \* the stored statuses of the job and its variations
    ledger,     \* design_events of the job, in order
    buffer,     \* JobEventBus of the serving process
    producer,   \* the event the running process is about, and how far it is with it
    conn,       \* the stream's request: how far it is, and what it has written
    wire,       \* what is written and not yet received
    page,       \* the job page
    drops

vars == <<worker, row, ledger, buffer, producer, conn, wire, page, drops>>

Terminal == {"completed", "failed", "cancelled"}
VStatus == {"queued", "streaming"} \cup Terminal
Snapshot == [job : {"running"} \cup Terminal, var : [Variation -> VStatus]]
JobCompleted == [type |-> "job_completed"]
DesignEvent == [type : {"streaming", "completed", "failed"}, v : Variation] \cup {JobCompleted}
NoSnapshot == [job |-> "none"]
End == [type |-> "end"]         \* the server has closed the stream

TypeOK ==
    /\ worker \in BOOLEAN /\ row \in Snapshot
    /\ ledger \in Seq(DesignEvent) /\ buffer \in Seq(DesignEvent)
    /\ producer.at \in {"next", "apply", "append", "publish", "conclude", "done"}
    /\ conn.at \in {"off", "asked", "replayed", "open"} /\ conn.sent \in Seq(DesignEvent)
    /\ wire \in Seq(DesignEvent \cup {End})
    /\ page.shown \in Snapshot \cup {NoSnapshot}
    /\ page.stream \in {"connecting", "open", "closed"}
    /\ page.fetches \in Seq(Snapshot) /\ Len(page.fetches) <= MaxFetches
    /\ drops \in 0 .. MaxDrops

Init ==
    /\ worker \in BOOLEAN
    /\ row = [job |-> "running", var |-> [v \in Variation |-> "queued"]]
    /\ ledger = <<>> /\ buffer = <<>> /\ wire = <<>> /\ drops = 0
    /\ producer = [at |-> "next", event |-> JobCompleted, left |-> Variation, begun |-> {}]
    /\ conn = [at |-> "off", sent |-> <<>>]
    /\ page = [shown |-> NoSnapshot, stream |-> "connecting", fetches |-> <<>>, loaded |-> FALSE]

-----------------------------------------------------------------------------
(* The stream.                                                             *)

\* writeIfNew, event after event: one written before is skipped, and if job_completed is to
\* close the stream (closeOnTerminal) nothing follows it.
NewEvents(events, sent, closing) ==
    LET new[n \in 0 .. Len(events)] ==
            IF n = 0 THEN <<>>
            ELSE IF \/ events[n] \in Range(sent) \cup Range(new[n - 1])
                    \/ closing /\ JobCompleted \in Range(new[n - 1])
                 THEN new[n - 1]
            ELSE Append(new[n - 1], events[n])
    IN  new[Len(events)]

\* An open stream writes; job_completed closes it.
Write(events) ==
    LET new == NewEvents(events, conn.sent, TRUE)
        over == JobCompleted \in Range(new)
    IN  /\ wire' = wire \o new \o (IF over THEN <<End>> ELSE <<>>)
        /\ conn' = [at |-> IF over THEN "off" ELSE "open", sent |-> conn.sent \o new]

-----------------------------------------------------------------------------
(* The running process: every event changes the rows, then enters the      *)
(* ledger, then the bus.                                                   *)

Produce(changes) == producer' = [producer EXCEPT !.at = changes.at, !.event = changes.event]

NextEvent ==
    /\ producer.at = "next" /\ producer.left # {}
    /\ \E v \in producer.left, t \in {"streaming", "completed", "failed"} :
        /\ t = "streaming" => v \notin producer.begun
        /\ producer' = [at |-> "apply", event |-> [type |-> t, v |-> v],
                        left |-> IF t = "streaming" THEN producer.left ELSE producer.left \ {v},
                        begun |-> producer.begun \cup {v}]
    /\ UNCHANGED <<worker, row, ledger, buffer, conn, wire, page, drops>>

\* applyEventSideEffects: a streaming event does not reopen a variation.
ApplyEvent ==
    /\ producer.at = "apply"
    /\ LET e == producer.event
       IN  row' = IF e.type = "streaming" /\ row.var[e.v] \in Terminal THEN row
                  ELSE [row EXCEPT !.var[e.v] = e.type]
    /\ producer' = [producer EXCEPT !.at = "append"]
    /\ UNCHANGED <<worker, ledger, buffer, conn, wire, page, drops>>

\* finalizeQueuedDesignJob
Conclude ==
    /\ producer.at = "next" /\ producer.left = {}
    /\ row' = [row EXCEPT !.job =
            IF \E v \in Variation : row.var[v] = "completed" THEN "completed"
            ELSE IF \A v \in Variation : row.var[v] = "cancelled" THEN "cancelled" ELSE "failed"]
    /\ Produce([at |-> "append", event |-> JobCompleted])
    /\ UNCHANGED <<worker, ledger, buffer, conn, wire, page, drops>>

AppendEvent ==
    /\ producer.at = "append"
    /\ ledger' = Append(ledger, producer.event)
    /\ producer' = [producer EXCEPT !.at = "publish"]
    /\ UNCHANGED <<worker, row, buffer, conn, wire, page, drops>>

\* publishDesignEvent, JobEventBus.publish: the subscribed stream hears of it at once.
PublishEvent ==
    /\ producer.at = "publish"
    /\ LET e == producer.event
       IN  /\ buffer' = IF worker THEN buffer
                        ELSE LET all == Append(buffer, e) IN
                             IF Len(all) > BufferSize THEN Tail(all) ELSE all
           /\ IF worker \/ conn.at # "open" THEN UNCHANGED <<conn, wire>> ELSE Write(<<e>>)
           /\ producer' = [producer EXCEPT !.at = IF e = JobCompleted THEN "done" ELSE "next"]
    /\ UNCHANGED <<worker, row, ledger, page, drops>>

\* cancelJobAsAdmin: the rows change, no event is published.
CancelJob ==
    /\ Cancels /\ row.job = "running"
    /\ row' = [job |-> "cancelled",
               var |-> [v \in Variation |-> IF row.var[v] \in Terminal THEN row.var[v] ELSE "cancelled"]]
    /\ UNCHANGED <<worker, ledger, buffer, producer, conn, wire, page, drops>>

-----------------------------------------------------------------------------
(* streamJobEvents.                                                        *)

Connect ==
    /\ page.stream = "connecting" /\ conn.at = "off" /\ wire = <<>>
    /\ conn' = [at |-> "asked", sent |-> <<>>]
    /\ page' = [page EXCEPT !.stream = "open"]
    /\ UNCHANGED <<worker, row, ledger, buffer, producer, wire, drops>>

\* The ledger and the buffer are written out, job_completed included.
Replay ==
    /\ conn.at = "asked"
    /\ LET old == NewEvents(ledger, <<>>, FALSE)
           new == old \o NewEvents(buffer, old, FALSE)
       IN  /\ wire' = wire \o new
           /\ conn' = [at |-> "replayed", sent |-> new]
    /\ UNCHANGED <<worker, row, ledger, buffer, producer, page, drops>>

\* A job whose row has ended needs no subscription.
Follow ==
    /\ conn.at = "replayed"
    /\ IF row.job \in Terminal
         THEN conn' = [conn EXCEPT !.at = "off"] /\ wire' = Append(wire, End)
         ELSE conn' = [conn EXCEPT !.at = "open"] /\ UNCHANGED wire
    /\ UNCHANGED <<worker, row, ledger, buffer, producer, page, drops>>

\* Mutant: nobody looks at the ledger again.
PollNothing == FALSE /\ UNCHANGED vars

\* pollPersistedEvents
PollLedger ==
    /\ conn.at = "open"
    /\ NewEvents(ledger, conn.sent, TRUE) # <<>>
    /\ Write(ledger)
    /\ UNCHANGED <<worker, row, ledger, buffer, producer, page, drops>>

\* The network drops the connection; the browser's EventSource opens another.
Drop ==
    /\ drops < MaxDrops /\ page.stream = "open"
    /\ conn' = [conn EXCEPT !.at = "off"] /\ wire' = <<>>
    /\ page' = [page EXCEPT !.stream = "connecting"]
    /\ drops' = drops + 1
    /\ UNCHANGED <<worker, row, ledger, buffer, producer>>

-----------------------------------------------------------------------------
(* The job page.                                                           *)

\* Mutant: a late event reopens a variation.
UpdateAlways(shown, e) ==
    IF shown = NoSnapshot THEN shown
    ELSE IF e = JobCompleted THEN [shown EXCEPT !.job = "completed"]
    ELSE [shown EXCEPT !.var[e.v] = e.type]

\* applyEvent, updateVariationFromEvent: without a snapshot there is nothing to update.
UpdateFromEvent(shown, e) ==
    IF shown = NoSnapshot THEN shown
    ELSE IF e = JobCompleted THEN [shown EXCEPT !.job = "completed"]
    ELSE IF e.type = "streaming" /\ shown.var[e.v] \in Terminal THEN shown
    ELSE [shown EXCEPT !.var[e.v] = e.type]

\* mergeJobSnapshot: what has ended on the page does not reopen.
MergeSnapshot(shown, new) ==
    IF shown = NoSnapshot THEN new
    ELSE [job |-> IF shown.job \in Terminal /\ new.job \notin Terminal THEN shown.job ELSE new.job,
          var |-> [v \in Variation |->
                    IF shown.var[v] \in Terminal /\ new.var[v] \notin Terminal
                      THEN shown.var[v] ELSE new.var[v]]]

\* subscribeToJob: job_completed closes the EventSource, an end without it makes it reconnect.
Receive ==
    /\ wire # <<>> /\ wire' = Tail(wire)
    /\ LET e == Head(wire)
       IN  page' = IF page.stream = "closed" THEN page
                   ELSE IF e = End THEN [page EXCEPT !.stream = "connecting"]
                   ELSE [page EXCEPT !.shown = UpdateFromEvent(@, e),
                                     !.stream = IF e = JobCompleted THEN "closed" ELSE @]
    /\ conn' = IF page'.stream = "closed" THEN [conn EXCEPT !.at = "off"] ELSE conn
    /\ UNCHANGED <<worker, row, ledger, buffer, producer, drops>>

Polling == ~page.loaded \/ page.shown = NoSnapshot \/ page.shown.job \notin Terminal

\* getDesignJob: the snapshot is of the moment it is read and arrives later.
Fetch ==
    /\ Polling /\ Len(page.fetches) < MaxFetches
    /\ page' = [page EXCEPT !.fetches = Append(@, row), !.loaded = TRUE]
    /\ UNCHANGED <<worker, row, ledger, buffer, producer, conn, wire, drops>>

\* Snapshots may arrive in another order than they were read.
Arrive ==
    /\ \E i \in DOMAIN page.fetches :
        page' = [page EXCEPT !.shown = MergeSnapshot(@, page.fetches[i]),
                             !.fetches = RemoveAt(@, i)]
    /\ UNCHANGED <<worker, row, ledger, buffer, producer, conn, wire, drops>>

-----------------------------------------------------------------------------
Produces == NextEvent \/ ApplyEvent \/ Conclude \/ AppendEvent \/ PublishEvent

Next == Produces \/ CancelJob \/ Connect \/ Replay \/ Follow \/ PollLedger \/ Drop
          \/ Receive \/ Fetch \/ Arrive

\* The job's events end, the server answers and polls once a second, the browser
\* reconnects; nobody has to cancel and the network need not drop anything.
Fairness ==
    /\ WF_vars(Produces) /\ WF_vars(Connect) /\ WF_vars(Replay) /\ WF_vars(Follow)
    /\ WF_vars(PollLedger) /\ WF_vars(Receive) /\ WF_vars(Fetch) /\ WF_vars(Arrive)

Spec == Init /\ [][Next]_vars /\ Fairness

-----------------------------------------------------------------------------
(* Properties.                                                             *)

\* What the page has shown as ended never reopens, however late a snapshot or an
\* event arrives (mergeJobSnapshot, updateVariationFromEvent).
NeverReopens ==
    [][page.shown # NoSnapshot =>
         /\ page.shown.job \in Terminal => page'.shown.job \in Terminal
         /\ \A v \in Variation :
              page.shown.var[v] \in Terminal => page'.shown.var[v] \in Terminal]_vars

\* Every page hears that the job has ended: the row is stored before the event, the
\* server closes on either, and a worker's events reach the ledger only
\* (streamJobEvents, subscribeToJob).
PageHearsTheEnd == <>(page.stream = "closed" /\ page.shown # NoSnapshot /\ page.shown.job \in Terminal)

\* A page that follows the job no longer shows how every variation has ended. It does not
\* hold: an event published between the replay and the subscription is left to the poll, and
\* job_completed may close the stream before the next one (server.ts:781).
QuietPageTrue ==
    (producer.at = "done" /\ page.stream = "closed" /\ page.fetches = <<>> /\ ~Polling)
      => page.shown.var = row.var
=============================================================================
