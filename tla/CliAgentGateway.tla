-------------------------- MODULE CliAgentGateway --------------------------
(***************************************************************************)
(* The gateway that runs a configured command-line agent, one process for  *)
(* each variation of a job and one for a refine                            *)
(* (packages/runtime-gateway/src/cliAgentGateway.ts).                      *)
(*                                                                         *)
(* The events of a process are pulled: a generator is suspended at each    *)
(* event it yields (offer) until the service takes it.  The variations of  *)
(* a job are merged, at most Concurrency of them started at a time, and    *)
(* the service may stop taking, when storing an event fails or when it     *)
(* sees that a refine is cancelled.                                        *)
(***************************************************************************)
EXTENDS Naturals, FiniteSets, FiniteSetsExt

CONSTANTS
    Delivery,      \* deliveries of one job to this process (more than one after a queue timeout)
    Variation,     \* the variations of the job
    Refine,        \* a refine request of one of them
    None,
    Concurrency,   \* variationConcurrency
    MaxCancels     \* bound: cancel calls

\* What the module assumes of its constants; the module of a run asserts it.
Assumptions ==
    /\ Concurrency \in Nat \ {0}
    /\ MaxCancels \in Nat
    /\ Refine \notin (Delivery \X Variation) \cup Variation \cup Delivery \cup {None}

VARIABLES
    loop,          \* delivery or refine -> how far the service has consumed its events
    phase,         \* unit -> where its generator is
    offer,         \* unit -> the event it has yielded and nobody has taken yet
    child,         \* unit -> its process
    exitedWell,    \* unit -> whether the process exited with code 0
    timer,         \* unit -> the timeout of the process: "off", "armed" or "fired"
    flooded,       \* unit -> killedForOutput
    listed,        \* process key -> unit: activeProcesses
    queuedCancel,  \* whether the request is in queuedRefineCancellations
    flagged,       \* the service has recorded that the refine is to be cancelled
    acked,         \* the refine cancel was answered with cancelled: true
    cancels        \* cancel calls so far

vars == <<loop, phase, offer, child, exitedWell, timer, flooded, listed, queuedCancel, flagged, acked, cancels>>

-----------------------------------------------------------------------------
JobUnit == Delivery \X Variation

Unit == JobUnit \cup {Refine}

Loop == Delivery \cup {Refine}

LoopOf(u) == IF u = Refine THEN Refine ELSE u[1]

\* The key does not name the delivery: two deliveries of a job share it.
processKey(u) == IF u = Refine THEN Refine ELSE u[2]

Terminal == {"completed", "failed"}

TypeOK ==
    /\ loop \in [Loop -> {"idle", "consuming", "stopped", "over"}]
    /\ phase \in [Unit -> {"queued", "opening", "running", "closing", "reading", "reporting", "done"}]
    /\ offer \in [Unit -> {"none", "queued", "streaming", "completed", "failed"}]
    /\ child \in [Unit -> {"none", "alive", "signalled", "exited"}]
    /\ exitedWell \in [Unit -> BOOLEAN]
    /\ timer \in [Unit -> {"off", "armed", "fired"}]
    /\ flooded \in [Unit -> BOOLEAN]
    /\ listed \in [Variation \cup {Refine} -> Unit \cup {None}]
    /\ queuedCancel \in BOOLEAN /\ flagged \in BOOLEAN /\ acked \in BOOLEAN
    /\ cancels \in 0 .. MaxCancels

Init ==
    /\ loop = [l \in Loop |-> "idle"]
    /\ phase = [u \in Unit |-> "queued"]
    /\ offer = [u \in Unit |-> "none"]
    /\ child = [u \in Unit |-> "none"]
    /\ exitedWell = [u \in Unit |-> FALSE]
    /\ timer = [u \in Unit |-> "off"]
    /\ flooded = [u \in Unit |-> FALSE]
    /\ listed = [k \in Variation \cup {Refine} |-> None]
    /\ queuedCancel = FALSE /\ flagged = FALSE /\ acked = FALSE
    /\ cancels = 0

processVars == <<child, exitedWell, timer, flooded, listed>>
cancelVars == <<queuedCancel, flagged, acked, cancels>>

-----------------------------------------------------------------------------
\* A generator runs on while a next() of it is outstanding: until it yields,
\* also when its consumer is gone by then.
Runs(u) == offer[u] = "none" /\ phase[u] # "done"

Yield(u, event) == offer' = [offer EXCEPT ![u] = event]

\* spawnVariationAgents: the health check rejects, or the merge begins.
SpawnVariationAgents(d) ==
    /\ loop[d] = "idle"
    /\ \E healthy \in BOOLEAN :
        loop' = [loop EXCEPT ![d] = IF healthy THEN "consuming" ELSE "over"]
    /\ UNCHANGED <<phase, offer, processVars, cancelVars>>

Started(d) == {v \in Variation : phase[<<d, v>>] \notin {"queued", "done"}}

\* mergeAsyncIterables pulls the next variation while fewer than Concurrency
\* are under way; its first event says that it is queued.
Pull(d, v) ==
    /\ loop[d] = "consuming"
    /\ phase[<<d, v>>] = "queued"
    /\ Cardinality(Started(d)) < Concurrency
    /\ phase' = [phase EXCEPT ![<<d, v>>] = "opening"]
    /\ Yield(<<d, v>>, "queued")
    /\ UNCHANGED <<loop, processVars, cancelVars>>

\* refineVariation: a cancellation queued before this point ends it at once.
RefineVariation ==
    /\ loop[Refine] = "idle"
    /\ IF queuedCancel
       THEN /\ loop' = [loop EXCEPT ![Refine] = "over"]
            /\ phase' = [phase EXCEPT ![Refine] = "done"]
            /\ queuedCancel' = FALSE
       ELSE /\ loop' = [loop EXCEPT ![Refine] = "consuming"]
            /\ phase' = [phase EXCEPT ![Refine] = "opening"]
            /\ UNCHANGED queuedCancel
    /\ UNCHANGED <<offer, processVars, flagged, acked, cancels>>

\* The workspace exists: executeAgent spawns the process, lists it and arms
\* its timer.  Nothing reads queuedRefineCancellations again.
Spawn(u) ==
    /\ Runs(u) /\ phase[u] = "opening"
    /\ phase' = [phase EXCEPT ![u] = "running"]
    /\ child' = [child EXCEPT ![u] = "alive"]
    /\ listed' = [listed EXCEPT ![processKey(u)] = u]
    /\ timer' = [timer EXCEPT ![u] = "armed"]
    /\ UNCHANGED <<loop, offer, exitedWell, flooded, cancelVars>>

\* The workspace is rejected or cannot be made: a variation reports it, a
\* refine throws.
WorkspaceRejected(u) ==
    /\ Runs(u) /\ phase[u] = "opening"
    /\ IF u = Refine
       THEN /\ phase' = [phase EXCEPT ![u] = "done"]
            /\ loop' = [loop EXCEPT ![Refine] = "over"]
            /\ UNCHANGED offer
       ELSE /\ phase' = [phase EXCEPT ![u] = "reporting"]
            /\ Yield(u, "failed")
            /\ UNCHANGED loop
    /\ UNCHANGED <<processVars, cancelVars>>

\* A line of output becomes a streaming event.
Output(u) ==
    /\ Runs(u) /\ phase[u] = "running"
    /\ Yield(u, "streaming")
    /\ UNCHANGED <<loop, phase, processVars, cancelVars>>

Signal(u, procs) == [procs EXCEPT ![u] = IF @ = "alive" THEN "signalled" ELSE @]

\* More than maxOutputBytes: the process is told to stop and its output is read no more.
OutputFloods(u) ==
    /\ Runs(u) /\ phase[u] = "running"
    /\ flooded' = [flooded EXCEPT ![u] = TRUE]
    /\ child' = Signal(u, child)
    /\ phase' = [phase EXCEPT ![u] = "closing"]
    /\ UNCHANGED <<loop, offer, exitedWell, timer, listed, cancelVars>>

\* The process ends by itself, with any code, or by the signal it got: SIGKILL
\* follows SIGTERM when it does not react, and it may still exit with code 0.
Exit(u) ==
    /\ child[u] \in {"alive", "signalled"}
    /\ child' = [child EXCEPT ![u] = "exited"]
    /\ \E well \in BOOLEAN : exitedWell' = [exitedWell EXCEPT ![u] = well]
    /\ UNCHANGED <<loop, phase, offer, timer, flooded, listed, cancelVars>>

\* The output ends with the process.
OutputEnds(u) ==
    /\ Runs(u) /\ phase[u] = "running"
    /\ child[u] = "exited"
    /\ phase' = [phase EXCEPT ![u] = "closing"]
    /\ UNCHANGED <<loop, offer, processVars, cancelVars>>

TimeOut(u) ==
    /\ timer[u] = "armed"
    /\ timer' = [timer EXCEPT ![u] = "fired"]
    /\ child' = Signal(u, child)
    /\ UNCHANGED <<loop, phase, offer, exitedWell, flooded, listed, cancelVars>>

\* After the process closed: its timeout, its output and its exit code decide
\* whether the workspace is read.
Judge(u) ==
    /\ Runs(u) /\ phase[u] = "closing"
    /\ child[u] = "exited"
    /\ IF timer[u] = "fired" \/ flooded[u] \/ ~exitedWell[u]
       THEN phase' = [phase EXCEPT ![u] = "reporting"] /\ Yield(u, "failed")
       ELSE phase' = [phase EXCEPT ![u] = "reading"] /\ UNCHANGED offer
    /\ UNCHANGED <<loop, processVars, cancelVars>>

\* readWorkspaceArtifacts: too many files, too many bytes or no index.html
\* fail the variation.
ReadWorkspace(u) ==
    /\ Runs(u) /\ phase[u] = "reading"
    /\ phase' = [phase EXCEPT ![u] = "reporting"]
    /\ \E event \in Terminal : Yield(u, event)
    /\ UNCHANGED <<loop, processVars, cancelVars>>

\* executeAgent's finally clause.
Release(u) ==
    /\ timer' = [timer EXCEPT ![u] = IF @ = "armed" THEN "off" ELSE @]
    /\ listed' = [listed EXCEPT ![processKey(u)] = None]

\* The service takes an event; after a terminal one the generator finishes.
Take(u) ==
    /\ loop[LoopOf(u)] = "consuming"
    /\ offer[u] # "none"
    /\ offer' = [offer EXCEPT ![u] = "none"]
    /\ IF offer[u] \in Terminal
       THEN /\ phase' = [phase EXCEPT ![u] = "done"]
            /\ Release(u)
            /\ loop' = [loop EXCEPT ![LoopOf(u)] = IF u = Refine THEN "over" ELSE @]
       ELSE UNCHANGED <<phase, timer, listed, loop>>
    /\ UNCHANGED <<child, exitedWell, flooded, cancelVars>>

\* job_completed, with the number of variations that completed and failed.
JobCompleted(d) ==
    /\ loop[d] = "consuming"
    /\ \A v \in Variation : phase[<<d, v>>] = "done"
    /\ loop' = [loop EXCEPT ![d] = "over"]
    /\ UNCHANGED <<phase, offer, processVars, cancelVars>>

\* Mutant: closing the generators of the variations, as the merge could.
StopJobClosing(d) ==
    /\ loop[d] = "consuming"
    /\ \E v \in Variation : offer[<<d, v>>] # "none"
    /\ loop' = [loop EXCEPT ![d] = "stopped"]
    /\ phase' = [u \in Unit |-> IF LoopOf(u) = d THEN "done" ELSE phase[u]]
    /\ timer' = [u \in Unit |-> IF LoopOf(u) = d THEN "off" ELSE timer[u]]
    /\ listed' = [k \in Variation \cup {Refine} |->
                     IF listed[k] \in JobUnit /\ LoopOf(listed[k]) = d THEN None ELSE listed[k]]
    /\ UNCHANGED <<offer, child, exitedWell, flooded, cancelVars>>

\* Applying an event throws: the merge has no clean-up, so the generators of
\* the variations stay where they are and their processes run on.
StopJob(d) ==
    /\ loop[d] = "consuming"
    /\ \E v \in Variation : offer[<<d, v>>] # "none"
    /\ loop' = [loop EXCEPT ![d] = "stopped"]
    /\ UNCHANGED <<phase, offer, processVars, cancelVars>>

\* The service leaves the loop of a refine at an event, because applying it
\* throws or the refine is to be cancelled: the generator is closed, and its
\* finally clause disarms the timer and forgets the process.
StopRefine ==
    /\ loop[Refine] = "consuming"
    /\ offer[Refine] # "none"
    /\ loop' = [loop EXCEPT ![Refine] = "stopped"]
    /\ phase' = [phase EXCEPT ![Refine] = "done"]
    /\ offer' = [offer EXCEPT ![Refine] = "none"]
    /\ Release(Refine)
    /\ UNCHANGED <<child, exitedWell, flooded, cancelVars>>

-----------------------------------------------------------------------------
Listed(ks) == {listed[k] : k \in ks} \ {None}

SignalAll(us) == [u \in Unit |-> IF u \in us /\ child[u] = "alive" THEN "signalled" ELSE child[u]]

\* cancelRuntimeJob of the job: every listed process of it is signalled, those
\* of its refines too; the variations that wait for their turn are not touched.
CancelJob ==
    /\ cancels < MaxCancels
    /\ cancels' = cancels + 1
    /\ child' = SignalAll(Listed(Variation \cup {Refine}))
    /\ UNCHANGED <<loop, phase, offer, exitedWell, timer, flooded, listed,
                   queuedCancel, flagged, acked>>

\* The service records that a refine is to be cancelled before it tells the gateway.
FlagRefine ==
    /\ cancels < MaxCancels
    /\ loop[Refine] \in {"idle", "consuming"} /\ ~flagged
    /\ cancels' = cancels + 1
    /\ flagged' = TRUE
    /\ UNCHANGED <<loop, phase, offer, processVars, queuedCancel, acked>>

\* cancelRuntimeJob of the refine: its process is signalled, or the
\* cancellation is queued; either way the answer is cancelled: true.
CancelRefine ==
    /\ flagged /\ ~acked
    /\ LET found == {u \in Listed({Refine}) : child[u] \in {"alive", "signalled"}} IN
        /\ child' = SignalAll(found)
        /\ queuedCancel' = (queuedCancel \/ found = {})
    /\ acked' = TRUE
    /\ UNCHANGED <<loop, phase, offer, exitedWell, timer, flooded, listed,
                   flagged, cancels>>

UnitStep(u) ==
    \/ Spawn(u) \/ WorkspaceRejected(u)
    \/ Output(u) \/ OutputFloods(u) \/ OutputEnds(u)
    \/ Exit(u) \/ TimeOut(u)
    \/ Judge(u) \/ ReadWorkspace(u)
    \/ Take(u)

JobStep(d) ==
    \/ SpawnVariationAgents(d) \/ JobCompleted(d) \/ StopJob(d)
    \/ \E v \in Variation : Pull(d, v)

Next ==
    \/ \E u \in Unit : UnitStep(u)
    \/ \E d \in Delivery : JobStep(d)
    \/ RefineVariation \/ StopRefine
    \/ CancelJob \/ FlagRefine \/ CancelRefine

Spec == Init /\ [][Next]_vars

-----------------------------------------------------------------------------
\* A process of the job that runs is in activeProcesses, where a cancellation
\* finds it, and while nobody told it to end its timer is armed, whatever
\* became of the loop that started it and of its output
\* (cliAgentGateway.ts:300, 307, 387): nothing else ends it once the service
\* has stopped taking its events.
ProcessesWatched ==
    \A u \in JobUnit :
        /\ child[u] \in {"alive", "signalled"} => listed[processKey(u)] = u
        /\ child[u] = "alive" => timer[u] = "armed"

\* After a cancellation was answered with cancelled: true, no process of the
\* refine runs on unsignalled (cliAgentGateway.ts:197, 221; refuted: the
\* process may be started after the queue was read, and the service may have
\* closed the generator of a running process between its two steps).
AckedCancelStops == acked => child[Refine] # "alive"
=============================================================================
