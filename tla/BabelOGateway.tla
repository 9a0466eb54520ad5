--------------------------- MODULE BabelOGateway ---------------------------
(***************************************************************************)
(* The gateway to the BabeL-O runtime adapter                              *)
(* (packages/runtime-gateway/src/babelOGateway.ts, babelOClient.ts): each  *)
(* variation of a job and each refine is an agent, created by a POST and   *)
(* run by the GET of its stream.  The client opens a stream again, up to   *)
(* ReconnectAttempts times, when it breaks before its first event; the     *)
(* adapter runs an agent for the first GET and refuses the others          *)
(* (apps/runtime-adapter/src/app.ts, handleStream).                        *)
(*                                                                         *)
(* What the adapter writes is a log per agent: the lane assigned, then a   *)
(* result or an error, then the end of the response.  It writes on when    *)
(* the connection is gone.  The service takes one event at a time.         *)
(***************************************************************************)
EXTENDS Naturals, Sequences, FiniteSets, SequencesExt

CONSTANTS
    Variation,          \* the variations of one job
    Refine,             \* a refine of one of them
    Concurrency,        \* variationConcurrency
    ReconnectAttempts   \* streamReconnectAttempts

ASSUME GatewayAssumption ==
    /\ Concurrency \in Nat \ {0}
    /\ ReconnectAttempts \in Nat
    /\ Refine \notin Variation

VARIABLES
    job,          \* spawnVariationAgents: "idle", "merging", "over" or "stopped"
    phase,        \* agent -> where its generator is
    offer,        \* agent -> the event it has yielded and nobody has taken yet
    attempt,      \* agent -> reconnects so far
    seen,         \* agent -> events of the open connection that were read
    connected,    \* agent -> whether the client reads the adapter's response
    written,      \* agent -> the adapter's log of the response
    ended,        \* agent -> whether the adapter has closed the response
    waitStarted,  \* agent -> whether a GET reached the adapter
    verdicts,     \* agent -> terminal events yielded, in order
    cancelRequested,  \* activeRefines: the flag of the refine
    cancelCall,   \* the cancel call of the service: "none", "asking", "accepted", "refused"
    told,         \* the adapter was told to cancel the refine's agent
    dropped       \* the refine's generator ended without a verdict

vars == <<job, phase, offer, attempt, seen, connected, written, ended, waitStarted,
          verdicts, cancelRequested, cancelCall, told, dropped>>

adapterVars == <<written, ended, waitStarted>>
cancelVars == <<cancelRequested, cancelCall, told, dropped>>

-----------------------------------------------------------------------------
Agent == Variation \cup {Refine}

Terminal == {"completed", "failed"}

Phase == {"queued", "creating", "connecting", "streaming", "reporting", "done"}

TypeOK ==
    /\ job \in {"idle", "merging", "over", "stopped"}
    /\ phase \in [Agent -> Phase]
    /\ offer \in [Agent -> {"none", "queued", "assigned"} \cup Terminal]
    /\ attempt \in [Agent -> 0 .. ReconnectAttempts]
    /\ seen \in [Agent -> 0 .. 3] /\ \A a \in Agent : seen[a] <= Len(written[a])
    /\ connected \in [Agent -> BOOLEAN]
    /\ written \in [Agent -> BoundedSeq({"assigned"} \cup Terminal, 3)]
    /\ ended \in [Agent -> BOOLEAN] /\ waitStarted \in [Agent -> BOOLEAN]
    /\ verdicts \in [Agent -> BoundedSeq(Terminal, 3)]
    /\ cancelRequested \in BOOLEAN /\ told \in BOOLEAN /\ dropped \in BOOLEAN
    /\ cancelCall \in {"none", "asking", "accepted", "refused"}

\* A job and a refine share no state of the gateway: either is looked at alone.
Init ==
    /\ \/ job = "idle" /\ phase = [a \in Agent |-> IF a = Refine THEN "done" ELSE "queued"]
       \/ job = "over" /\ phase = [a \in Agent |-> "queued"]
    /\ offer = [a \in Agent |-> "none"]
    /\ attempt = [a \in Agent |-> 0]
    /\ seen = [a \in Agent |-> 0]
    /\ connected = [a \in Agent |-> FALSE]
    /\ written = [a \in Agent |-> <<>>]
    /\ ended = [a \in Agent |-> FALSE]
    /\ waitStarted = [a \in Agent |-> FALSE]
    /\ verdicts = [a \in Agent |-> <<>>]
    /\ cancelRequested = FALSE /\ cancelCall = "none" /\ told = FALSE /\ dropped = FALSE

-----------------------------------------------------------------------------
Runs(a) == offer[a] = "none"

Cancelled(a) == a = Refine /\ cancelRequested

Yield(a, event) ==
    /\ offer' = [offer EXCEPT ![a] = event]
    /\ verdicts' = [verdicts EXCEPT ![a] = IF event \in Terminal THEN Append(@, event) ELSE @]

\* The generator's catch clause and its check after the stream: a failure is
\* reported, whatever was reported before; a cancelled refine just ends.
Fail(a) ==
    IF Cancelled(a)
    THEN /\ phase' = [phase EXCEPT ![a] = "done"]
         /\ dropped' = (dropped \/ verdicts[a] = <<>>)
         /\ UNCHANGED <<offer, verdicts>>
    ELSE /\ phase' = [phase EXCEPT ![a] = "reporting"]
         /\ Yield(a, "failed")
         /\ UNCHANGED dropped

\* requireCompatibleRuntime throws, or the variations are queued and merged.
SpawnVariationAgents ==
    /\ job = "idle"
    /\ \E compatible \in BOOLEAN : job' = IF compatible THEN "merging" ELSE "over"
    /\ UNCHANGED <<phase, offer, attempt, seen, connected, verdicts, adapterVars, cancelVars>>

Started == {v \in Variation : phase[v] \notin {"queued", "done"}}

Pull(v) ==
    /\ job = "merging"
    /\ phase[v] = "queued"
    /\ Cardinality(Started) < Concurrency
    /\ phase' = [phase EXCEPT ![v] = "creating"]
    /\ UNCHANGED <<job, offer, attempt, seen, connected, verdicts, adapterVars, cancelVars>>

\* refineVariation enters activeRefines.
RefineVariation ==
    /\ phase[Refine] = "queued"
    /\ phase' = [phase EXCEPT ![Refine] = "creating"]
    /\ UNCHANGED <<job, offer, attempt, seen, connected, verdicts, adapterVars, cancelVars>>

\* POST /v1/agents answers: a variation is queued with the ids of its agent; a
\* refine whose cancellation came first has its agent cancelled and ends.
AgentCreated(a) ==
    /\ Runs(a) /\ phase[a] = "creating"
    /\ IF Cancelled(a)
       THEN /\ phase' = [phase EXCEPT ![a] = "done"]
            /\ dropped' = TRUE
            /\ told' \in {told, TRUE}
            /\ UNCHANGED <<offer, verdicts>>
       ELSE /\ phase' = [phase EXCEPT ![a] = "connecting"]
            /\ IF a = Refine THEN UNCHANGED <<offer, verdicts>> ELSE Yield(a, "queued")
            /\ UNCHANGED <<told, dropped>>
    /\ UNCHANGED <<job, attempt, seen, connected, adapterVars, cancelRequested, cancelCall>>

\* The POST fails or takes longer than timeoutMs; before it, a refine fails
\* when the runtime is not compatible.
AgentRefused(a) ==
    /\ Runs(a) /\ phase[a] = "creating"
    /\ Fail(a)
    /\ UNCHANGED <<job, attempt, seen, connected, adapterVars, cancelRequested, cancelCall, told>>

\* The adapter's side of a GET: the first one is executed, the others are
\* refused with STREAM_ALREADY_CONSUMED.
handleStream(a) == waitStarted' = [waitStarted EXCEPT ![a] = TRUE]

\* streamJsonWithReconnect: a connection without an event so far is tried
\* again while attempts remain, if the error says that it may be.
Reconnects(a, retryable) == seen[a] = 0 /\ attempt[a] < ReconnectAttempts /\ retryable

StreamBreaks(a, retryable) ==
    IF Reconnects(a, retryable)
    THEN /\ phase' = [phase EXCEPT ![a] = "connecting"]
         /\ attempt' = [attempt EXCEPT ![a] = @ + 1]
         /\ UNCHANGED <<offer, verdicts, dropped>>
    ELSE Fail(a) /\ UNCHANGED attempt

\* The GET is answered: the stream is open.
Connect(a) ==
    /\ Runs(a) /\ phase[a] = "connecting"
    /\ ~waitStarted[a]
    /\ handleStream(a)
    /\ connected' = [connected EXCEPT ![a] = TRUE]
    /\ phase' = [phase EXCEPT ![a] = "streaming"]
    /\ UNCHANGED <<job, offer, attempt, seen, verdicts, written, ended, cancelVars>>

\* The GET fails: it never reached the adapter, or the answer was lost, came
\* later than timeoutMs, or said that the stream is already consumed.
ConnectFails(a) ==
    /\ Runs(a) /\ phase[a] = "connecting"
    /\ \/ UNCHANGED waitStarted
       \/ handleStream(a)
    /\ StreamBreaks(a, TRUE)
    /\ UNCHANGED <<job, seen, connected, written, ended, cancelRequested, cancelCall, told>>

\* The adapter's execution: a lane is assigned or none is free, the errors of
\* the transcript are passed on although the run may still succeed, the outcome
\* is written, and the response closed after the state is saved.
AdapterWrites(a) ==
    /\ waitStarted[a] /\ ~ended[a]
    /\ \/ /\ written[a] = <<>>
          /\ \E event \in {"assigned", "failed"} : written' = [written EXCEPT ![a] = <<event>>]
          /\ UNCHANGED ended
       \/ /\ written[a] \in {<<"assigned">>, <<"assigned", "failed">>}
          /\ \E event \in Terminal : written' = [written EXCEPT ![a] = Append(@, event)]
          /\ UNCHANGED ended
       \/ /\ written[a] # <<>> /\ Last(written[a]) \in Terminal
          /\ ended' = [ended EXCEPT ![a] = TRUE]
          /\ UNCHANGED written
    /\ UNCHANGED <<job, phase, offer, attempt, seen, connected, waitStarted, verdicts, cancelVars>>

\* Mutant: the flag of the refine is read only when its agent is created.
ReceiveUnchecked(a) ==
    /\ Runs(a) /\ phase[a] = "streaming" /\ connected[a]
    /\ seen[a] < Len(written[a])
    /\ seen' = [seen EXCEPT ![a] = @ + 1]
    /\ Yield(a, written[a][seen[a] + 1])
    /\ UNCHANGED <<job, phase, attempt, connected, adapterVars, cancelVars>>

\* The next line of the response, as a design event; a cancelled refine ends
\* at it instead.
Receive(a) ==
    /\ Runs(a) /\ phase[a] = "streaming" /\ connected[a]
    /\ seen[a] < Len(written[a])
    /\ seen' = [seen EXCEPT ![a] = @ + 1]
    /\ IF Cancelled(a)
       THEN Fail(a)
       ELSE Yield(a, written[a][seen[a] + 1]) /\ UNCHANGED <<phase, dropped>>
    /\ UNCHANGED <<job, attempt, connected, adapterVars, cancelRequested, cancelCall, told>>

\* Mutant: the idle timeout is disarmed by the first event.
ConnectionLostEarly(a) ==
    /\ Runs(a) /\ phase[a] = "streaming" /\ connected[a]
    /\ seen[a] = 0
    /\ connected' = [connected EXCEPT ![a] = FALSE]
    /\ \E retryable \in BOOLEAN : StreamBreaks(a, retryable)
    /\ UNCHANGED <<job, seen, adapterVars, cancelRequested, cancelCall, told>>

\* The connection is lost, or nothing came for streamIdleTimeoutMs; a line cut
\* in the middle is no JSON and never retried.
ConnectionLost(a) ==
    /\ Runs(a) /\ phase[a] = "streaming" /\ connected[a]
    /\ connected' = [connected EXCEPT ![a] = FALSE]
    /\ \E retryable \in BOOLEAN : StreamBreaks(a, retryable)
    /\ UNCHANGED <<job, seen, adapterVars, cancelRequested, cancelCall, told>>

\* The response ends: a stream that brought no outcome is a failure.
StreamEnds(a) ==
    /\ Runs(a) /\ phase[a] = "streaming" /\ connected[a]
    /\ ended[a] /\ seen[a] = Len(written[a])
    /\ IF verdicts[a] = <<>> \/ Cancelled(a)
       THEN Fail(a)
       ELSE phase' = [phase EXCEPT ![a] = "done"] /\ UNCHANGED <<offer, verdicts, dropped>>
    /\ UNCHANGED <<job, attempt, seen, connected, adapterVars, cancelRequested, cancelCall, told>>

\* The service takes an event.
Take(a) ==
    /\ offer[a] # "none"
    /\ a = Refine \/ job = "merging"
    /\ offer' = [offer EXCEPT ![a] = "none"]
    /\ phase' = [phase EXCEPT ![a] = IF @ = "reporting" THEN "done" ELSE @]
    /\ UNCHANGED <<job, attempt, seen, connected, verdicts, adapterVars, cancelVars>>

\* Applying an event throws: nothing is taken any more, the generators of the
\* other variations go on to their next event, and the adapter to its end.
StopJob ==
    /\ job = "merging"
    /\ \E v \in Variation : offer[v] # "none"
    /\ job' = "stopped"
    /\ UNCHANGED <<phase, offer, attempt, seen, connected, verdicts, adapterVars, cancelVars>>

\* Mutant: the merge stops when nothing is under way, before it pulls the next.
JobCompletedEarly ==
    /\ job = "merging"
    /\ Started = {} /\ \E v \in Variation : phase[v] = "done"
    /\ \A v \in Variation : offer[v] = "none"
    /\ job' = "over"
    /\ UNCHANGED <<phase, offer, attempt, seen, connected, verdicts, adapterVars, cancelVars>>

\* job_completed is yielded when the merge has nothing left to take.
JobCompleted ==
    /\ job = "merging"
    /\ \A v \in Variation : phase[v] = "done" /\ offer[v] = "none"
    /\ job' = "over"
    /\ UNCHANGED <<phase, offer, attempt, seen, connected, verdicts, adapterVars, cancelVars>>

-----------------------------------------------------------------------------
\* cancelRuntimeJob of the refine: an unreachable or mismatched runtime
\* refuses at once; an active refine is flagged, and if its agent is not
\* created yet the cancellation counts as accepted.
CancelRefine ==
    /\ cancelCall = "none"
    /\ \/ /\ cancelCall' = "refused"
          /\ UNCHANGED cancelRequested
       \/ /\ phase[Refine] \in {"creating", "connecting", "streaming", "reporting"}
          /\ cancelRequested' = TRUE
          /\ cancelCall' = IF phase[Refine] = "creating" THEN "accepted" ELSE "asking"
       \/ /\ phase[Refine] \in {"queued", "done"}
          /\ cancelCall' = "asking"
          /\ UNCHANGED cancelRequested
    /\ UNCHANGED <<job, phase, offer, attempt, seen, connected, verdicts, adapterVars, told, dropped>>

\* POST /v1/agents/cancel: the adapter accepts, refuses or cannot be reached.
\* The flag stays set in all three cases.
CancelAnswered ==
    /\ cancelCall = "asking"
    /\ \E accepted \in BOOLEAN :
        /\ cancelCall' = IF accepted THEN "accepted" ELSE "refused"
        /\ told' = (told \/ accepted)
    /\ UNCHANGED <<job, phase, offer, attempt, seen, connected, verdicts, adapterVars,
                   cancelRequested, dropped>>

GeneratorStep(a) ==
    \/ AgentCreated(a) \/ AgentRefused(a)
    \/ Connect(a) \/ ConnectFails(a)
    \/ Receive(a) \/ ConnectionLost(a) \/ StreamEnds(a)

Next ==
    \/ SpawnVariationAgents \/ StopJob \/ JobCompleted
    \/ \E v \in Variation : Pull(v)
    \/ RefineVariation
    \/ \E a \in Agent : GeneratorStep(a) \/ AdapterWrites(a) \/ Take(a)
    \/ CancelRefine \/ CancelAnswered

Spec == Init /\ [][Next]_vars

\* Every wait of the client has a timeout and the service takes what it is
\* offered; nothing is assumed of the adapter or of the network.
Fairness ==
    /\ \A a \in Agent : WF_vars(GeneratorStep(a)) /\ WF_vars(Take(a))
    /\ \A v \in Variation : WF_vars(Pull(v))
    /\ WF_vars(JobCompleted)

FairSpec == Spec /\ Fairness

-----------------------------------------------------------------------------
\* When job_completed is yielded every variation has reported an outcome, and
\* none has reported two pages: errors passed on from the transcript may come
\* before the result and the failure of a broken stream after it
\* (babelOGateway.ts:108, 311, 324; app.ts:565).
EveryVariationHeard ==
    job = "over" /\ (\E v \in Variation : phase[v] = "done") =>
        \A w \in Variation :
            verdicts[w] # <<>> /\ Cardinality({i \in DOMAIN verdicts[w] : verdicts[w][i] = "completed"}) <= 1

\* Once a cancellation is accepted for a running refine, no outcome of it is
\* yielded any more (babelOGateway.ts:158, 166; TODO RTC-15).
AcceptedCancelSilences ==
    [][cancelRequested /\ cancelCall = "accepted" => verdicts'[Refine] = verdicts[Refine]]_vars

\* A job whose variations were handed to the merge ends, unless the service
\* stops taking its events: a connection that brings nothing is given up
\* (babelOClient.ts:1109).
MergeEnds == job = "merging" ~> job # "merging"

\* A refine whose cancellation was refused still reports its outcome
\* (babelOGateway.ts:217; refuted: the flag set before the adapter was asked
\* is not taken back, so the refine ends without one).
RefusedCancelIsHarmless == cancelCall = "refused" => ~dropped
=============================================================================
