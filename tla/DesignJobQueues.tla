--------------------------- MODULE DesignJobQueues -----------------------------
(***************************************************************************)
(* The two providers of the job queue, chosen when the process starts      *)
(* (serviceFactory.ts): InMemoryDesignJobQueue, which starts a job in the  *)
(* process that enqueues it, and RedisDesignJobQueue, which hands it to    *)
(* BullMQ and runs it in whichever worker process takes it.  Attempts,     *)
(* time-outs, stalled jobs and the removal of waiting ones are BullMQ's.   *)
(***************************************************************************)
EXTENDS Naturals, FiniteSets

CONSTANTS
    Key,            \* idempotency keys
    Process,        \* worker processes
    Attempts,       \* reliabilityPolicy.attempts
    TimesOut,       \* whether jobTimeoutMs is set
    Backoff,        \* whether backoffMs is set
    Concurrency,    \* jobs a worker runs at once
    MaxStalled,     \* BullMQ's maxStalledCount
    MaxCancels, MaxDeaths, MaxAccepts     \* bounds

ASSUME QueuesAssumption ==
    /\ IsFiniteSet(Key) /\ IsFiniteSet(Process) /\ Process # {}
    /\ {Attempts, Concurrency} \subseteq Nat \ {0}
    /\ {MaxStalled, MaxCancels, MaxDeaths, MaxAccepts} \subseteq Nat
    /\ {TimesOut, Backoff} \subseteq BOOLEAN

VARIABLES
    provider,   \* "memory" or "redis"
    jobs,       \* key -> the provider's record
    workers,    \* processes whose consumer is attached
    execs,      \* executions of the consumer under way
    runs,       \* key -> executions started since it was accepted
    cancel,     \* the cancelJob call under way: its key and the state it has read
    refused,    \* keys whose cancel was answered before they ever ran
    cancels, deaths, accepts

vars == <<provider, jobs, workers, execs, runs, cancel, refused, cancels, deaths, accepts>>

NoCancel == [key |-> "none", seen |-> "none"]

TypeOK ==
    /\ provider \in {"memory", "redis"}
    /\ jobs \in [Key -> [status : {"none", "queued", "delayed", "running", "completed", "failed", "cancelled"},
                         made : 0 .. Attempts, stalled : 0 .. MaxStalled + 1]]
    /\ workers \subseteq Process
    /\ execs \subseteq [key : Key, run : Nat, by : Process, awaited : BOOLEAN]
    /\ runs \in [Key -> Nat]
    /\ cancel \in {NoCancel} \cup [key : Key, seen : {"queued", "running", "completed", "failed"}]
    /\ refused \subseteq Key
    /\ cancels \in 0 .. MaxCancels /\ deaths \in 0 .. MaxDeaths /\ accepts \in 0 .. MaxAccepts

createState == [status |-> "none", made |-> 0, stalled |-> 0]

\* createDesignJobQueueFromEnv
Init ==
    /\ provider \in {"memory", "redis"}
    /\ jobs = [k \in Key |-> createState]
    /\ workers = {} /\ execs = {} /\ refused = {}
    /\ runs = [k \in Key |-> 0]
    /\ cancel = NoCancel /\ cancels = 0 /\ deaths = 0 /\ accepts = 0

-----------------------------------------------------------------------------
Status(k) == jobs[k].status
SetStatus(k, s) == jobs' = [jobs EXCEPT ![k].status = s]

\* The execution a start of k makes in process p.
Execution(k, p) == [key |-> k, run |-> runs[k] + 1, by |-> p, awaited |-> TRUE]

\* Executions BullMQ has a lock for: their process lives and was not given up.
Awaited(k) == {e \in execs : e.key = k /\ e.awaited}

-----------------------------------------------------------------------------
(* InMemoryDesignJobQueue: one process, in which the consumer is attached  *)
(* after the queue was made.                                               *)

TheProcess == CHOOSE p \in Process : TRUE

enqueue(k) ==
    /\ provider = "memory" /\ Status(k) = "none"
    /\ accepts < MaxAccepts /\ accepts' = accepts + 1
    /\ SetStatus(k, IF workers = {} THEN "queued" ELSE "running")
    /\ IF workers = {} THEN UNCHANGED <<execs, runs>>
       ELSE /\ execs' = execs \cup {Execution(k, TheProcess)}
            /\ runs' = [runs EXCEPT ![k] = @ + 1]
    /\ UNCHANGED <<provider, workers, cancel, refused, cancels, deaths>>

\* Mutant: every job that has no result yet starts.
attachToUnfinished ==
    /\ provider = "memory" /\ workers = {}
    /\ workers' = {TheProcess}
    /\ LET waiting == {k \in Key : Status(k) \in {"queued", "cancelled"}}
       IN  /\ jobs' = [k \in Key |-> IF k \in waiting THEN [jobs[k] EXCEPT !.status = "running"] ELSE jobs[k]]
           /\ execs' = execs \cup {Execution(k, TheProcess) : k \in waiting}
           /\ runs' = [k \in Key |-> IF k \in waiting THEN runs[k] + 1 ELSE runs[k]]
    /\ UNCHANGED <<provider, cancel, refused, cancels, deaths, accepts>>

\* Mutant: the jobs enqueued before are left alone.
attachOnly ==
    /\ provider = "memory" /\ workers = {}
    /\ workers' = {TheProcess}
    /\ UNCHANGED <<provider, jobs, execs, runs, cancel, refused, cancels, deaths, accepts>>

\* setConsumer: the jobs that wait start, a cancelled one does not.
attachConsumer ==
    /\ provider = "memory" /\ workers = {}
    /\ workers' = {TheProcess}
    /\ LET waiting == {k \in Key : Status(k) = "queued"}
       IN  /\ jobs' = [k \in Key |-> IF k \in waiting THEN [jobs[k] EXCEPT !.status = "running"] ELSE jobs[k]]
           /\ execs' = execs \cup {Execution(k, TheProcess) : k \in waiting}
           /\ runs' = [k \in Key |-> IF k \in waiting THEN runs[k] + 1 ELSE runs[k]]
    /\ UNCHANGED <<provider, cancel, refused, cancels, deaths, accepts>>

\* run: a consumer that returns leaves a cancelled job cancelled, one that throws does not.
endRun(e) ==
    /\ provider = "memory" /\ execs' = execs \ {e}
    /\ \/ IF Status(e.key) = "cancelled" THEN UNCHANGED jobs ELSE SetStatus(e.key, "completed")
       \/ SetStatus(e.key, "failed")
    /\ UNCHANGED <<provider, workers, runs, cancel, refused, cancels, deaths, accepts>>

cancelInMemory(k) ==
    /\ provider = "memory" /\ cancels < MaxCancels
    /\ Status(k) \in {"queued", "running", "cancelled"}
    /\ SetStatus(k, "cancelled")
    /\ refused' = IF runs[k] = 0 THEN refused \cup {k} ELSE refused
    /\ cancels' = cancels + 1
    /\ UNCHANGED <<provider, workers, execs, runs, cancel, deaths, accepts>>

-----------------------------------------------------------------------------
(* RedisDesignJobQueue.                                                    *)

\* queue.add: a job whose id BullMQ still holds, in whichever set, is not added.
add(k) ==
    /\ provider = "redis" /\ Status(k) = "none"
    /\ accepts < MaxAccepts /\ accepts' = accepts + 1
    /\ jobs' = [jobs EXCEPT ![k] = [createState EXCEPT !.status = "queued"]]
    /\ refused' = refused \ {k}
    /\ UNCHANGED <<provider, workers, execs, runs, cancel, cancels, deaths>>

\* setConsumer: a worker process starts, or starts again.
startWorker(p) ==
    /\ provider = "redis" /\ p \notin workers
    /\ workers' = workers \cup {p}
    /\ UNCHANGED <<provider, jobs, execs, runs, cancel, refused, cancels, deaths, accepts>>

takeJob(p, k) ==
    /\ provider = "redis" /\ p \in workers /\ Status(k) = "queued"
    /\ Cardinality({e \in execs : e.by = p /\ e.awaited}) < Concurrency
    /\ SetStatus(k, "running")
    /\ execs' = execs \cup {Execution(k, p)}
    /\ runs' = [runs EXCEPT ![k] = @ + 1]
    /\ UNCHANGED <<provider, workers, cancel, refused, cancels, deaths, accepts>>

\* Mutant: an attempt that fails is not counted.
FailUncounted(k) ==
    jobs' = [jobs EXCEPT ![k].status = IF Attempts = 1 THEN "failed"
                                       ELSE IF Backoff THEN "delayed" ELSE "queued"]

\* An attempt has failed: another one, at once or after the backoff, or the failed set.
FailAttempt(k) ==
    LET made == jobs[k].made + 1
    IN  jobs' = [jobs EXCEPT ![k].made = made,
                             ![k].status = IF made >= Attempts THEN "failed"
                                           ELSE IF Backoff THEN "delayed" ELSE "queued"]

\* withOptionalTimeout: the attempt is given up, the consumer's work goes on.
timeOut(e) ==
    /\ provider = "redis" /\ TimesOut /\ e.awaited
    /\ execs' = (execs \ {e}) \cup {[e EXCEPT !.awaited = FALSE]}
    /\ FailAttempt(e.key)
    /\ UNCHANGED <<provider, workers, runs, cancel, refused, cancels, deaths, accepts>>

endBackoff(k) ==
    /\ provider = "redis" /\ Status(k) = "delayed"
    /\ SetStatus(k, "queued")
    /\ UNCHANGED <<provider, workers, execs, runs, cancel, refused, cancels, deaths, accepts>>

\* The result of a consumer counts only for the attempt that waits for it.
endConsumer(e) ==
    /\ provider = "redis" /\ execs' = execs \ {e}
    /\ \/ ~e.awaited /\ UNCHANGED jobs
       \/ e.awaited /\ (SetStatus(e.key, "completed") \/ FailAttempt(e.key))
    /\ UNCHANGED <<provider, workers, runs, cancel, refused, cancels, deaths, accepts>>

workerDies(p) ==
    /\ provider = "redis" /\ p \in workers /\ deaths < MaxDeaths
    /\ workers' = workers \ {p} /\ deaths' = deaths + 1
    /\ execs' = {e \in execs : e.by # p}
    /\ UNCHANGED <<provider, jobs, runs, cancel, refused, cancels, accepts>>

\* Mutant: a job is taken for stalled while its worker holds it.
recoverHeld(k) ==
    /\ provider = "redis" /\ workers # {} /\ Status(k) = "running"
    /\ jobs' = [jobs EXCEPT ![k].stalled = @ + 1,
                            ![k].status = IF jobs[k].stalled >= MaxStalled THEN "failed" ELSE "queued"]
    /\ UNCHANGED <<provider, workers, execs, runs, cancel, refused, cancels, deaths, accepts>>

\* BullMQ finds an active job whose lock has expired.
recoverStalled(k) ==
    /\ provider = "redis" /\ workers # {}
    /\ Status(k) = "running" /\ Awaited(k) = {}
    /\ jobs' = [jobs EXCEPT ![k].stalled = @ + 1,
                            ![k].status = IF jobs[k].stalled >= MaxStalled THEN "failed" ELSE "queued"]
    /\ UNCHANGED <<provider, workers, execs, runs, cancel, refused, cancels, deaths, accepts>>

\* cancelJob reads the job's state ...
readForCancel(k) ==
    /\ provider = "redis" /\ cancel = NoCancel /\ cancels < MaxCancels /\ Status(k) # "none"
    /\ cancel' = [key |-> k, seen |-> IF Status(k) = "delayed" THEN "queued" ELSE Status(k)]
    /\ cancels' = cancels + 1
    /\ UNCHANGED <<provider, jobs, workers, execs, runs, refused, deaths, accepts>>

\* ... and acts on what it has read.  The signal to an active job reaches no
\* consumer, and BullMQ does not remove a job that a worker holds.
actOnCancel ==
    /\ cancel # NoCancel /\ cancel' = NoCancel
    /\ LET k == cancel.key
       IN  IF cancel.seen = "queued" /\ Awaited(k) = {} /\ Status(k) # "running"
             THEN /\ jobs' = [jobs EXCEPT ![k] = createState]
                  /\ runs' = [runs EXCEPT ![k] = 0]
                  /\ refused' = IF runs[k] = 0 THEN refused \cup {k} ELSE refused
             ELSE UNCHANGED <<jobs, runs, refused>>
    /\ UNCHANGED <<provider, workers, execs, cancels, deaths, accepts>>

-----------------------------------------------------------------------------
Next ==
    \/ attachConsumer \/ actOnCancel
    \/ \E k \in Key :
        \/ enqueue(k) \/ cancelInMemory(k) \/ add(k)
        \/ endBackoff(k) \/ recoverStalled(k) \/ readForCancel(k)
    \/ \E p \in Process : startWorker(p) \/ workerDies(p)
    \/ \E p \in Process, k \in Key : takeJob(p, k)
    \/ \E e \in execs : endRun(e) \/ timeOut(e) \/ endConsumer(e)

\* A consumer is attached, a free worker takes jobs, consumers end, stalled
\* jobs are looked for; nobody has to enqueue, cancel or die.
Fairness ==
    /\ WF_vars(attachConsumer) /\ WF_vars(actOnCancel)
    /\ WF_vars(\E p \in Process : startWorker(p))
    /\ \A k \in Key : WF_vars(endBackoff(k)) /\ WF_vars(recoverStalled(k))
    /\ \A k \in Key : SF_vars(\E p \in Process : takeJob(p, k))
    /\ \A k \in Key : WF_vars(\E e \in execs : e.key = k /\ (endRun(e) \/ endConsumer(e)))

Spec == Init /\ [][Next]_vars /\ Fairness

-----------------------------------------------------------------------------
(* Properties.                                                             *)

\* At most one execution of a job has a queue that waits for its result, and such a
\* job is the queue's to run: the executions beside it are those a time-out gave up
\* and a cancel that reached nobody (withOptionalTimeout, cancelJob).
OneAwaited ==
    \A k \in Key : \A e, f \in Awaited(k) :
        e = f /\ Status(k) \in {"running", "cancelled"}

\* A job whose cancel was answered before it ran is never run, whatever worker
\* starts or takes jobs at the same time (cancelJob, setConsumer).  What a time-out
\* gave up of an earlier job with the key may still be going on.
RefusedNeverRuns == \A k \in refused : runs[k] = 0 /\ Awaited(k) = {}

\* Every accepted job ends, also when workers die, time out and are restarted
\* (setConsumer, run, withOptionalTimeout).
EveryJobEnds ==
    \A k \in Key : Status(k) \in {"queued", "delayed", "running"}
                      ~> Status(k) \in {"none", "completed", "failed", "cancelled"}

\* getJobState.  In memory it is the record; on Redis it is inferred from the stamps
\* BullMQ leaves on the job (inferBullStateFromJob): processedOn stays while the job
\* waits for another attempt, failedReason when a later attempt completes.
Answer ==
    LET inferred(k) ==
            IF Status(k) \in {"completed", "failed"}
              THEN IF Status(k) = "failed" \/ jobs[k].made > 0 THEN "failed" ELSE "completed"
              ELSE IF Status(k) = "none" THEN "none"
              ELSE IF runs[k] > 0 THEN "running" ELSE "queued"
    IN  [k \in Key |-> IF provider = "memory" THEN Status(k) ELSE inferred(k)]

Active == {k \in Key : Awaited(k) # {}}

Contract == INSTANCE JobQueue WITH state <- Answer, active <- Active, Limit <- Attempts + MaxStalled

\* Both providers keep the contract of JobQueue, as getJobState shows it.
KeepsContract == Contract!Spec
=============================================================================
