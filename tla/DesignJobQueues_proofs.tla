------------------------ MODULE DesignJobQueues_proofs ------------------------
(***************************************************************************)
(* Proofs about DesignJobQueues, for any set of keys and worker processes, *)
(* any reliability policy and any number of cancels, deaths and jobs.      *)
(***************************************************************************)
EXTENDS DesignJobQueues, TLAPS

-----------------------------------------------------------------------------
(* The inductive invariant.                                                *)

\* An execution whose result is waited for is the only one of its key.
AwaitedAlone == \A e, f \in execs : e.awaited /\ f.awaited /\ e.key = f.key => e = f

\* BullMQ starts a job once per attempt that failed, once per time it stalled, and
\* once more for what runs or has completed; what is to run has attempts left.
RedisCounts == provider = "redis" => \A k \in Key :
    /\ runs[k] = jobs[k].made + jobs[k].stalled
                    + IF Status(k) \in {"running", "completed"} THEN 1 ELSE 0
    /\ Status(k) \in {"queued", "delayed", "running"} =>
            jobs[k].made < Attempts /\ jobs[k].stalled <= MaxStalled
    /\ Status(k) = "none" => jobs[k].made = 0 /\ jobs[k].stalled = 0

\* Only what BullMQ holds as active has an execution that it waits for.
RedisAwaits == provider = "redis" =>
    /\ \A k \in Key : Status(k) # "cancelled"
    /\ \A e \in execs : e.awaited => Status(e.key) = "running"

\* In memory a job is started once, when it is enqueued or the consumer attached.
MemoryCounts == provider = "memory" =>
    /\ cancel = NoCancel
    /\ \A k \in Key :
        /\ jobs[k].made = 0 /\ jobs[k].stalled = 0 /\ Status(k) # "delayed"
        /\ Status(k) \in {"none", "queued"} => runs[k] = 0
    /\ \A e \in execs : e.awaited /\ runs[e.key] > 0 /\ Status(e.key) \in {"running", "cancelled"}

\* A refused job is gone from BullMQ, and stays cancelled in memory.
RefusedStay == \A k \in refused :
    runs[k] = 0 /\ Status(k) = IF provider = "redis" THEN "none" ELSE "cancelled"

QueueInvariant ==
    TypeOK /\ AwaitedAlone /\ RedisCounts /\ RedisAwaits /\ MemoryCounts /\ RefusedStay

-----------------------------------------------------------------------------
LEMMA TheProcessWorks == TheProcess \in Process
BY QueuesAssumption DEF TheProcess

ExecutionSet == [key : Key, run : Nat, by : Process, awaited : BOOLEAN]

LEMMA ExecutionType ==
    ASSUME TypeOK, NEW k \in Key, NEW p \in Process
    PROVE  /\ Execution(k, p) \in ExecutionSet
           /\ Execution(k, p).key = k /\ Execution(k, p).awaited
BY DEF TypeOK, Execution, ExecutionSet

LEMMA InitInvariant == Init => QueueInvariant
BY QueuesAssumption DEF Init, QueueInvariant, TypeOK, AwaitedAlone, RedisCounts, RedisAwaits,
    MemoryCounts, RefusedStay, createState, Status, NoCancel

LEMMA MemoryStep ==
    ASSUME QueueInvariant,
           \/ attachConsumer
           \/ \E k \in Key : enqueue(k) \/ cancelInMemory(k)
           \/ \E e \in execs : endRun(e)
    PROVE  QueueInvariant'
<1>. USE QueuesAssumption, TheProcessWorks DEF QueueInvariant
<1>1. CASE attachConsumer
  <2>. DEFINE waiting == {k \in Key : Status(k) = "queued"}
  <2>0. /\ provider = "memory"
        /\ workers' = {TheProcess}
        /\ jobs' = [k \in Key |-> IF k \in waiting THEN [jobs[k] EXCEPT !.status = "running"] ELSE jobs[k]]
        /\ execs' = execs \cup {Execution(k, TheProcess) : k \in waiting}
        /\ runs' = [k \in Key |-> IF k \in waiting THEN runs[k] + 1 ELSE runs[k]]
        /\ UNCHANGED <<provider, cancel, refused, cancels, deaths, accepts>>
    BY <1>1 DEF attachConsumer
  <2>1. TypeOK'
    <3>1. execs' \subseteq ExecutionSet BY <2>0, ExecutionType DEF TypeOK, ExecutionSet
    <3>2. QED BY <2>0, <3>1 DEF TypeOK, ExecutionSet
  <2>2. AwaitedAlone'
    <3>1. \A e \in execs : e.key \notin waiting BY <2>0 DEF MemoryCounts, Status
    <3>2. QED BY <2>0, <3>1, ExecutionType DEF AwaitedAlone
  <2>3. MemoryCounts'
    <3>1. \A k \in Key : /\ jobs'[k].made = jobs[k].made /\ jobs'[k].stalled = jobs[k].stalled
                          /\ jobs'[k].status = IF k \in waiting THEN "running" ELSE Status(k)
      BY <2>0 DEF TypeOK, Status
    <3>2. \A k \in Key : runs'[k] = IF k \in waiting THEN 1 ELSE runs[k]
      BY <2>0 DEF TypeOK, MemoryCounts, Status
    <3>3. \A e \in execs' : e.key \in Key /\ e.awaited /\ (e \in execs \/ e.key \in waiting)
      BY <2>0, ExecutionType DEF TypeOK, MemoryCounts
    <3>4. QED BY <2>0, <3>1, <3>2, <3>3 DEF MemoryCounts, Status
  <2>4. RefusedStay' BY <1>1 DEF RefusedStay, TypeOK, attachConsumer, Execution, Status
  <2>5. QED BY <1>1, <2>1, <2>2, <2>3, <2>4 DEF attachConsumer, RedisCounts, RedisAwaits
<1>2. ASSUME NEW k \in Key, enqueue(k) PROVE QueueInvariant'
  <2>1. TypeOK'
    <3>1. execs' \subseteq ExecutionSet BY <1>2, ExecutionType DEF TypeOK, enqueue, ExecutionSet
    <3>2. QED BY <1>2, <3>1 DEF TypeOK, enqueue, SetStatus, ExecutionSet
  <2>2. AwaitedAlone'
    <3>1. \A e \in execs : e.key # k BY <1>2 DEF MemoryCounts, enqueue
    <3>2. execs' \subseteq execs \cup {Execution(k, TheProcess)} BY <1>2 DEF enqueue
    <3>3. QED BY <3>1, <3>2, ExecutionType DEF AwaitedAlone
  <2>3. MemoryCounts' BY <1>2 DEF MemoryCounts, TypeOK, enqueue, Execution, Status, SetStatus
  <2>4. RefusedStay' BY <1>2 DEF RefusedStay, TypeOK, enqueue, Execution, Status, SetStatus
  <2>5. QED BY <1>2, <2>1, <2>2, <2>3, <2>4 DEF enqueue, RedisCounts, RedisAwaits
<1>3. ASSUME NEW k \in Key, cancelInMemory(k) PROVE QueueInvariant'
  <2>1. TypeOK' BY <1>3 DEF TypeOK, cancelInMemory, Status, SetStatus
  <2>2. AwaitedAlone' BY <1>3 DEF AwaitedAlone, TypeOK, cancelInMemory
  <2>3. MemoryCounts' BY <1>3 DEF MemoryCounts, TypeOK, cancelInMemory, Status, SetStatus
  <2>4. RefusedStay' BY <1>3 DEF RefusedStay, TypeOK, cancelInMemory, Status, SetStatus
  <2>5. QED BY <1>3, <2>1, <2>2, <2>3, <2>4 DEF cancelInMemory, RedisCounts, RedisAwaits
<1>4. ASSUME NEW e \in execs, endRun(e) PROVE QueueInvariant'
  <2>1. TypeOK' BY <1>4 DEF TypeOK, endRun, Status, SetStatus
  <2>2. AwaitedAlone' BY <1>4 DEF AwaitedAlone, TypeOK, endRun
  <2>3. MemoryCounts' BY <1>4 DEF MemoryCounts, AwaitedAlone, TypeOK, endRun, Status, SetStatus
  <2>4. RefusedStay' BY <1>4 DEF RefusedStay, MemoryCounts, TypeOK, endRun, Status, SetStatus
  <2>5. QED BY <1>4, <2>1, <2>2, <2>3, <2>4 DEF endRun, RedisCounts, RedisAwaits
<1>5. QED BY <1>1, <1>2, <1>3, <1>4

\* An attempt that fails has been counted, and is followed by another one or none.
LEMMA FailAttemptCounts ==
    ASSUME TypeOK, RedisCounts, provider = "redis", NEW k \in Key, Status(k) = "running",
           FailAttempt(k)
    PROVE  /\ jobs' \in [Key -> [status : {"none", "queued", "delayed", "running", "completed", "failed", "cancelled"},
                                 made : 0 .. Attempts, stalled : 0 .. MaxStalled + 1]]
           /\ \A l \in Key \ {k} : jobs'[l] = jobs[l]
           /\ jobs'[k].made = jobs[k].made + 1 /\ jobs'[k].stalled = jobs[k].stalled
           /\ jobs'[k].status \in {"queued", "delayed", "failed"}
           /\ jobs'[k].status # "failed" => jobs'[k].made < Attempts
BY QueuesAssumption DEF FailAttempt, TypeOK, RedisCounts, Status

LEMMA RedisStep ==
    ASSUME QueueInvariant,
           \/ \E k \in Key : add(k) \/ endBackoff(k) \/ recoverStalled(k) \/ readForCancel(k)
           \/ \E p \in Process : startWorker(p) \/ workerDies(p)
           \/ \E p \in Process, k \in Key : takeJob(p, k)
           \/ \E e \in execs : timeOut(e) \/ endConsumer(e)
           \/ actOnCancel
    PROVE  QueueInvariant'
<1>. USE QueuesAssumption DEF QueueInvariant
<1>1. ASSUME NEW k \in Key, add(k) PROVE QueueInvariant'
  <2>1. TypeOK' BY <1>1 DEF TypeOK, add, createState
  <2>2. AwaitedAlone' BY <1>1 DEF AwaitedAlone, add
  <2>3. RedisCounts' BY <1>1 DEF RedisCounts, TypeOK, add, createState, Status
  <2>4. RedisAwaits' BY <1>1 DEF RedisAwaits, TypeOK, add, createState, Status
  <2>5. RefusedStay' BY <1>1 DEF RefusedStay, TypeOK, add, createState, Status
  <2>6. QED BY <1>1, <2>1, <2>2, <2>3, <2>4, <2>5 DEF add, MemoryCounts
<1>2. ASSUME NEW k \in Key, endBackoff(k) PROVE QueueInvariant'
  <2>1. TypeOK' BY <1>2 DEF TypeOK, endBackoff, SetStatus
  <2>2. AwaitedAlone' BY <1>2 DEF AwaitedAlone, endBackoff
  <2>3. RedisCounts' BY <1>2 DEF RedisCounts, TypeOK, endBackoff, SetStatus, Status
  <2>4. RedisAwaits' BY <1>2 DEF RedisAwaits, TypeOK, endBackoff, SetStatus, Status
  <2>5. RefusedStay' BY <1>2 DEF RefusedStay, TypeOK, endBackoff, SetStatus, Status
  <2>6. QED BY <1>2, <2>1, <2>2, <2>3, <2>4, <2>5 DEF endBackoff, MemoryCounts
<1>3. ASSUME NEW k \in Key, recoverStalled(k) PROVE QueueInvariant'
  <2>1. TypeOK' BY <1>3 DEF TypeOK, recoverStalled, RedisCounts, Status
  <2>2. AwaitedAlone' BY <1>3 DEF AwaitedAlone, recoverStalled
  <2>3. RedisCounts' BY <1>3 DEF RedisCounts, TypeOK, recoverStalled, Status
  <2>4. RedisAwaits' BY <1>3 DEF RedisAwaits, TypeOK, recoverStalled, Awaited, Status
  <2>5. RefusedStay' BY <1>3 DEF RefusedStay, TypeOK, recoverStalled, Status
  <2>6. QED BY <1>3, <2>1, <2>2, <2>3, <2>4, <2>5 DEF recoverStalled, MemoryCounts
<1>4. ASSUME NEW k \in Key, readForCancel(k) PROVE QueueInvariant'
  <2>1. TypeOK' BY <1>4 DEF TypeOK, readForCancel, RedisAwaits, Status
  <2>2. QED BY <1>4, <2>1 DEF readForCancel, AwaitedAlone, RedisCounts, RedisAwaits, MemoryCounts, RefusedStay, Status
<1>5. ASSUME NEW p \in Process, startWorker(p) PROVE QueueInvariant'
  <2>1. TypeOK' BY <1>5 DEF TypeOK, startWorker
  <2>2. QED BY <1>5, <2>1 DEF startWorker, AwaitedAlone, RedisCounts, RedisAwaits, MemoryCounts, RefusedStay, Status
<1>6. ASSUME NEW p \in Process, workerDies(p) PROVE QueueInvariant'
  <2>1. TypeOK' BY <1>6 DEF TypeOK, workerDies
  <2>2. QED BY <1>6, <2>1 DEF workerDies, AwaitedAlone, RedisCounts, RedisAwaits, MemoryCounts, RefusedStay, Status
<1>7. ASSUME NEW p \in Process, NEW k \in Key, takeJob(p, k) PROVE QueueInvariant'
  <2>0. /\ provider = "redis" /\ Status(k) = "queued" /\ SetStatus(k, "running")
        /\ execs' = execs \cup {Execution(k, p)} /\ runs' = [runs EXCEPT ![k] = @ + 1]
        /\ UNCHANGED <<provider, workers, cancel, refused, cancels, deaths, accepts>>
    BY <1>7 DEF takeJob
  <2>1. TypeOK'
    <3>1. execs' \subseteq ExecutionSet BY <2>0, ExecutionType DEF TypeOK, ExecutionSet
    <3>2. QED BY <2>0, <3>1 DEF TypeOK, SetStatus, ExecutionSet
  <2>2. AwaitedAlone' BY <2>0, ExecutionType DEF AwaitedAlone, RedisAwaits
  <2>3. RedisCounts' BY <2>0 DEF RedisCounts, TypeOK, SetStatus, Status
  <2>4. RedisAwaits' BY <2>0, ExecutionType DEF RedisAwaits, TypeOK, SetStatus, Status
  <2>5. RefusedStay' BY <2>0 DEF RefusedStay, TypeOK, SetStatus, Status
  <2>6. QED BY <2>0, <2>1, <2>2, <2>3, <2>4, <2>5 DEF MemoryCounts
<1>8. ASSUME NEW e \in execs, timeOut(e) PROVE QueueInvariant'
  <2>. DEFINE k == e.key
            f == [e EXCEPT !.awaited = FALSE]
  <2>0. /\ provider = "redis" /\ e.awaited /\ k \in Key /\ Status(k) = "running" /\ FailAttempt(k)
        /\ execs' = (execs \ {e}) \cup {f}
        /\ f \in ExecutionSet /\ f.key = k /\ ~f.awaited
        /\ UNCHANGED <<provider, workers, runs, cancel, refused, cancels, deaths, accepts>>
    BY <1>8 DEF timeOut, TypeOK, RedisAwaits, ExecutionSet
  <2>a. \A g \in execs \ {e} : g.awaited => g.key \in Key \ {k}
    BY <2>0 DEF AwaitedAlone, TypeOK
  <2>. HIDE DEF k, f
  <2>1. TypeOK' BY <2>0, FailAttemptCounts DEF TypeOK, ExecutionSet
  <2>2. AwaitedAlone' BY <2>0 DEF AwaitedAlone
  <2>3. RedisCounts'
    <3>1. /\ jobs'[k].made + jobs'[k].stalled = runs'[k]
          /\ jobs'[k].status \in {"queued", "delayed"} => jobs'[k].made < Attempts /\ jobs'[k].stalled <= MaxStalled
          /\ jobs'[k].status \in {"queued", "delayed", "failed"}
      <4>1. /\ runs'[k] = jobs[k].made + jobs[k].stalled + 1
            /\ jobs[k].made \in Nat /\ jobs[k].stalled \in Nat /\ jobs[k].stalled <= MaxStalled
        BY <2>0 DEF RedisCounts, TypeOK, Status
      <4>2. QED BY <2>0, <4>1, FailAttemptCounts
    <3>2. \A l \in Key \ {k} : jobs'[l] = jobs[l] /\ runs'[l] = runs[l]
      BY <2>0, FailAttemptCounts
    <3>3. QED BY <2>0, <3>1, <3>2 DEF RedisCounts, TypeOK, Status
  <2>4. RedisAwaits' BY <2>0, <2>a, FailAttemptCounts DEF RedisAwaits, TypeOK, Status
  <2>5. RefusedStay' BY <2>0, FailAttemptCounts DEF RefusedStay, TypeOK, Status
  <2>6. QED BY <2>0, <2>1, <2>2, <2>3, <2>4, <2>5 DEF MemoryCounts
<1>9. ASSUME NEW e \in execs, endConsumer(e) PROVE QueueInvariant'
  <2>. DEFINE k == e.key
  <2>0. /\ provider = "redis" /\ k \in Key /\ execs' = execs \ {e}
        /\ UNCHANGED <<provider, workers, runs, cancel, refused, cancels, deaths, accepts>>
    BY <1>9 DEF endConsumer, TypeOK
  <2>1. CASE jobs' = jobs
    BY <2>0, <2>1 DEF TypeOK, AwaitedAlone, RedisCounts, RedisAwaits, MemoryCounts, RefusedStay, Status
  <2>2. CASE e.awaited /\ (SetStatus(k, "completed") \/ FailAttempt(k))
    <3>0. Status(k) = "running" /\ \A g \in execs \ {e} : g.awaited => g.key \in Key \ {k}
      BY <2>0, <2>2 DEF AwaitedAlone, RedisAwaits, TypeOK
    <3>. HIDE DEF k
    <3>1. /\ jobs' \in [Key -> [status : {"none", "queued", "delayed", "running", "completed", "failed", "cancelled"},
                                 made : 0 .. Attempts, stalled : 0 .. MaxStalled + 1]]
          /\ \A l \in Key \ {k} : jobs'[l] = jobs[l]
          /\ jobs'[k].status \in {"queued", "delayed", "failed", "completed"}
      BY <2>0, <2>2, <3>0, FailAttemptCounts DEF SetStatus, TypeOK
    <3>2. TypeOK' BY <2>0, <3>1 DEF TypeOK
    <3>3. AwaitedAlone' BY <2>0 DEF AwaitedAlone
    <3>4. RedisCounts'
      <4>1. CASE SetStatus(k, "completed") BY <2>0, <3>0, <4>1 DEF RedisCounts, TypeOK, SetStatus, Status
      <4>2. CASE FailAttempt(k) BY <2>0, <3>0, <4>2, FailAttemptCounts DEF RedisCounts, TypeOK, Status
      <4>3. QED BY <2>2, <4>1, <4>2
    <3>5. RedisAwaits' BY <2>0, <3>0, <3>1 DEF RedisAwaits, TypeOK, Status
    <3>6. RefusedStay' BY <2>0, <3>0, <3>1 DEF RefusedStay, TypeOK, Status
    <3>7. QED BY <2>0, <3>2, <3>3, <3>4, <3>5, <3>6 DEF MemoryCounts
  <2>3. QED BY <1>9, <2>1, <2>2 DEF endConsumer
<1>10. CASE actOnCancel
  <2>0. /\ provider = "redis" /\ cancel.key \in Key /\ cancel' = NoCancel
        /\ UNCHANGED <<provider, workers, execs, cancels, deaths, accepts>>
    BY <1>10 DEF actOnCancel, MemoryCounts, TypeOK
  <2>1. CASE UNCHANGED <<jobs, runs, refused>>
    BY <2>0, <2>1 DEF TypeOK, AwaitedAlone, RedisCounts, RedisAwaits, MemoryCounts, RefusedStay, Status, NoCancel
  <2>2. ASSUME NEW k \in Key, Awaited(k) = {}, Status(k) # "running",
               jobs' = [jobs EXCEPT ![k] = createState], runs' = [runs EXCEPT ![k] = 0],
               refused' = refused \/ refused' = refused \cup {k}
        PROVE  QueueInvariant'
    <3>1. TypeOK' BY <2>0, <2>2 DEF TypeOK, createState, NoCancel
    <3>2. AwaitedAlone' BY <2>0 DEF AwaitedAlone
    <3>3. RedisCounts' BY <2>0, <2>2 DEF RedisCounts, TypeOK, createState, Status
    <3>4. RedisAwaits' BY <2>0, <2>2 DEF RedisAwaits, TypeOK, createState, Status, Awaited
    <3>5. RefusedStay' BY <2>0, <2>2 DEF RefusedStay, TypeOK, createState, Status
    <3>6. QED BY <2>0, <3>1, <3>2, <3>3, <3>4, <3>5 DEF MemoryCounts
  <2>3. QED BY <1>10, <2>0, <2>1, <2>2 DEF actOnCancel
<1>11. QED BY <1>1, <1>2, <1>3, <1>4, <1>5, <1>6, <1>7, <1>8, <1>9, <1>10

LEMMA StutterStep == QueueInvariant /\ UNCHANGED vars => QueueInvariant'
BY DEF QueueInvariant, vars, TypeOK, AwaitedAlone, RedisCounts, RedisAwaits, MemoryCounts,
    RefusedStay, Status

LEMMA Inductive == QueueInvariant /\ [Next]_vars => QueueInvariant'
BY MemoryStep, RedisStep, StutterStep DEF Next

-----------------------------------------------------------------------------
(* The steps of the abstract queue: what getJobState answers, how often    *)
(* the job was started, and whether an execution of it is awaited.         *)

Abstract == <<Answer, runs, Active>>

\* A step that touches one job leaves the answers about the others.
LEMMA AnswerOfOne ==
    ASSUME TypeOK, UNCHANGED provider, NEW k \in Key, NEW s,
           \A q \in Key \ {k} : jobs'[q] = jobs[q] /\ runs'[q] = runs[q],
           Answer'[k] = s
    PROVE  Answer' = [Answer EXCEPT ![k] = s]
BY DEF Answer, Status

\* A step that touches no job changes no answer.
LEMMA AnswerKept ==
    ASSUME UNCHANGED <<provider, jobs, runs>>
    PROVE  UNCHANGED <<Answer, runs>>
BY DEF Answer, Status

\* In memory the answer is the record's status.
LEMMA AnswerInMemory ==
    ASSUME provider = "memory", UNCHANGED provider, NEW k \in Key
    PROVE  Answer[k] = Status(k) /\ Answer'[k] = Status(k)'
BY DEF Answer, Status

\* What BullMQ has not finished answers "running" as soon as it was started.
LEMMA AnswerOnRedis ==
    ASSUME QueueInvariant, provider = "redis", NEW k \in Key
    PROVE  /\ Answer[k] = "none" <=> Status(k) = "none"
           /\ Status(k) \in {"queued", "delayed"} => Answer[k] = IF runs[k] > 0 THEN "running" ELSE "queued"
           /\ Status(k) = "running" => Answer[k] = "running" /\ runs[k] > 0
           /\ Answer[k] \in Contract!State
<1>1. Status(k) = "running" => runs[k] > 0
  BY QueuesAssumption DEF QueueInvariant, RedisCounts, TypeOK, Status
<1>2. QED BY <1>1 DEF QueueInvariant, TypeOK, RedisAwaits, Answer, Status, Contract!State

\* The start of an execution makes its key active.
LEMMA ActiveGrows ==
    ASSUME TypeOK, NEW k \in Key, NEW p \in Process, execs' = execs \cup {Execution(k, p)}
    PROVE  Active' = Active \cup {k}
BY ExecutionType DEF Active, Awaited

\* The end of the awaited execution of a key makes it inactive.
LEMMA ActiveEnds ==
    ASSUME QueueInvariant, NEW e \in execs, e.awaited,
           \/ execs' = execs \ {e}
           \/ execs' = (execs \ {e}) \cup {[e EXCEPT !.awaited = FALSE]}
    PROVE  e.key \in Active /\ Active' = Active \ {e.key}
<1>1. e.key \in Key /\ e \in ExecutionSet
  BY DEF QueueInvariant, TypeOK, ExecutionSet
<1>2. \A g \in execs : g.awaited /\ g.key = e.key => g = e
  BY DEF QueueInvariant, AwaitedAlone
<1>3. \A g \in execs' : g.awaited <=> g \in execs \ {e} /\ g.awaited
  BY <1>1 DEF ExecutionSet
<1>4. \A g \in execs \ {e} : g \in execs' OBVIOUS
<1>5. QED BY <1>1, <1>2, <1>3, <1>4 DEF Active, Awaited

LEMMA ContractInit == Init => Contract!Init
BY DEF Init, Contract!Init, Answer, Active, Awaited, Status, createState

LEMMA MemoryContract ==
    ASSUME QueueInvariant,
           \/ attachConsumer
           \/ \E k \in Key : enqueue(k) \/ cancelInMemory(k)
           \/ \E e \in execs : endRun(e)
    PROVE  [Contract!Next]_Abstract
<1>. USE QueuesAssumption, TheProcessWorks DEF QueueInvariant
<1>1. CASE attachConsumer
  <2>. DEFINE waiting == {k \in Key : Status(k) = "queued"}
  <2>1. /\ provider = "memory" /\ UNCHANGED provider
        /\ jobs' = [k \in Key |-> IF k \in waiting THEN [jobs[k] EXCEPT !.status = "running"] ELSE jobs[k]]
        /\ runs' = [k \in Key |-> IF k \in waiting THEN runs[k] + 1 ELSE runs[k]]
        /\ execs' = execs \cup {Execution(k, TheProcess) : k \in waiting}
    BY <1>1 DEF attachConsumer
  <2>2. \A k \in waiting : Answer[k] = "queued" /\ runs[k] < Attempts + MaxStalled /\ k \notin Active
    <3>1. \A k \in waiting : Answer[k] = "queued" /\ runs[k] = 0
      BY <2>1 DEF Answer, MemoryCounts, Status
    <3>2. \A e \in execs : e.key \notin waiting
      BY <2>1 DEF MemoryCounts
    <3>3. Active \cap waiting = {}
      BY <3>2 DEF Active, Awaited
    <3>4. QED BY <3>1, <3>3
  <2>3. Answer' = [k \in Key |-> IF k \in waiting THEN "running" ELSE Answer[k]]
    BY <2>1 DEF TypeOK, Answer, Status
  <2>4. Active' = Active \cup waiting
    BY <2>1, ExecutionType DEF Active, Awaited
  <2>5. Contract!RunAll
    BY <2>1, <2>2, <2>3, <2>4 DEF Contract!RunAll
  <2>6. QED BY <2>5 DEF Contract!Next
<1>2. ASSUME NEW k \in Key, enqueue(k) PROVE [Contract!Next]_Abstract
  <2>1. /\ provider = "memory" /\ UNCHANGED provider /\ Status(k) = "none"
        /\ Answer[k] = "none" /\ runs[k] = 0 /\ k \notin Active
    BY <1>2 DEF enqueue, Answer, MemoryCounts, Active, Awaited
  <2>2. CASE workers = {}
    <3>1. SetStatus(k, "queued") /\ UNCHANGED <<runs, execs>>
      BY <1>2, <2>2 DEF enqueue
    <3>2. Answer' = [Answer EXCEPT ![k] = "queued"] /\ UNCHANGED <<runs, Active>>
      BY <2>1, <3>1, AnswerInMemory, AnswerOfOne DEF SetStatus, Status, TypeOK, Active, Awaited
    <3>3. Contract!Accept(k) BY <2>1, <3>2 DEF Contract!Accept, Contract!Become
    <3>4. QED BY <3>3 DEF Contract!Next
  <2>3. CASE workers # {}
    <3>1. /\ SetStatus(k, "running") /\ runs' = [runs EXCEPT ![k] = @ + 1]
          /\ execs' = execs \cup {Execution(k, TheProcess)}
      BY <1>2, <2>3 DEF enqueue
    <3>2. Answer' = [Answer EXCEPT ![k] = "running"]
      BY <2>1, <3>1, AnswerInMemory, AnswerOfOne DEF SetStatus, Status, TypeOK
    <3>3. Active' = Active \cup {k} BY <3>1, ActiveGrows
    <3>4. Contract!Run(k) BY <2>1, <3>1, <3>2, <3>3 DEF Contract!Run, Contract!Become
    <3>5. QED BY <3>4 DEF Contract!Next
  <2>4. QED BY <2>2, <2>3
<1>3. ASSUME NEW k \in Key, cancelInMemory(k) PROVE [Contract!Next]_Abstract
  <2>1. /\ provider = "memory" /\ SetStatus(k, "cancelled") /\ UNCHANGED <<provider, runs, execs>>
        /\ Status(k) \in {"queued", "running", "cancelled"}
    BY <1>3 DEF cancelInMemory
  <2>2. Answer' = [Answer EXCEPT ![k] = "cancelled"] /\ UNCHANGED <<runs, Active>>
    BY <2>1, AnswerInMemory, AnswerOfOne DEF SetStatus, Status, TypeOK, Active, Awaited
  <2>3. Answer[k] \in {"queued", "running", "cancelled"}
    BY <2>1, AnswerInMemory
  <2>4. CASE Answer[k] = "cancelled"
    <3>1. Answer' = Answer BY <2>2, <2>4 DEF Answer
    <3>2. QED BY <2>2, <3>1 DEF Abstract
  <2>5. CASE Answer[k] # "cancelled"
    <3>1. Contract!Cancel(k) BY <2>2, <2>3, <2>5 DEF Contract!Cancel, Contract!Become
    <3>2. QED BY <3>1 DEF Contract!Next
  <2>6. QED BY <2>4, <2>5
<1>4. ASSUME NEW e \in execs, endRun(e) PROVE [Contract!Next]_Abstract
  <2>. DEFINE k == e.key
  <2>1. /\ provider = "memory" /\ UNCHANGED <<provider, runs>> /\ execs' = execs \ {e}
        /\ k \in Key /\ e.awaited /\ Status(k) \in {"running", "cancelled"}
    BY <1>4 DEF endRun, TypeOK, MemoryCounts
  <2>2. k \in Active /\ Active' = Active \ {k} /\ Answer[k] = Status(k)
    BY <2>1, ActiveEnds, AnswerInMemory
  <2>. HIDE DEF k
  <2>3. \E s \in {"completed", "failed", "cancelled"} :
            /\ \/ Status(k) = "running" /\ s # "cancelled"
               \/ Status(k) = "cancelled" /\ s # "completed"
            /\ Answer' = [Answer EXCEPT ![k] = s]
    <3>1. CASE UNCHANGED jobs /\ Status(k) = "cancelled"
      <4>1. Answer' = [Answer EXCEPT ![k] = "cancelled"]
        BY <2>1, <3>1, AnswerInMemory, AnswerOfOne DEF Status
      <4>2. QED BY <3>1, <4>1
    <3>2. ASSUME NEW s \in {"completed", "failed"}, SetStatus(k, s), s = "completed" => Status(k) # "cancelled"
          PROVE  \E t \in {"completed", "failed", "cancelled"} :
                    /\ \/ Status(k) = "running" /\ t # "cancelled"
                       \/ Status(k) = "cancelled" /\ t # "completed"
                    /\ Answer' = [Answer EXCEPT ![k] = t]
      <4>1. Answer' = [Answer EXCEPT ![k] = s]
        BY <2>1, <3>2, AnswerInMemory, AnswerOfOne DEF SetStatus, Status, TypeOK
      <4>2. QED BY <2>1, <3>2, <4>1
    <3>3. QED BY <1>4, <2>1, <3>1, <3>2 DEF endRun, k
  <2>4. Contract!Finish(k) BY <2>1, <2>2, <2>3 DEF Contract!Finish, Contract!Become
  <2>5. QED BY <2>1, <2>4 DEF Contract!Next
<1>5. QED BY <1>1, <1>2, <1>3, <1>4

\* A start whose result was awaited has failed: another one may come, or the end.
LEMMA FailAttemptContract ==
    ASSUME QueueInvariant, provider = "redis", UNCHANGED <<provider, runs>>,
           NEW e \in execs, e.awaited, FailAttempt(e.key),
           \/ execs' = execs \ {e}
           \/ execs' = (execs \ {e}) \cup {[e EXCEPT !.awaited = FALSE]}
    PROVE  Contract!Next
<1>. USE DEF QueueInvariant
<1>. DEFINE k == e.key
<1>1. k \in Key /\ Status(k) = "running" /\ k \in Active /\ Active' = Active \ {k}
  BY ActiveEnds DEF TypeOK, RedisAwaits
<1>. HIDE DEF k
<1>2. /\ \A l \in Key \ {k} : jobs'[l] = jobs[l]
      /\ jobs'[k].status \in {"queued", "delayed", "failed"}
  BY <1>1, FailAttemptCounts DEF k
<1>3. Answer[k] = "running" /\ runs[k] > 0
  BY <1>1, AnswerOnRedis
<1>4. Answer' = [Answer EXCEPT ![k] = IF jobs'[k].status = "failed" THEN "failed" ELSE "running"]
  <2>1. Answer'[k] = IF jobs'[k].status = "failed" THEN "failed" ELSE "running"
    BY <1>1, <1>2, <1>3 DEF Answer, Status
  <2>2. QED BY <1>1, <1>2, <2>1, AnswerOfOne
<1>5. CASE jobs'[k].status = "failed"
  <2>1. Contract!Finish(k) BY <1>1, <1>3, <1>4, <1>5 DEF Contract!Finish, Contract!Become
  <2>2. QED BY <1>1, <2>1 DEF Contract!Next
<1>6. CASE jobs'[k].status # "failed"
  <2>1. Answer' = Answer BY <1>3, <1>4, <1>6 DEF Answer
  <2>2. {k} \in SUBSET Active BY <1>1
  <2>3. Contract!Lose BY <1>1, <1>3, <2>1, <2>2 DEF Contract!Lose
  <2>4. QED BY <2>3 DEF Contract!Next
<1>7. QED BY <1>5, <1>6

LEMMA RedisContract ==
    ASSUME QueueInvariant,
           \/ \E k \in Key : add(k) \/ endBackoff(k) \/ recoverStalled(k) \/ readForCancel(k)
           \/ \E p \in Process : startWorker(p) \/ workerDies(p)
           \/ \E p \in Process, k \in Key : takeJob(p, k)
           \/ \E e \in execs : timeOut(e) \/ endConsumer(e)
           \/ actOnCancel
    PROVE  [Contract!Next]_Abstract
<1>. USE QueuesAssumption DEF QueueInvariant
<1>1. ASSUME NEW k \in Key, add(k) PROVE [Contract!Next]_Abstract
  <2>1. /\ provider = "redis" /\ UNCHANGED <<provider, runs, execs>> /\ Status(k) = "none"
        /\ jobs' = [jobs EXCEPT ![k] = [createState EXCEPT !.status = "queued"]]
    BY <1>1 DEF add
  <2>2. Answer[k] = "none" /\ runs[k] = 0
    BY <2>1, AnswerOnRedis DEF RedisCounts, TypeOK
  <2>3. Answer' = [Answer EXCEPT ![k] = "queued"] /\ UNCHANGED <<runs, Active>>
    <3>1. Answer'[k] = "queued" BY <2>1, <2>2 DEF Answer, Status, createState, TypeOK
    <3>2. QED BY <2>1, <3>1, AnswerOfOne DEF TypeOK, Active, Awaited
  <2>4. Contract!Accept(k) BY <2>2, <2>3 DEF Contract!Accept, Contract!Become
  <2>5. QED BY <2>4 DEF Contract!Next
<1>2. ASSUME NEW k \in Key, endBackoff(k) PROVE [Contract!Next]_Abstract
  <2>1. /\ provider = "redis" /\ UNCHANGED <<provider, runs, execs>>
        /\ Status(k) = "delayed" /\ SetStatus(k, "queued")
    BY <1>2 DEF endBackoff
  <2>2. UNCHANGED Answer BY <2>1 DEF Answer, SetStatus, Status, TypeOK
  <2>3. QED BY <2>1, <2>2 DEF Abstract, Active, Awaited
<1>3. ASSUME NEW k \in Key, recoverStalled(k) PROVE [Contract!Next]_Abstract
  <2>1. /\ provider = "redis" /\ UNCHANGED <<provider, runs, execs>>
        /\ Status(k) = "running" /\ k \notin Active
        /\ \A q \in Key \ {k} : jobs'[q] = jobs[q]
        /\ jobs'[k].status \in {"queued", "failed"}
    BY <1>3 DEF recoverStalled, Active, Status, TypeOK
  <2>2. Answer[k] = "running" /\ runs[k] > 0
    BY <2>1, AnswerOnRedis
  <2>3. /\ Answer' = [Answer EXCEPT ![k] = IF jobs'[k].status = "failed" THEN "failed" ELSE "running"]
        /\ UNCHANGED <<runs, Active>>
    <3>1. Answer'[k] = IF jobs'[k].status = "failed" THEN "failed" ELSE "running"
      BY <2>1, <2>2 DEF Answer, Status
    <3>2. QED BY <2>1, <3>1, AnswerOfOne DEF Active, Awaited
  <2>4. CASE jobs'[k].status = "failed"
    <3>1. Contract!Finish(k) BY <2>1, <2>2, <2>3, <2>4 DEF Contract!Finish, Contract!Become
    <3>2. QED BY <3>1 DEF Contract!Next
  <2>5. CASE jobs'[k].status # "failed"
    <3>1. UNCHANGED Answer BY <2>2, <2>3, <2>5 DEF Answer
    <3>2. QED BY <2>3, <3>1 DEF Abstract
  <2>6. QED BY <2>4, <2>5
<1>4. ASSUME NEW p \in Process, NEW k \in Key, takeJob(p, k) PROVE [Contract!Next]_Abstract
  <2>1. /\ provider = "redis" /\ UNCHANGED provider /\ Status(k) = "queued" /\ SetStatus(k, "running")
        /\ execs' = execs \cup {Execution(k, p)} /\ runs' = [runs EXCEPT ![k] = @ + 1]
    BY <1>4 DEF takeJob
  <2>2. Answer[k] \in {"queued", "running"} /\ k \notin Active
    <3>1. Answer[k] \in {"queued", "running"} BY <2>1, AnswerOnRedis
    <3>2. Awaited(k) = {} BY <2>1 DEF RedisAwaits, Awaited
    <3>3. QED BY <3>1, <3>2 DEF Active
  <2>3. runs[k] < Attempts + MaxStalled /\ runs'[k] > 0
    BY <2>1 DEF RedisCounts, TypeOK, Status
  <2>4. Answer' = [Answer EXCEPT ![k] = "running"]
    <3>1. Answer'[k] = "running" BY <2>1, <2>3 DEF Answer, SetStatus, Status, TypeOK
    <3>2. QED BY <2>1, <3>1, AnswerOfOne DEF SetStatus, TypeOK
  <2>5. Active' = Active \cup {k} BY <2>1, ActiveGrows
  <2>6. Contract!Run(k) BY <2>1, <2>2, <2>3, <2>4, <2>5 DEF Contract!Run, Contract!Become
  <2>7. QED BY <2>6 DEF Contract!Next
<1>5. ASSUME NEW e \in execs, timeOut(e) PROVE [Contract!Next]_Abstract
  BY <1>5, FailAttemptContract DEF timeOut
<1>6. ASSUME NEW e \in execs, endConsumer(e) PROVE [Contract!Next]_Abstract
  <2>. DEFINE k == e.key
  <2>1. provider = "redis" /\ k \in Key /\ UNCHANGED <<provider, runs>> /\ execs' = execs \ {e}
    BY <1>6 DEF endConsumer, TypeOK
  <2>2. CASE ~e.awaited /\ jobs' = jobs
    <3>1. UNCHANGED Active BY <2>1, <2>2 DEF Active, Awaited
    <3>2. QED BY <2>1, <2>2, <3>1, AnswerKept DEF Abstract
  <2>3. CASE e.awaited /\ SetStatus(k, "completed")
    <3>1. Status(k) = "running" /\ k \in Active /\ Active' = Active \ {k}
      BY <2>1, <2>3, ActiveEnds DEF RedisAwaits
    <3>. HIDE DEF k
    <3>2. Answer[k] = "running" BY <2>1, <3>1, AnswerOnRedis
    <3>3. \E s \in {"completed", "failed"} : Answer' = [Answer EXCEPT ![k] = s]
      <4>1. Answer'[k] \in {"completed", "failed"}
        BY <2>1, <2>3 DEF Answer, SetStatus, Status, TypeOK
      <4>2. \A q \in Key \ {k} : jobs'[q] = jobs[q] /\ runs'[q] = runs[q]
        BY <2>1, <2>3 DEF SetStatus, TypeOK
      <4>3. QED BY <2>1, <4>1, <4>2, AnswerOfOne
    <3>4. Contract!Finish(k) BY <2>1, <3>1, <3>2, <3>3 DEF Contract!Finish, Contract!Become
    <3>5. QED BY <2>1, <3>4 DEF Contract!Next
  <2>4. CASE e.awaited /\ FailAttempt(k)
    BY <2>1, <2>4, FailAttemptContract
  <2>5. QED BY <1>6, <2>2, <2>3, <2>4 DEF endConsumer
<1>7. CASE actOnCancel
  <2>1. provider = "redis" /\ UNCHANGED <<provider, execs>>
    BY <1>7 DEF actOnCancel, MemoryCounts, TypeOK
  <2>2. CASE UNCHANGED <<jobs, runs, refused>>
    BY <2>1, <2>2, AnswerKept DEF Abstract, Active, Awaited
  <2>3. ASSUME NEW k \in Key, Awaited(k) = {},
               jobs' = [jobs EXCEPT ![k] = createState], runs' = [runs EXCEPT ![k] = 0]
        PROVE  [Contract!Next]_Abstract
    <3>1. /\ Answer' = [Answer EXCEPT ![k] = "none"] /\ UNCHANGED Active
          /\ k \notin Active
      <4>1. Answer'[k] = "none" BY <2>1, <2>3 DEF Answer, Status, createState, TypeOK
      <4>2. QED BY <2>1, <2>3, <4>1, AnswerOfOne DEF TypeOK, Active, Awaited
    <3>2. CASE Status(k) = "none"
      <4>1. runs[k] = 0 /\ Answer[k] = "none"
        BY <2>1, <3>2, AnswerOnRedis DEF RedisCounts, TypeOK
      <4>2. Answer = [q \in Key |-> Answer[q]] BY DEF Answer
      <4>3. Answer' = Answer /\ runs' = runs
        BY <2>3, <3>1, <4>1, <4>2 DEF TypeOK
      <4>4. QED BY <3>1, <4>3 DEF Abstract
    <3>3. CASE Status(k) # "none"
      <4>1. Answer[k] \in Contract!State \ {"none"}
        BY <2>1, <3>3, AnswerOnRedis
      <4>2. Contract!Forget(k) BY <2>3, <3>1, <4>1 DEF Contract!Forget, Contract!Become
      <4>3. QED BY <4>2 DEF Contract!Next
    <3>4. QED BY <3>2, <3>3
  <2>4. QED BY <1>7, <2>2, <2>3 DEF actOnCancel, MemoryCounts, TypeOK
<1>8. ASSUME NEW p \in Process, workerDies(p) PROVE [Contract!Next]_Abstract
  <2>1. /\ provider = "redis" /\ UNCHANGED <<provider, jobs, runs>>
        /\ execs' \subseteq execs
    BY <1>8 DEF workerDies
  <2>2. UNCHANGED <<Answer, runs>> BY <2>1, AnswerKept
  <2>3. Active' \subseteq Active BY <2>1 DEF Active, Awaited
  <2>4. \A k \in Active : Answer[k] = "running"
    BY <2>1, AnswerOnRedis DEF Active, Awaited, RedisAwaits
  <2>5. Contract!Lose
    <3>1. /\ Active \ Active' \in SUBSET Active
          /\ Active' = Active \ (Active \ Active')
      BY <2>3
    <3>2. QED BY <2>2, <2>4, <3>1 DEF Contract!Lose
  <2>6. QED BY <2>5 DEF Contract!Next
<1>9. CASE (\E k \in Key : readForCancel(k)) \/ \E p \in Process : startWorker(p)
  <2>1. UNCHANGED <<provider, jobs, runs, execs>> BY <1>9 DEF readForCancel, startWorker
  <2>2. QED BY <2>1, AnswerKept DEF Abstract, Active, Awaited
<1>10. QED BY <1>1, <1>2, <1>3, <1>4, <1>5, <1>6, <1>7, <1>8, <1>9

LEMMA ContractStep == QueueInvariant /\ [Next]_vars => [Contract!Next]_Abstract
<1>1. UNCHANGED vars => UNCHANGED Abstract
  BY AnswerKept DEF vars, Abstract, Active, Awaited
<1>2. QED
  BY <1>1, MemoryContract, RedisContract DEF Next

-----------------------------------------------------------------------------
(* The theorems.                                                           *)

\* The invariant holds of every behaviour.  It says what is awaited, how often a
\* job was started, and where a refused job stays (DesignJobQueues).
THEOREM QueueInvariantHolds == Spec => []QueueInvariant
BY InitInvariant, Inductive, PTL DEF Spec

\* Records, executions and counters keep their types: no job is tried or found
\* stalled more often than the policy says (FailAttempt, recoverStalled).
THEOREM TypeCorrect == Spec => []TypeOK
BY QueueInvariantHolds, PTL DEF QueueInvariant

\* No job has two executions that a queue waits for, and only a job that runs, or
\* whose cancel reached nobody, has one (takeJob, attachConsumer, recoverStalled).
THEOREM OneExecutionAwaited == Spec => []OneAwaited
<1>1. QueueInvariant => OneAwaited
  BY DEF QueueInvariant, TypeOK, OneAwaited, Awaited, AwaitedAlone, RedisAwaits, MemoryCounts
<1>2. QED
  BY <1>1, QueueInvariantHolds, PTL

\* A job refused before it ran has not been started since it was accepted
\* (cancelInMemory, actOnCancel).
THEOREM RefusedStaysOut == Spec => []RefusedNeverRuns
<1>1. QueueInvariant => RefusedNeverRuns
  BY DEF QueueInvariant, TypeOK, RefusedNeverRuns, Awaited, RefusedStay, RedisAwaits, MemoryCounts
<1>2. QED
  BY <1>1, QueueInvariantHolds, PTL

\* Both providers implement JobQueue: what getJobState answers changes only as it
\* allows, a start comes only when no earlier one is awaited, at most as often as
\* attempts and stalls together, and only what was awaited completes.
THEOREM ContractKept == Spec => KeepsContract
<1>1. QueueInvariant /\ [Next]_vars => [Contract!Next]_<<Answer, runs, Active>>
  BY ContractStep DEF Abstract
<1>2. QED
  BY <1>1, ContractInit, QueueInvariantHolds, PTL DEF Spec, KeepsContract, Contract!Spec
=============================================================================
