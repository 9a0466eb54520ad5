------------------------------- MODULE JobQueue --------------------------------
(***************************************************************************)
(* What a DesignJobQueue promises its callers, whichever provider is       *)
(* behind it (the type in apps/api/src/designJobQueue.ts): an idempotency  *)
(* key is a job of its own until it is forgotten, its consumer is started  *)
(* a bounded number of times, never while the queue still awaits an        *)
(* earlier start and never after the job was given up, and a result is     *)
(* final.  A job that was started answers "running" until it ends, also    *)
(* while it waits for its next attempt.                                    *)
(***************************************************************************)
EXTENDS Naturals

CONSTANTS Key, Limit

VARIABLES
    state,      \* what getJobState answers
    runs,       \* executions started since the key was accepted
    active      \* keys with an execution whose result the queue awaits

State == {"none", "queued", "running", "completed", "failed", "cancelled"}

Init == state = [k \in Key |-> "none"] /\ runs = [k \in Key |-> 0] /\ active = {}

Become(k, s) == state' = [state EXCEPT ![k] = s]

Accept(k) == state[k] = "none" /\ Become(k, "queued") /\ UNCHANGED <<runs, active>>

\* An execution starts; a job accepted by a provider with a consumer starts at once.
Run(k) ==
    /\ state[k] \in {"none", "queued", "running"} /\ k \notin active /\ runs[k] < Limit
    /\ Become(k, "running") /\ runs' = [runs EXCEPT ![k] = @ + 1]
    /\ active' = active \cup {k}

\* A consumer that is attached late starts every job that waits.
RunAll == \E ks \in SUBSET Key :
    /\ \A k \in ks : state[k] = "queued" /\ k \notin active /\ runs[k] < Limit
    /\ state' = [k \in Key |-> IF k \in ks THEN "running" ELSE state[k]]
    /\ runs' = [k \in Key |-> IF k \in ks THEN runs[k] + 1 ELSE runs[k]]
    /\ active' = active \cup ks

\* Attempts that came to nothing and may be followed by others: nobody is told.
Lose == \E ks \in SUBSET active :
    /\ \A k \in ks : state[k] = "running"
    /\ active' = active \ ks /\ UNCHANGED <<state, runs>>

\* Only what was awaited completes; a job cancelled in the middle may still fail.
Finish(k) ==
    /\ \E s \in {"completed", "failed", "cancelled"} :
        /\ \/ state[k] = "running" /\ (s = "failed" \/ (s = "completed" /\ k \in active))
           \/ state[k] = "cancelled" /\ s # "completed" /\ k \in active
        /\ Become(k, s)
    /\ active' = active \ {k} /\ UNCHANGED runs

Cancel(k) ==
    state[k] \in {"queued", "running"} /\ Become(k, "cancelled") /\ UNCHANGED <<runs, active>>

\* The provider removes the job: the key is as good as new.
Forget(k) ==
    /\ state[k] \in State \ {"none"} /\ k \notin active
    /\ Become(k, "none") /\ runs' = [runs EXCEPT ![k] = 0] /\ UNCHANGED active

Next == RunAll \/ Lose \/ \E k \in Key : Accept(k) \/ Run(k) \/ Finish(k) \/ Cancel(k) \/ Forget(k)

Spec == Init /\ [][Next]_<<state, runs, active>>
=============================================================================
