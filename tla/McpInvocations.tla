---------------------------- MODULE McpInvocations ----------------------------
(***************************************************************************)
(* The invocations of MCP tools and the records they are replayed from     *)
(* (apps/api: service.ts, mcpExecutor.ts, postgresRepository.ts; the       *)
(* runtime gateway's mcpInvocationContract.ts).                            *)
(* A call is authorized against the policy of its job and recorded, and if *)
(* it is to be executed, executed and recorded again, with the artifact    *)
(* that the tool made stored in between.  A record is a row and the API    *)
(* process's copy of it.  The caller may choose the id of an invocation,   *)
(* so an id may be asked again; one id is modelled, since nothing relates  *)
(* two of them.                                                            *)
(***************************************************************************)
EXTENDS Naturals

CONSTANTS
    McpCall,    \* calls with the id that may be in progress at once
    MaxRuns,    \* bound: executions of the tool
    MaxRaces    \* bound: calls that overlap another, fail in a save or are cut off

\* What the module assumes of its constants; the module of a run asserts it.
Assumptions == MaxRuns \in Nat /\ MaxRaces \in Nat

VARIABLES
    row,        \* the row of mcp_invocation_audit_records
    copy,       \* the API process's copy: mcpInvocationAuditRecords
    call,       \* what each call does, and what it is about to save
    artifacts,  \* executions whose artifact is stored
    runs,       \* executions so far
    answered,   \* what the last call to end was answered
    races       \* calls that overlapped another, failed in a save or were cut off

vars == <<row, copy, call, artifacts, runs, answered, races>>

None == "none"
\* Requests that use the id: two the policy of their job permits, one it does not.
Request == {"first", "second", "forbidden"}
Result == [status : {"pending", "denied", "ok", "unavailable", "error"},
           run : 0 .. MaxRuns, refers : BOOLEAN]
Record == [request : Request, result : Result]
NoRecord == [request |-> None]
Idle == [op |-> None]
Step == {"auditing", "saving", "caching", "executing", "storing", "reporting", "replaying"}

TypeOK ==
    /\ row \in Record \cup {NoRecord} /\ copy \in Record \cup {NoRecord}
    /\ \A c \in McpCall :
        \/ call[c] = Idle
        \/ /\ call[c].op \in Step
           /\ call[c].record \in Record \cup {NoRecord}
           /\ call[c].execute \in BOOLEAN
    /\ artifacts \subseteq 1 .. MaxRuns /\ runs \in 0 .. MaxRuns
    /\ answered \in Result \cup {Idle}
    /\ races \in 0 .. MaxRaces

Init ==
    /\ row = NoRecord /\ copy = NoRecord
    /\ call = [c \in McpCall |-> Idle]
    /\ artifacts = {} /\ runs = 0
    /\ answered = Idle /\ races = 0

-----------------------------------------------------------------------------
Busy == \E c \in McpCall : call[c] # Idle

Begin(c, step) ==
    /\ call[c] = Idle
    /\ call' = [call EXCEPT ![c] = step]
    /\ IF Busy THEN races < MaxRaces /\ races' = races + 1 ELSE races' = races

Goto(c, op) == call' = [call EXCEPT ![c].op = op]

Answer(c, result) ==
    /\ call' = [call EXCEPT ![c] = Idle]
    /\ answered' = result

\* authorizeMcpInvocation and mcpAuthorizationResult: what is recorded of a
\* call before it is executed.
authorize(request) ==
    [status |-> IF request = "forbidden" THEN "denied" ELSE "pending", run |-> 0, refers |-> FALSE]

\* A call for authorization only, or for execution, passes the checks on its job.
ask(c, request, execute) ==
    /\ Begin(c, [op |-> "auditing", execute |-> execute,
                 record |-> [request |-> request, result |-> authorize(request)]])
    /\ UNCHANGED <<row, copy, artifacts, runs, answered>>

\* The audit log says mcp.invocation.authorized or mcp.invocation.denied.
auditAuthorization(c) ==
    /\ call[c].op = "auditing"
    /\ Goto(c, "saving")
    /\ UNCHANGED <<row, copy, artifacts, runs, answered, races>>

\* Mutant: on conflict do nothing.
insertOnly(record) == IF row = NoRecord THEN record ELSE row

\* persistMcpInvocationAuditRecord: the row of an id that is asked again keeps
\* its first request and gets the new result.
upsert(record) == IF row = NoRecord THEN record ELSE [row EXCEPT !.result = record.result]

saveRow(c) ==
    /\ call[c].op = "saving"
    /\ row' = upsert(call[c].record)
    /\ Goto(c, "caching")
    /\ UNCHANGED <<copy, artifacts, runs, answered, races>>

\* saveMcpInvocationAuditRecord goes on: the copy is replaced.  A denied call,
\* and one for authorization only, is answered.
saveCopy(c) ==
    /\ call[c].op = "caching"
    /\ copy' = call[c].record
    /\ LET result == call[c].record.result IN
        IF result.status = "pending" /\ call[c].execute
        THEN Goto(c, "executing") /\ UNCHANGED answered
        ELSE IF result.status \in {"pending", "denied"}
        THEN Answer(c, result)
        ELSE Goto(c, "reporting") /\ UNCHANGED answered
    /\ UNCHANGED <<row, artifacts, runs, races>>

\* The executor answers: a result, with or without an artifact, a refusal, or
\* that the tool is not available, which a timeout or a lost answer counts as.
execute(c) ==
    /\ call[c].op = "executing" /\ runs < MaxRuns
    /\ runs' = runs + 1
    /\ \E status \in {"ok", "unavailable", "error"}, refers \in BOOLEAN :
        /\ refers => status = "ok"
        /\ call' = [call EXCEPT ![c].op = IF refers THEN "storing" ELSE "saving",
                       ![c].record.result = [status |-> status, run |-> runs', refers |-> refers]]
    /\ UNCHANGED <<row, copy, artifacts, answered, races>>

\* persistMcpCapabilityArtifacts: the result refers to what it stored.
storeArtifact(c) ==
    /\ call[c].op = "storing"
    /\ artifacts' = artifacts \cup {call[c].record.result.run}
    /\ Goto(c, "saving")
    /\ UNCHANGED <<row, copy, runs, answered, races>>

\* The audit log says mcp.invocation.executed or mcp.invocation.unavailable, a
\* warning is published in the latter case, and the call is answered.
reportExecution(c) ==
    /\ call[c].op = "reporting"
    /\ Answer(c, call[c].record.result)
    /\ UNCHANGED <<row, copy, artifacts, runs, races>>

\* A save or the artifact store throws: the call fails where it is.
failCall(c) ==
    /\ call[c].op \in {"auditing", "saving", "storing", "reporting"}
    /\ races < MaxRaces
    /\ races' = races + 1
    /\ call' = [call EXCEPT ![c] = Idle]
    /\ UNCHANGED <<row, copy, artifacts, runs, answered>>

\* replayMcpInvocation: the process's copy answers, or else the row, which
\* becomes the copy when it has been read.
replay(c) ==
    /\ copy = NoRecord /\ row # NoRecord
    /\ Begin(c, [op |-> "replaying", record |-> row, execute |-> FALSE])
    /\ UNCHANGED <<row, copy, artifacts, runs, answered>>

cacheReplayed(c) ==
    /\ call[c].op = "replaying"
    /\ copy' = call[c].record
    /\ call' = [call EXCEPT ![c] = Idle]
    /\ UNCHANGED <<row, artifacts, runs, answered, races>>

\* The API process dies and starts again: it loads the rows.
restart ==
    /\ IF Busy THEN races < MaxRaces /\ races' = races + 1 ELSE races' = races
    /\ call' = [c \in McpCall |-> Idle]
    /\ copy' = row
    /\ UNCHANGED <<row, artifacts, runs, answered>>

Next ==
    \/ restart
    \/ \E c \in McpCall :
        \/ \E request \in Request, execution \in BOOLEAN : ask(c, request, execution)
        \/ auditAuthorization(c) \/ saveRow(c) \/ saveCopy(c)
        \/ execute(c) \/ storeArtifact(c) \/ reportExecution(c) \/ failCall(c)
        \/ replay(c) \/ cacheReplayed(c)

Spec == Init /\ [][Next]_vars

-----------------------------------------------------------------------------
(* Properties.                                                             *)

\* What a replay would answer.
Replayed == IF copy # NoRecord THEN copy ELSE row

\* As long as no two calls overlap and none fails or is cut off, a replay
\* answers what the last call was answered, also when the id was asked before
\* and when the process has started again since (service.ts:1022-1176); and
\* whatever happens an artifact that a record refers to is stored (:1100; a
\* stored artifact may be left without a record).
ReplayIsTheAnswer ==
    /\ races = 0 /\ ~Busy /\ answered # Idle => Replayed.result = answered
    /\ \A record \in {row, copy} \ {NoRecord} :
          record.result.refers => record.result.run \in artifacts

\* A record's result is of the request it shows.  It does not hold: the row of
\* an id that is asked again keeps its first request, and shows it with the
\* new result when it is loaded (postgresRepository.ts:2639).
RecordIsOneRequest ==
    Replayed # NoRecord => (Replayed.result.status = "denied") = (Replayed.request = "forbidden")
=============================================================================
