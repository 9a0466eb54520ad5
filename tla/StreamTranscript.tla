--------------------------- MODULE StreamTranscript ---------------------------
(***************************************************************************)
(* The response of one stream of the runtime adapter (handleStream in      *)
(* apps/runtime-adapter/src/app.ts): the lines written while a backend     *)
(* works in the workspace of a lane and a watcher reads that workspace,    *)
(* what an execution's answer or failure becomes, the page that is read    *)
(* at the end, and the status that a refine operation keeps of it.         *)
(* RuntimeAdapter has the leases, saves and restarts around it: here lanes *)
(* are there or not, and a switch of lanes is one step.                    *)
(***************************************************************************)
EXTENDS Integers, SequencesExt

CONSTANTS
    Lane,
    RootOf,             \* lane -> the workspace of the variation on it
    LaneRetries,        \* laneRetryAttempts
    CapacityRetries,    \* executeRetryAttempts
    MaxDrafts           \* path -> times an execution writes it


VARIABLES
    mode,       \* a spawn or a refine
    operation,  \* status and workspace of the refine operation
    serve,      \* the handler: its await, its lane and its attempts
    execs,      \* the executions that backends were asked for
    files,      \* workspace -> path -> what is written there
    watcher,    \* the workspace watcher
    lines       \* the NDJSON lines of the response

transcriptVars == <<mode, operation, serve, execs, files, watcher, lines>>

Root == {RootOf[l] : l \in Lane}

\* entryCandidates, in their order.
EntryPath == <<"index.html", "dist/index.html">>
Path == ToSet(EntryPath)

\* What the module assumes of its constants; the module of a run asserts it.
Assumptions ==
    /\ Lane # {} /\ LaneRetries \in Nat /\ CapacityRetries \in Nat
    /\ MaxDrafts \in [Path -> Nat \ {0}]

\* A content is told by the execution that wrote it.
Content == [by : Nat, draft : Nat]
NoFile == [by |-> 0, draft |-> 0]
Earlier == [by |-> 0, draft |-> 1]
NoFiles == [p \in Path |-> NoFile]

\* Events of an execution: text, an error with and without a code, another event
\* at level error, and one whose path is outside of the workspace.
Transcript == {<<"text">>, <<"error", "text">>, <<"bare">>, <<"logged">>, <<"elsewhere", "error">>}
Answer == [success : BOOLEAN, events : Transcript]
Thrown == [success |-> FALSE, events |-> <<"thrown">>]
failedExecutionResponse == [success |-> FALSE, events |-> <<"error">>]

Line(type, path, content) == [type |-> type, path |-> path, content |-> content]
Notice(type) == Line(type, "", NoFile)
NdjsonLine ==
    [type : {"runtime_lane_assigned", "runtime_lane_retry_started", "runtime_lane_retry_exhausted",
             "assistant_delta", "code_delta", "error", "file_delta", "result"},
     path : Path \cup {""}, content : Content]

TypeOK ==
    /\ mode \in {"spawn", "refine"}
    /\ operation \in [status : {"running", "cancelled", "completed", "failed"}, root : Root]
    /\ serve \in [at : {"executing", "switching", "stopping", "scanning", "reading", "saving", "ended"},
                  lane : Lane, tried : SUBSET Lane, laneAttempt : 0 .. LaneRetries,
                  attempt : 0 .. CapacityRetries,
                  executed : Answer \cup {Thrown, failedExecutionResponse}, last : Seq(NdjsonLine)]
    /\ execs \in Seq([root : Root, state : {"running", "stray", "over"}])
    /\ files \in [Root -> [Path -> Content]]
    /\ watcher \in [root : Root, found : [Path -> Content], shown : [Path -> Content]]
    /\ lines \in Seq(NdjsonLine)

Init ==
    /\ mode \in {"spawn", "refine"}
    /\ \E l \in Lane :
        /\ serve = [at |-> "executing", lane |-> l, tried |-> {l}, laneAttempt |-> 0, attempt |-> 0,
                    executed |-> Thrown, last |-> <<>>]
        /\ execs = <<[root |-> RootOf[l], state |-> "running"]>>
        /\ watcher = [root |-> RootOf[l], found |-> NoFiles, shown |-> NoFiles]
        /\ operation = [status |-> "running", root |-> RootOf[l]]
        /\ \E before \in {NoFile, Earlier} :
            files = [r \in Root |-> [p \in Path |->
                        IF r = RootOf[l] /\ p = "index.html" THEN before ELSE NoFile]]
    /\ lines = <<Notice("runtime_lane_assigned"), Notice("assistant_delta")>>

-----------------------------------------------------------------------------
(* Backends.                                                               *)

\* A backend writes, also one whose answer nobody waits for any more.
writeFile(n, p) ==
    LET old == files[execs[n].root][p]
        new == IF old.by = n THEN [old EXCEPT !.draft = @ + 1] ELSE [by |-> n, draft |-> 1]
    IN  /\ execs[n].state \in {"running", "stray"} /\ new.draft <= MaxDrafts[p]
        /\ files' = [files EXCEPT ![execs[n].root][p] = new]
        /\ UNCHANGED <<mode, operation, serve, execs, watcher, lines>>

-----------------------------------------------------------------------------
(* The workspace watcher.                                                  *)

\* The files that are there.
readWorkspaceCodeFiles(root) == files[root]

\* One timer tick while no scan runs; reading takes a while.
runScan ==
    /\ serve.at \in {"executing", "switching"} /\ watcher.found = NoFiles
    /\ readWorkspaceCodeFiles(watcher.root) # NoFiles
    /\ watcher' = [watcher EXCEPT !.found = readWorkspaceCodeFiles(watcher.root)]
    /\ UNCHANGED <<mode, operation, serve, execs, files, lines>>

\* The line of a file that the watcher has not shown like this.
CodeDelta(p) ==
    IF watcher.found[p] \in {NoFile, watcher.shown[p]} THEN <<>>
    ELSE <<Line("code_delta", p, watcher.found[p])>>

\* In the order of listWorkspaceCodePaths: index.html comes first.
CodeDeltas == CodeDelta(EntryPath[1]) \o CodeDelta(EntryPath[2])

Shown == [p \in Path |-> IF watcher.found[p] = NoFile THEN watcher.shown[p] ELSE watcher.found[p]]

scan ==
    /\ watcher.found # NoFiles /\ serve.at # "scanning"
    /\ lines' = lines \o CodeDeltas
    /\ watcher' = [watcher EXCEPT !.found = NoFiles, !.shown = Shown]
    /\ UNCHANGED <<mode, operation, serve, execs, files>>

\* Mutant: a scan that is still reading is taken for the last one.
stopWithRunning ==
    /\ serve.at = "stopping"
    /\ serve' = [serve EXCEPT !.at = "scanning"]
    /\ watcher' = IF watcher.found # NoFiles THEN watcher
                  ELSE [watcher EXCEPT !.found = readWorkspaceCodeFiles(watcher.root)]
    /\ UNCHANGED <<mode, operation, execs, files, lines>>

\* The timer is cleared, a scan under way awaited, and a last one begun.
stop ==
    /\ serve.at = "stopping" /\ watcher.found = NoFiles
    /\ serve' = [serve EXCEPT !.at = "scanning"]
    /\ watcher' = [watcher EXCEPT !.found = readWorkspaceCodeFiles(watcher.root)]
    /\ UNCHANGED <<mode, operation, execs, files, lines>>

-----------------------------------------------------------------------------
(* The execution and its attempts.                                         *)

Errors(events) == {i \in DOMAIN events : events[i] \in {"error", "bare", "logged"}}

\* The code of the last error, or the one for executions without any.
summarizeExecutionFailure(events) ==
    IF \E i \in Errors(events) : events[i] # "bare" /\ \A j \in Errors(events) : j <= i
    THEN "RUN_FAILED" ELSE "EXECUTION_FAILED"

executionEventsIncludeError(events, code) ==
    code = "RUN_FAILED" /\ \E i \in DOMAIN events : events[i] = "error"

runtimeCwdDrift(events) == \E i \in DOMAIN events : events[i] = "elsewhere"

\* 429, 408 or 5xx (here a timeout) are worth another lane, and so is an execution that failed.
runtimeLaneRetryReason(status) == status \in {"capacity", "timeout", "failed"}

\* Another lane is asked for, or the stream ends with givenUp.
RetryLane(status, givenUp) ==
    IF runtimeLaneRetryReason(status) /\ mode = "spawn" /\ serve.laneAttempt < LaneRetries
    THEN /\ serve' = [serve EXCEPT !.at = "switching", !.executed = givenUp]
         /\ UNCHANGED lines
    ELSE /\ serve' = [serve EXCEPT !.at = "stopping", !.executed = givenUp]
         /\ lines' = lines \o IF runtimeLaneRetryReason(status)
                              THEN <<Notice("runtime_lane_retry_exhausted")>> ELSE <<>>

executed(answer) ==
    /\ serve.at = "executing"
    /\ execs' = [execs EXCEPT ![Len(execs)].state = "over"]
    /\ IF ~answer.success /\ mode = "spawn"
       THEN RetryLane("failed", failedExecutionResponse)
       ELSE serve' = [serve EXCEPT !.at = "stopping", !.executed = answer] /\ UNCHANGED lines
    /\ UNCHANGED <<mode, operation, files, watcher>>

\* The backend is full: a refused request has started, and written, nothing.
executeWithCapacityRetry ==
    /\ serve.at = "executing" /\ \A p \in Path : files[RootOf[serve.lane]][p].by # Len(execs)
    /\ IF serve.attempt < CapacityRetries
       THEN serve' = [serve EXCEPT !.attempt = @ + 1] /\ UNCHANGED <<execs, lines>>
       ELSE /\ execs' = [execs EXCEPT ![Len(execs)].state = "over"]
            /\ RetryLane("capacity", Thrown)
    /\ UNCHANGED <<mode, operation, files, watcher>>

\* The request is cut off or fails on its way: the backend may go on.
requestFails(status) ==
    /\ serve.at = "executing"
    /\ execs' = [execs EXCEPT ![Len(execs)].state = "stray"]
    /\ RetryLane(status, Thrown)
    /\ UNCHANGED <<mode, operation, files, watcher>>

\* The next lane, a session on it and its workspace; the watcher stays.
switchLane(l) ==
    /\ serve.at = "switching" /\ l \notin serve.tried
    /\ serve' = [serve EXCEPT !.at = "executing", !.lane = l, !.tried = @ \cup {l},
                              !.laneAttempt = @ + 1, !.attempt = 0]
    /\ execs' = Append(execs, [root |-> RootOf[l], state |-> "running"])
    /\ lines' = lines \o <<Notice("runtime_lane_retry_started"), Notice("runtime_lane_assigned")>>
    /\ UNCHANGED <<mode, operation, files, watcher>>

\* No lane is free in time, or its workspace or session cannot be made.
switchFails(acquired) ==
    /\ serve.at = "switching"
    /\ serve' = [serve EXCEPT !.at = "stopping", !.executed = IF acquired THEN Thrown ELSE @]
    /\ lines' = lines \o IF acquired THEN <<>> ELSE <<Notice("runtime_lane_retry_exhausted")>>
    /\ UNCHANGED <<mode, operation, execs, files, watcher>>

-----------------------------------------------------------------------------
(* The end of the response.                                                *)

\* An event's line, if it has one.
normalizeTranscriptEvent(event) ==
    CASE event = "text" -> <<Notice("assistant_delta")>>
      [] event \in {"error", "bare"} -> <<Notice("error")>>
      [] OTHER -> <<>>

\* A transcript has one event or two.
TranscriptLines(events) ==
    normalizeTranscriptEvent(events[1])
        \o IF Len(events) = 2 THEN normalizeTranscriptEvent(events[2]) ELSE <<>>

\* The operation's status comes first, unless it was cancelled, then the line.
updateRefineOperationForStream(status) ==
    operation' = IF mode = "refine" /\ operation.status # "cancelled"
                 THEN [status |-> status, root |-> RootOf[serve.lane]] ELSE operation

OwnError(answer) ==
    IF ~runtimeCwdDrift(answer.events) /\ answer # Thrown
       /\ executionEventsIncludeError(answer.events, summarizeExecutionFailure(answer.events))
    THEN <<>> ELSE <<Notice("error")>>

\* The last scan ends and the transcript is written out.
lastScan ==
    LET answer == serve.executed
        failed == runtimeCwdDrift(answer.events) \/ ~answer.success
    IN  /\ serve.at = "scanning"
        /\ lines' = lines \o CodeDeltas \o TranscriptLines(answer.events)
        /\ watcher' = [watcher EXCEPT !.found = NoFiles, !.shown = Shown]
        /\ IF failed
           THEN /\ serve' = [serve EXCEPT !.at = "saving", !.last = OwnError(answer)]
                /\ updateRefineOperationForStream("failed")
           ELSE serve' = [serve EXCEPT !.at = "reading"] /\ UNCHANGED operation
        /\ UNCHANGED <<mode, execs, files>>

\* The first candidate that is there.
readWorkspaceArtifact(root) ==
    LET entry == IF files[root][EntryPath[1]] # NoFile THEN EntryPath[1] ELSE EntryPath[2]
    IN  [path |-> entry, content |-> files[root][entry]]

artifactOfStream == readWorkspaceArtifact(RootOf[serve.lane])

readArtifact ==
    LET artifact == artifactOfStream
    IN  /\ serve.at = "reading"
        /\ IF artifact.content = NoFile
           THEN /\ serve' = [serve EXCEPT !.at = "saving", !.last = <<Notice("error")>>]
                /\ updateRefineOperationForStream("failed") /\ UNCHANGED lines
           ELSE /\ serve' = [serve EXCEPT !.at = "saving",
                                          !.last = <<Line("result", artifact.path, artifact.content)>>]
                /\ updateRefineOperationForStream("completed")
                /\ lines' = Append(lines, Line("file_delta", artifact.path, artifact.content))
        /\ UNCHANGED <<mode, execs, files, watcher>>

end ==
    /\ serve.at = "saving"
    /\ lines' = lines \o serve.last
    /\ serve' = [serve EXCEPT !.at = "ended"]
    /\ UNCHANGED <<mode, operation, execs, files, watcher>>

cancelAgents ==
    /\ mode = "refine" /\ operation.status = "running"
    /\ operation' = [operation EXCEPT !.status = "cancelled"]
    /\ UNCHANGED <<mode, serve, execs, files, watcher, lines>>

Next ==
    \/ \E n \in DOMAIN execs, p \in Path : writeFile(n, p)
    \/ runScan \/ scan \/ stop \/ lastScan \/ readArtifact \/ end \/ cancelAgents
    \/ \E answer \in Answer : executed(answer)
    \/ executeWithCapacityRetry
    \/ \E status \in {"timeout", "other"} : requestFails(status)
    \/ \E l \in Lane : switchLane(l)
    \/ \E acquired \in BOOLEAN : switchFails(acquired)

Spec == Init /\ [][Next]_transcriptVars

-----------------------------------------------------------------------------
(* Properties.                                                             *)

\* What the gateway's adapter makes of the lines that decide about a variation.
toDesignEvent(line) ==
    CASE line.type = "result" -> "completed"
      [] line.type = "error" -> "failed"
      [] OTHER -> "progress"

Decisions == {i \in DOMAIN lines : toDesignEvent(lines[i]) # "progress"}

\* What GET /refine-operation answers of an operation that has ended.
handleRefineOperation ==
    IF operation.status # "completed" THEN NoFile ELSE readWorkspaceArtifact(operation.root).content

\* No two lanes keep the variation in one directory.
OwnWorkspaces == \A l, m \in Lane : RootOf[l] = RootOf[m] => l = m

\* A response that has ended has decided about its variation, for its last
\* word the refine operation says the same, unless it was cancelled, and nothing
\* follows a result.  The result is a page that the execution which succeeded
\* has written or found, never one of an attempt that was given up on a lane with
\* a workspace of its own; it is what a recovery of the operation would read, and,
\* on the lane the stream began on, what the live view showed last.
TranscriptTruthful ==
    LET result == lines[Len(lines)]
    IN  /\ \A i \in DOMAIN lines : lines[i].type = "result" => i = Len(lines)
        /\ serve.at = "ended" =>
            /\ \E i \in Decisions :
                /\ \A j \in Decisions : j <= i
                /\ mode = "refine" /\ operation.status # "cancelled" =>
                    operation.status = toDesignEvent(lines[i])
            /\ result.type = "result" =>
                /\ OwnWorkspaces => result.content.by \in {0, Len(execs)}
                /\ operation.status = "completed" => handleRefineOperation = result.content
                /\ serve.laneAttempt = 0 =>
                    \E i \in DOMAIN lines :
                        /\ lines[i] = Line("code_delta", result.path, result.content)
                        /\ \A j \in i + 1 .. Len(lines) :
                            lines[j].type = "code_delta" => lines[j].path # result.path

\* Refuted: an execution that succeeds after an error reports the error as the
\* variation's failure first, and completes it then.
DecidedOnce == \A i, j \in Decisions : i = j

\* Refuted: a page that was there before is the result of an execution that
\* wrote none, and an execution that wrote dist/index.html has not replaced an
\* older index.html.
ResultIsFresh ==
    \A i \in DOMAIN lines : lines[i].type = "result" => lines[i].content.by = Len(execs)

\* Refuted: the watcher keeps to the workspace of the first lane, so the page of
\* a retry is never seen in the making.
LiveViewFollows ==
    serve.at = "ended" /\ lines[Len(lines)].type = "result" =>
        \E i \in DOMAIN lines :
            lines[i].type = "code_delta" /\ lines[i].content = lines[Len(lines)].content
=============================================================================
