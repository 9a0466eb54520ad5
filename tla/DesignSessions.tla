--------------------------- MODULE DesignSessions ---------------------------
(***************************************************************************)
(* One design session: its row, its runtime session and the home page that *)
(* lists it (apps/api: service.ts, postgresRepository.ts; runtime-gateway: *)
(* babelOClient.ts; runtime-adapter: app.ts; apps/web: app/page.tsx).      *)
(* A submission creates the session and then a job in it; the page resumes,*)
(* renames and deletes it; an administrator's retry adds jobs.  Handlers   *)
(* read the row, wait for the runtime or for other reads, and write the    *)
(* whole row back; only a deletion writes its own columns.                 *)
(***************************************************************************)
EXTENDS Naturals

CONSTANTS
    Handler,      \* requests that the API may be working on at once
    Title,        \* titles a session may be given
    MaxJobs,      \* bound: jobs of the session
    MaxRuntime,   \* bound: runtime sessions made
    MaxChanges,   \* bound: requests of the page once the session has a job
    MaxOverlaps   \* bound: requests that begin during another, or are cut off

\* The title of no session, and the entry of one that is not in the list.
NoTitle == "no title"

\* What the module assumes of its constants; the module of a run asserts it.
Assumptions ==
    /\ NoTitle \notin Title /\ "prompt" \notin Title
    /\ {MaxJobs, MaxRuntime, MaxChanges, MaxOverlaps} \subseteq Nat

VARIABLES
    row,       \* the row of design_sessions
    jobs,      \* number of the session's jobs, the last one is the newest
    made,      \* number of runtime sessions made so far
    live,      \* the runtime sessions that the runtime still knows
    ops,       \* handler -> what it does
    page,      \* the home page: the session's entry in its list, and its state
    decided,   \* the row as the answers to the user would have it
    changes, overlaps

vars == <<row, jobs, made, live, ops, page, decided, changes, overlaps>>

NoSession == [status |-> "none", title |-> NoTitle, prompt |-> 0, runtime |-> 0]
Idle == [op |-> "idle"]
Busy == \E h \in Handler : ops[h] # Idle

TypeOK ==
    /\ row \in [status : {"none", "active", "archived"}, title : Title \cup {NoTitle, "prompt"},
                prompt : 0 .. MaxJobs, runtime : 0 .. MaxRuntime]
    /\ jobs \in 0 .. MaxJobs /\ made \in 0 .. MaxRuntime /\ live \subseteq 1 .. made
    /\ \A h \in Handler :
        ops[h].op \in {"idle", "creating", "filing", "adding", "renaming", "removing",
                       "resuming", "keeping"}
    /\ page.entry \in Title \cup {NoTitle, "prompt"}
    /\ page.status \in {"idle", "submitting", "error"} /\ page.left \in 0 .. MaxJobs

Init ==
    /\ row = NoSession /\ decided = NoSession /\ jobs = 0 /\ made = 0 /\ live = {}
    /\ ops = [h \in Handler |-> Idle]
    /\ page = [entry |-> NoTitle, status |-> "idle", saving |-> FALSE, left |-> 0]
    /\ changes = 0 /\ overlaps = 0

-----------------------------------------------------------------------------
Goto(h, op) == ops' = [ops EXCEPT ![h] = op]

Begin(h, op) ==
    /\ ops[h] = Idle /\ (Busy => overlaps < MaxOverlaps)
    /\ overlaps' = IF Busy THEN overlaps + 1 ELSE overlaps
    /\ Goto(h, op)

\* The runtime's answer to a request for a new session: its number, or none.
NewRuntime(id) ==
    /\ id \in {0, made + 1} /\ id <= MaxRuntime
    /\ made' = IF id = 0 THEN made ELSE id
    /\ live' = IF id = 0 THEN live ELSE live \cup {id}

-----------------------------------------------------------------------------
(* submit: a session, then a job in it.                                    *)

\* createSession inserts the row and asks for a runtime session.
createSession(h) ==
    /\ row = NoSession /\ page.status # "submitting" /\ page.left = 0
    /\ row' = [status |-> "active", title |-> "prompt", prompt |-> 0, runtime |-> 0]
    /\ decided' = row'
    /\ Begin(h, [op |-> "creating", copy |-> row'])
    /\ page' = [page EXCEPT !.status = "submitting"]
    /\ UNCHANGED <<jobs, made, live, changes>>

\* tryCreateRuntimeSession; the row is saved as it was inserted.
saveCreated(h) ==
    /\ ops[h].op = "creating"
    /\ \E id \in 0 .. MaxRuntime :
        /\ NewRuntime(id)
        /\ row' = [ops[h].copy EXCEPT !.runtime = id]
        /\ decided' = [decided EXCEPT !.runtime = id]
    /\ Goto(h, Idle)
    /\ UNCHANGED <<jobs, page, changes, overlaps>>

\* createDesignJobInternal, for the page that submits or an administrator's
\* retry; the session may be archived.
createDesignJob(h, submits) ==
    /\ row # NoSession /\ jobs < MaxJobs
    /\ IF submits THEN page.status = "submitting" /\ jobs = 0 /\ row.runtime \in {0, made}
                  ELSE jobs > 0
    /\ \A g \in Handler : ops[g].op \notin {"creating", "filing", "adding"}
    /\ Begin(h, [op |-> "filing", copy |-> row, submits |-> submits])
    /\ UNCHANGED <<row, jobs, made, live, page, decided, changes>>

\* Mutant: the session is saved as it was read.
saveJobSessionUnprompted(h) ==
    /\ ops[h].op = "filing"
    /\ row' = ops[h].copy
    /\ decided' = [decided EXCEPT !.prompt = jobs + 1]
    /\ Goto(h, [op |-> "adding", submits |-> ops[h].submits])
    /\ UNCHANGED <<jobs, made, live, page, changes, overlaps>>

\* createJob: the session with the job's prompt, then the job.
saveJobSession(h) ==
    /\ ops[h].op = "filing"
    /\ row' = [ops[h].copy EXCEPT !.prompt = jobs + 1]
    /\ decided' = [decided EXCEPT !.prompt = jobs + 1]
    /\ Goto(h, [op |-> "adding", submits |-> ops[h].submits])
    /\ UNCHANGED <<jobs, made, live, page, changes, overlaps>>

\* The page that submitted goes to the job.
saveJob(h) ==
    /\ ops[h].op = "adding"
    /\ jobs' = jobs + 1
    /\ page' = IF ops[h].submits THEN [page EXCEPT !.status = "idle", !.left = jobs'] ELSE page
    /\ Goto(h, Idle)
    /\ UNCHANGED <<row, made, live, decided, changes, overlaps>>

-----------------------------------------------------------------------------
(* The list of sessions.                                                   *)

\* listSessions shows the active ones.
Listed == IF row.status = "active" THEN row.title ELSE NoTitle

\* The user opens the home page.
openHome ==
    /\ page' = [entry |-> Listed,
                status |-> "idle", saving |-> FALSE, left |-> 0]
    /\ page # page'
    /\ page.status # "submitting" /\ \A h \in Handler : ops[h].op \in {"idle", "filing", "adding"}
    /\ UNCHANGED <<row, jobs, made, live, ops, decided, changes, overlaps>>

\* An entry of the list can be opened, renamed and deleted.
FromPage(h, op) ==
    /\ row.status = "active" /\ page.entry # NoTitle /\ page.left = 0
    /\ changes < MaxChanges /\ changes' = changes + 1
    /\ Begin(h, op)

\* The dialog allows one rename or deletion at a time.
DialogFree == ~page.saving

updateSession(h, title) ==
    /\ DialogFree
    /\ FromPage(h, [op |-> "renaming", copy |-> row, title |-> title])
    /\ page' = [page EXCEPT !.saving = TRUE]
    /\ UNCHANGED <<row, jobs, made, live, decided>>

saveTitle(h) ==
    /\ ops[h].op = "renaming"
    /\ row' = [ops[h].copy EXCEPT !.title = ops[h].title]
    /\ decided' = [decided EXCEPT !.title = ops[h].title]
    /\ page' = [page EXCEPT !.entry = ops[h].title, !.saving = FALSE]
    /\ Goto(h, Idle)
    /\ UNCHANGED <<jobs, made, live, changes, overlaps>>

deleteSession(h) ==
    /\ DialogFree
    /\ FromPage(h, [op |-> "removing"])
    /\ page' = [page EXCEPT !.saving = TRUE]
    /\ UNCHANGED <<row, jobs, made, live, decided>>

archiveSession(h) ==
    /\ ops[h].op = "removing"
    /\ row' = [row EXCEPT !.status = "archived"]
    /\ decided' = [decided EXCEPT !.status = "archived"]
    /\ page' = [page EXCEPT !.entry = NoTitle, !.saving = FALSE]
    /\ Goto(h, Idle)
    /\ UNCHANGED <<jobs, made, live, changes, overlaps>>

\* getSessionSnapshot: the row and the jobs, the newest first.
SessionSnapshot == [op |-> "resuming", copy |-> row, newest |-> jobs]

\* resumeSession of the service: the snapshot, then the runtime.
resumeSession(h) ==
    /\ FromPage(h, SessionSnapshot)
    /\ UNCHANGED <<row, jobs, made, live, page, decided>>

\* The page goes to the newest job of the snapshot, if there is one.
Resumed(h) ==
    page' = [page EXCEPT !.left = IF page.left = 0 THEN ops[h].newest ELSE @]

\* resumeSession of the client: a runtime session that the runtime knows is
\* resumed, otherwise another one is made; or the runtime is not there.
runtimeResumed(h) ==
    /\ ops[h].op = "resuming"
    /\ \E id \in 0 .. MaxRuntime :
        LET same == id = ops[h].copy.runtime
        IN  /\ IF same THEN id \in live /\ UNCHANGED <<made, live>> ELSE NewRuntime(id)
            /\ IF id = 0 \/ same THEN Goto(h, Idle) /\ Resumed(h)
               ELSE Goto(h, [ops[h] EXCEPT !.op = "keeping", !.copy.runtime = id])
                    /\ UNCHANGED page
    /\ UNCHANGED <<row, jobs, decided, changes, overlaps>>

saveResumed(h) ==
    /\ ops[h].op = "keeping"
    /\ row' = ops[h].copy
    /\ decided' = [decided EXCEPT !.runtime = ops[h].copy.runtime]
    /\ Resumed(h) /\ Goto(h, Idle)
    /\ UNCHANGED <<jobs, made, live, changes, overlaps>>

-----------------------------------------------------------------------------
\* The API process starts again; the calls of the page fail.  A submission
\* that failed can be repeated, with a session of its own.
restart ==
    /\ Busy /\ overlaps < MaxOverlaps /\ overlaps' = overlaps + 1
    /\ ops' = [h \in Handler |-> Idle]
    /\ page' = [page EXCEPT !.saving = FALSE, !.status = IF @ = "submitting" THEN "error" ELSE @]
    /\ UNCHANGED <<row, jobs, made, live, decided, changes>>

\* The backend lost its sessions.
runtimeForgets ==
    /\ live # {} /\ live' = {}
    /\ UNCHANGED <<row, jobs, made, ops, page, decided, changes, overlaps>>

Next ==
    \/ openHome \/ restart \/ runtimeForgets
    \/ \E h \in Handler :
        \/ createSession(h) \/ saveCreated(h)
        \/ \E submits \in BOOLEAN : createDesignJob(h, submits)
        \/ saveJobSession(h) \/ saveJob(h)
        \/ \E title \in Title : updateSession(h, title)
        \/ saveTitle(h) \/ deleteSession(h) \/ archiveSession(h)
        \/ resumeSession(h) \/ runtimeResumed(h) \/ saveResumed(h)

Spec == Init /\ [][Next]_vars

-----------------------------------------------------------------------------
(* Properties.                                                             *)

\* As long as no two requests overlap and none is cut off, the row is what the
\* answers said, its prompt is that of the newest job, and the home page lists
\* the session exactly as it is stored.
LastWordStands ==
    overlaps = 0 /\ ~Busy =>
        /\ row = decided /\ row.prompt = jobs
        /\ page.entry # NoTitle => page.entry = row.title /\ row.status = "active"

\* A deleted session stays deleted.  It does not hold: a resume that waits for
\* the runtime meanwhile saves the row it read (service.ts:815).
DeletedStays == decided.status = "archived" /\ ~Busy => row.status = "archived"
=============================================================================
