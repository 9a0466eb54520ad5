-------------------------- MODULE PostgresRepository --------------------------
(***************************************************************************)
(* PostgresRepository (apps/api/src/postgresRepository.ts), the repository *)
(* that production runs on, with the twin that a test would have in its    *)
(* place: the same calls change the tables of the database and the maps of *)
(* an InMemoryStore.  A write is the statement that it executes, with the  *)
(* columns that a conflict updates; queries are what their SQL selects.    *)
(* Usage events and audit logs are answered from copies that a process     *)
(* keeps, and fills again when it starts.  Calls are made one after the    *)
(* other; that handlers may overlap is the subject of other modules.       *)
(***************************************************************************)
EXTENDS Integers, FiniteSetsExt, SequencesExt, TLC

CONSTANTS Process, Api, UsageLimit, None, MaxWrites

VARIABLES
    db,         \* table -> its rows
    copies,     \* process -> the usage events and the audit logs it knows
    store,      \* the twin: the maps of an InMemoryStore
    now         \* the clock

repositoryVars == <<db, copies, store, now>>

Store == INSTANCE InMemoryStore

Assumptions == Api \in Process /\ UsageLimit \in Nat \ {0} /\ MaxWrites \in Nat

-----------------------------------------------------------------------------
(* Statements.                                                             *)

\* insert ... on conflict do update set these columns.
Upserted(rows, row, columns) ==
    IF \E r \in rows : r.id = row.id
    THEN {IF r.id = row.id THEN [c \in DOMAIN r |-> IF c \in columns THEN row[c] ELSE r[c]] ELSE r : r \in rows}
    ELSE rows \cup {row}

persistUser(d, user) == [d EXCEPT !.users = Upserted(@, user, {"email", "status", "namespace"})]
persistWorkspace(d, workspace) == [d EXCEPT !.workspaces = Upserted(@, workspace, {"owner"})]
persistSession(d, session) ==
    [d EXCEPT !.sessions = Upserted(@, session, {"title", "runtime", "status", "prompt", "updated"})]
persistJob(d, job) ==
    [d EXCEPT !.jobs = Upserted(@, job, {"requirements", "status", "started", "completed", "updated"})]

\* Mutant: a column that is missing from the statement's update.
persistVariationUnseen(d, variation) ==
    [d EXCEPT !.variations = Upserted(@, variation, {"status", "current", "preview", "cost", "error", "updated"})]

persistVariation(d, variation) ==
    [d EXCEPT !.variations =
        Upserted(@, variation, {"status", "current", "preview", "screenshot", "cost", "error", "updated"})]
persistArtifact(d, artifact) == [d EXCEPT !.artifacts = Upserted(@, artifact, {"path", "content"})]
persistShare(d, share) == [d EXCEPT !.shares = Upserted(@, share, {"revoked"})]
persistMessage(d, message) == [d EXCEPT !.messages = Upserted(@, message, {})]
persistDesignEvent(d, event) == [d EXCEPT !.events = @ \cup {event}]
persistAuditLog(d, entry) == [d EXCEPT !.audits = Upserted(@, entry, {})]
persistUsageEvent(d, event) ==
    [d EXCEPT !.usage = IF \E e \in @ : e.key = event.key THEN @ ELSE @ \cup {event}]

\* select ... where id = $1, and what is made of the row (mapSession and its like).
Selected(rows, id) == IF \E r \in rows : r.id = id THEN CHOOSE r \in rows : r.id = id ELSE None
NextId(rows) == Cardinality(rows) + 1

-----------------------------------------------------------------------------
(* A database in use: two users, a session of each, a job of the first     *)
(* with two variations, the first of them completed with a page and an     *)
(* asset.                                                                  *)

Nothing == [users |-> <<>>, workspaces |-> <<>>, sessions |-> <<>>, jobs |-> <<>>, variations |-> <<>>,
            artifacts |-> <<>>, shares |-> <<>>, usage |-> <<>>, messages |-> <<>>, events |-> <<>>, audits |-> <<>>]

Seeded ==
    LET u == Store!createUserWithWorkspace(Store!createUserWithWorkspace(Nothing, 3), 1)
        s == Store!createSession(Store!createSession(u, 1, 1), 2, 2)
        j == Store!createJob(s, s.sessions[1], 3, 3)
        v == Store!createVariations(j, j.jobs[1], 2, 4)
        a == Store!createMockArtifact(v, v.variations[1], None, 5)
        c == Store!applyVariationEvent(a, 1, [status |-> "completed", current |-> 1, preview |-> 1, cost |-> 2], 6)
    IN  Store!createArtifact(c, 1, 1, 1, "asset", 7)

Init ==
    /\ store = Seeded
    /\ db = [table \in DOMAIN Seeded |-> ToSet(Seeded[table])]
    /\ copies = [p \in Process |-> [usage |-> <<>>, audits |-> <<>>]]
    /\ now = 8

-----------------------------------------------------------------------------
(* Calls.                                                                  *)

\* A call changes the database like this and the twin like that.
Writes(d, m) ==
    /\ now < 8 + MaxWrites /\ now' = now + 1
    /\ db' = d /\ store' = m

Call(d, m) == Writes(d, m) /\ UNCHANGED copies

createUserWithWorkspace(email) ==
    LET id == NextId(db.users)
    IN  /\ \A u \in db.users : u.email # email
        /\ Call(persistWorkspace(persistUser(db, Store!NewUser(id, email)), Store!NewWorkspace(id, id)),
                Store!createUserWithWorkspace(store, email))

updateUserStatus(user, status) ==
    Call([db EXCEPT !.users = {IF u.id = user THEN [u EXCEPT !.status = status] ELSE u : u \in @}],
         Store!updateUserStatus(store, user, status))

createSession(user) ==
    Call(persistSession(db, Store!NewSession(NextId(db.sessions), user, now)), Store!createSession(store, user, now))

\* Renamed, prompted or resumed by the service.
saveSession(session, change) ==
    LET saved == change @@ [updated |-> now] @@ session
    IN  Call(persistSession(db, saved), Store!saveSession(store, saved))

archiveSession(session) ==
    Call([db EXCEPT !.sessions = {IF s.id = session THEN [s EXCEPT !.status = "archived", !.updated = now] ELSE s : s \in @}],
         Store!archiveSession(store, session, now))

appendMessage(session) ==
    LET message == [id |-> NextId(db.messages), session |-> session, created |-> now]
    IN  Call(persistMessage(db, message), Store!appendMessage(store, message))

createJob(session) ==
    Call(persistJob(persistSession(db, [session EXCEPT !.prompt = now, !.updated = now]),
                    Store!NewJob(NextId(db.jobs), session, now, now)),
         Store!createJob(store, session, now, now))

updateJobTemplateRequirements(job) ==
    Call(persistJob(db, [Selected(db.jobs, job) EXCEPT !.requirements = now, !.updated = now]),
         Store!updateJobTemplateRequirements(store, job, now, now))

createVariations(job, count) ==
    LET rows == [i \in 1 .. count |-> Store!NewVariation(NextId(db.variations) + i - 1, job, i, now)]
    IN  /\ \A v \in db.variations : v.job # job.id
        /\ Call(FoldLeft(persistVariation, db, rows), Store!createVariations(store, job, count, now))

setJobStatus(job, status) ==
    Call(persistJob(db, Store!WithStatus(Selected(db.jobs, job), status, now)),
         Store!setJobStatus(store, job, status, now))

applyVariationEvent(variation, event) ==
    Call(persistVariation(db, event @@ [updated |-> now] @@ Selected(db.variations, variation)),
         Store!applyVariationEvent(store, variation, event, now))

setVariationCurrentArtifact(variation, artifact, preview) ==
    Call(persistVariation(db, [Selected(db.variations, variation) EXCEPT !.current = artifact, !.preview = preview,
                                                                         !.updated = now]),
         Store!setVariationCurrentArtifact(store, variation, artifact, preview, now))

createMockArtifact(variation, parent) ==
    LET versions == {a.version : a \in {b \in db.artifacts : b.variation = variation.id /\ b.kind = "html"}}
    IN  Call(persistArtifact(db, Store!NewArtifact(NextId(db.artifacts), variation.session, variation.id, parent,
                                                   "html", Max(versions \cup {0}) + 1, now)),
             Store!createMockArtifact(store, variation, parent, now))

createArtifact(session, variation, parent, kind) ==
    Call(persistArtifact(db, Store!NewArtifact(NextId(db.artifacts), session, variation, parent, kind, 1, now)),
         Store!createArtifact(store, session, variation, parent, kind, now))

saveArtifact(artifact) ==
    LET saved == [artifact EXCEPT !.content = now]
    IN  Call(persistArtifact(db, saved), Store!saveArtifact(store, saved))

createShare(artifact, owner) ==
    Call(persistShare(db, Store!NewShare(NextId(db.shares), artifact, owner, now)),
         Store!createShare(store, artifact, owner, now))

revokeShare(share) ==
    Call(persistShare(db, [Selected(db.shares, share) EXCEPT !.revoked = now]), Store!revokeShare(store, share, now))

\* What was there under the key already is what the copy gets.
createUsageEvent(p, key, user, cost) ==
    LET event == [key |-> key, user |-> user, cost |-> cost, created |-> now]
        persisted == CHOOSE e \in persistUsageEvent(db, event).usage : e.key = key
        known == {i \in DOMAIN copies[p].usage : copies[p].usage[i].key = key}
    IN  /\ Writes(persistUsageEvent(db, event), Store!createUsageEvent(store, event))
        /\ copies' = [copies EXCEPT ![p].usage =
                        IF known = {} THEN Append(@, persisted) ELSE [@ EXCEPT ![Min(known)] = persisted]]

\* An event has the time of the clock that made it, which may be the runtime's.
appendDesignEvent(job, at) ==
    LET event == [id |-> NextId(db.events), job |-> job, at |-> at]
    IN  Call(persistDesignEvent(db, event), Store!appendDesignEvent(store, event))

createAuditLog ==
    LET entry == [id |-> NextId(db.audits), created |-> now]
    IN  /\ Writes(persistAuditLog(db, entry), Store!createAuditLog(store, entry))
        /\ copies' = [copies EXCEPT ![Api].audits = Append(@, entry)]

InOrder(rows) == SetToSortSeq(rows, LAMBDA a, b : a.created < b.created)

\* A process starts (again) and fills its copies; the twin's goes on.  The copies of
\* other tables answer no query of this module.
hydrate(p) ==
    /\ copies' = [copies EXCEPT ![p] = [usage |-> InOrder(db.usage), audits |-> InOrder(db.audits)]]
    /\ copies' # copies
    /\ UNCHANGED <<db, store, now>>

-----------------------------------------------------------------------------
(* Queries.                                                                *)

OrderedBy(rows, Before(_, _)) == SetToSortSeq(rows, Before)
NewestOf(rows) == OrderedBy(rows, LAMBDA a, b : a.created > b.created)
FirstOf(rows) == IF rows = <<>> THEN None ELSE rows[1]

getSessionSnapshot(session) ==
    LET jobs == {j \in db.jobs : j.session = session}
    IN  [session |-> Selected(db.sessions, session), jobs |-> jobs,
         variations |-> {v \in db.variations : \E j \in db.jobs : j.id = v.job /\ j.session = session},
         messages |-> InOrder({x \in db.messages : x.session = session}),
         artifacts |-> {a \in db.artifacts :
                            a.session = session \/ \E v \in db.variations : v.id = a.variation /\ v.session = session}]

getJobSnapshot(id) ==
    LET job == Selected(db.jobs, id)
    IN  [job |-> job, variations |-> {v \in db.variations : v.job = id},
         messages |-> InOrder({x \in db.messages : x.session = job.session}),
         artifacts |-> {a \in db.artifacts : \E v \in db.variations : v.id = a.variation /\ v.job = id}]

getVariationDetailSnapshot(variation) ==
    LET v == Selected(db.variations, variation)
        artifacts == OrderedBy({a \in db.artifacts : a.variation = variation},
                               LAMBDA a, b : \/ a.version > b.version
                                             \/ a.version = b.version /\ Store!KindRank(a.kind) < Store!KindRank(b.kind)
                                             \/ /\ a.version = b.version /\ Store!KindRank(a.kind) = Store!KindRank(b.kind)
                                                /\ a.path < b.path)
        listed == Store!Find(artifacts, LAMBDA a : IF v.current = None THEN a.kind = "html" ELSE a.id = v.current)
    IN  [variation |-> v, job |-> Selected(db.jobs, v.job), artifacts |-> artifacts,
         current |-> IF v.current # None /\ listed = None THEN Selected(db.artifacts, v.current) ELSE listed]

\* Of columns with one name the last is read: the variation has the id that the
\* artifact has for its own, or none.
getCurrentVariationArtifactSnapshot(variation) ==
    LET v == Selected(db.variations, variation)
        artifact == Selected(db.artifacts, v.current)
    IN  [variation |-> [v EXCEPT !.id = IF artifact = None THEN None ELSE artifact.variation],
         artifactId |-> v.current, artifact |-> artifact,
         mismatch |-> artifact # None /\ artifact.variation # variation]

AssetsOf(variation, parent) ==
    {a \in db.artifacts : a.variation = variation /\ a.parent = parent /\ a.kind = "asset"}

getVariationAssetArtifacts(variation, parent) ==
    OrderedBy(AssetsOf(variation, parent), LAMBDA a, b : a.path < b.path)

getVariationAssetArtifact(variation, parent, path) ==
    FirstOf(SetToSeq({a \in AssetsOf(variation, parent) : a.path = path}))

getExportArtifactForSource(variation, source) ==
    FirstOf(NewestOf({a \in db.artifacts : a.variation = variation /\ a.parent = source /\ a.kind = "export_zip"}))

getVariationJobContext(variation) ==
    LET v == Selected(db.variations, variation) IN [variation |-> v, job |-> Selected(db.jobs, v.job)]

getVariationRefineContext(variation, base) ==
    LET context == getVariationJobContext(variation)
    IN  [variation |-> context.variation, job |-> context.job,
         session |-> Selected(db.sessions, context.variation.session),
         workspace |-> IF context.job = None THEN None ELSE Selected(db.workspaces, context.job.workspace),
         base |-> Selected(db.artifacts, base)]

getVariationArtifactContext(variation, artifact) ==
    LET a == Selected(db.artifacts, artifact)
    IN  [variation |-> Selected(db.variations, variation), artifact |-> a,
         mismatch |-> a # None /\ a.variation # variation]

getSessionWorkspaceContext(session) ==
    LET s == Selected(db.sessions, session) IN [session |-> s, workspace |-> Selected(db.workspaces, s.workspace)]

getRuntimeSessionContext(session) ==
    LET s == Selected(db.sessions, session)
    IN  [session |-> s, user |-> Selected(db.users, s.user), workspace |-> Selected(db.workspaces, s.workspace)]

getSharedVariationSnapshot(share) ==
    LET s == Selected(db.shares, share)
    IN  [share |-> s, variation |-> Selected(db.variations, s.variation), artifact |-> Selected(db.artifacts, s.artifact)]

listSharesForArtifact(artifact) == NewestOf({s \in db.shares : s.artifact = artifact})

RecentOf(rows) == OrderedBy(rows, LAMBDA a, b : a.updated > b.updated)

listSessions == RecentOf(db.sessions)

getPrimaryWorkspaceForUser(user) ==
    FirstOf(OrderedBy({w \in db.workspaces : w.owner = user}, LAMBDA a, b : a.id < b.id))

-----------------------------------------------------------------------------
(* Reports for operators.                                                  *)

Total(rows, Of(_)) == FoldSet(LAMBDA row, so : so + Of(row), 0, rows)
CountOf(rows) == [s \in {"queued", "completed", "failed", "cancelled"} |-> Cardinality({v \in rows : v.status = s})]

listAdminJobs(filter) ==
    LET jobs == RecentOf({j \in db.jobs : filter.status \in {None, j.status} /\ filter.user \in {None, j.user}})
        Summary(j) ==
            LET variations == {v \in db.variations : v.job = j.id}
                joined == {<<v, a>> \in variations \X db.artifacts : a.variation = v.id}
            IN  [job |-> j, variations |-> OrderedBy(variations, LAMBDA a, b : a.index < b.index),
                 counts |-> CountOf(variations), artifacts |-> Cardinality(joined),
                 cost |-> Total(variations, LAMBDA v : v.cost),
                 errors |-> Cardinality({v \in variations : v.error # None})]
    IN  [i \in DOMAIN jobs |-> Summary(jobs[i])]

listAdminArtifacts(filter) ==
    LET Joined(a) == Selected(db.variations, a.variation)
        JobOf(a) == IF Joined(a) = None THEN None ELSE Joined(a).job
        rows == NewestOf({a \in db.artifacts : filter.job \in {None, JobOf(a)} /\ filter.kind \in {None, a.kind}})
        Summary(a) ==
            [artifact |-> a, job |-> JobOf(a), preview |-> IF Joined(a) = None THEN None ELSE Joined(a).preview,
             shares |-> Cardinality({s \in db.shares : s.artifact = a.id})]
    IN  [i \in DOMAIN rows |-> Summary(rows[i])]

getSqlSupportSession(s) ==
    LET jobs == RecentOf({j \in db.jobs : j.session = s.id})
        variations == {v \in db.variations : \E j \in db.jobs : j.id = v.job /\ j.session = s.id}
        failed == {v \in variations : v.status = "failed" \/ v.error # None}
    IN  [session |-> s, jobs |-> Len(jobs), latest |-> FirstOf(jobs), counts |-> CountOf(variations),
         severity |-> Store!summarizeAdminSupportIssue(FirstOf(jobs), Cardinality(failed))]

UsersByEmail == OrderedBy(db.users, LAMBDA a, b : a.email < b.email)

getAdminUserSupport ==
    LET Support(u) ==
            LET sessions == RecentOf({s \in db.sessions : s.user = u.id})
            IN  [user |-> u, workspaces |-> {w \in db.workspaces : w.owner = u.id},
                 sessions |-> [i \in DOMAIN sessions |-> getSqlSupportSession(sessions[i])]]
    IN  [i \in DOMAIN UsersByEmail |-> Support(UsersByEmail[i])]

getAdminMemoryGovernance ==
    LET Governance(u) ==
            LET sessions == {s \in db.sessions : s.user = u.id}
            IN  [user |-> u.id, sessions |-> Cardinality(sessions),
                 isolation |-> Store!memoryIsolationStatus(Cardinality({x \in db.users : x.namespace = u.namespace})),
                 workspaces |-> Cardinality({w \in db.workspaces : w.owner = u.id}),
                 running |-> Cardinality({s \in sessions : s.runtime # None}),
                 jobs |-> Cardinality({j \in db.jobs : j.user = u.id}),
                 last |-> IF sessions = {} THEN None ELSE Max({s.updated : s \in sessions})]
    IN  [i \in DOMAIN UsersByEmail |-> Governance(UsersByEmail[i])]

getAdminCostSummary ==
    LET OfUser(u) ==
            LET own == {e \in db.usage : e.user = u}
            IN  [user |-> u, jobs |-> Cardinality({j \in db.jobs : j.user = u}),
                 events |-> Cardinality(own), cost |-> Total(own, LAMBDA e : e.cost)]
        users == {j.user : j \in db.jobs} \cup {e.user : e \in db.usage}
    IN  [jobs |-> Cardinality(db.jobs), events |-> Cardinality(db.usage), cost |-> Total(db.usage, LAMBDA e : e.cost),
         users |-> OrderedBy({OfUser(u) : u \in users},
                             LAMBDA a, b : a.cost > b.cost \/ (a.cost = b.cost /\ a.user < b.user))]

\* The queries that are not overridden.
listAuditLogs(p) == NewestOf(ToSet(copies[p].audits))
listUsageEvents(p) == Store!Take(NewestOf(ToSet(copies[p].usage)), UsageLimit)

-----------------------------------------------------------------------------
Pages(variation) == {a \in db.artifacts : a.variation = variation /\ a.kind = "html"}

\* What the service makes of a runtime's events.
Events(variation) ==
    {[status |-> "failed", error |-> now]}
    \cup {[status |-> "completed", current |-> a.id, preview |-> a.id, cost |-> 1] : a \in Pages(variation)}
    \cup {[screenshot |-> a.id] : a \in Pages(variation)}

ChangeUsers ==
    \/ \E email \in 1 .. 3 : createUserWithWorkspace(email)
    \/ \E u \in db.users : updateUserStatus(u.id, "disabled") \/ createSession(u.id)

ChangeSessions ==
    \E s \in db.sessions :
        \/ saveSession(s, [title |-> "renamed"]) \/ saveSession(s, [runtime |-> now])
        \/ archiveSession(s.id) \/ appendMessage(s.id) \/ createJob(s)
        \/ createArtifact(s.id, None, None, "html")

ChangeJobs ==
    \E j \in db.jobs :
        \/ updateJobTemplateRequirements(j.id) \/ createVariations(j, 1)
        \/ \E status \in {"running", "completed", "failed"} : setJobStatus(j.id, status)
        \/ \E at \in {now - 2, now} : appendDesignEvent(j.id, at)

ChangeVariations ==
    \E v \in db.variations :
        \/ \E event \in Events(v.id) : applyVariationEvent(v.id, event)
        \/ \E a \in Pages(v.id) :
            \/ setVariationCurrentArtifact(v.id, a.id, a.id)
            \/ createMockArtifact(v, a.id)
            \/ \E kind \in {"asset", "export_zip", "screenshot"} : createArtifact(v.session, v.id, a.id, kind)
            \/ createShare(a, 1) \/ saveArtifact(a)
        \/ createMockArtifact(v, None)

Record ==
    \/ \E s \in db.shares : revokeShare(s.id)
    \/ \E p \in Process, key \in 1 .. 2 : createUsageEvent(p, key, key, 1)
    \/ createAuditLog
    \/ \E p \in Process : hydrate(p)

Next == ChangeUsers \/ ChangeSessions \/ ChangeJobs \/ ChangeVariations \/ Record

Spec == Init /\ [][Next]_repositoryVars

-----------------------------------------------------------------------------
(* Properties.                                                             *)

\* Queries about one thing; events, and the jobs, variations and artifacts of the
\* snapshots of a session and a job, are compared as sets, a variation of the
\* current snapshot without its id.
SameQueries ==
    /\ listSessions = Store!listSessions(store)
    /\ \A u \in db.users : getPrimaryWorkspaceForUser(u.id) = Store!getPrimaryWorkspaceForUser(store, u.id)
    /\ \A s \in db.sessions :
        /\ getSessionSnapshot(s.id) = Store!getSessionSnapshot(store, s.id)
        /\ getSessionWorkspaceContext(s.id) = Store!getSessionWorkspaceContext(store, s.id)
        /\ getRuntimeSessionContext(s.id) = Store!getRuntimeSessionContext(store, s.id)
    /\ \A j \in db.jobs : getJobSnapshot(j.id) = Store!getJobSnapshot(store, j.id)
    /\ db.events = ToSet(store.events)
    /\ \A v \in db.variations :
        LET current == getCurrentVariationArtifactSnapshot(v.id)
        IN  /\ getVariationDetailSnapshot(v.id) = Store!getVariationDetailSnapshot(store, v.id)
            /\ getVariationJobContext(v.id) = Store!getVariationJobContext(store, v.id)
            /\ [current EXCEPT !.variation.id = v.id] = Store!getCurrentVariationArtifactSnapshot(store, v.id)
            /\ \A a \in db.artifacts :
                /\ getVariationAssetArtifacts(v.id, a.id) = Store!getVariationAssetArtifacts(store, v.id, a.id)
                /\ getExportArtifactForSource(v.id, a.id) = Store!getExportArtifactForSource(store, v.id, a.id)
                /\ getVariationRefineContext(v.id, a.id) = Store!getVariationRefineContext(store, v.id, a.id)
                /\ getVariationArtifactContext(v.id, a.id) = Store!getVariationArtifactContext(store, v.id, a.id)
                /\ a.kind = "asset" => getVariationAssetArtifact(v.id, a.parent, a.path)
                                         = Store!getVariationAssetArtifact(store, v.id, a.parent, a.path)
    /\ \A a \in db.artifacts : listSharesForArtifact(a.id) = Store!listSharesForArtifact(store, a.id)
    /\ \A s \in db.shares : getSharedVariationSnapshot(s.id) = Store!getSharedVariationSnapshot(store, s.id)

\* Reports; those of costs while there are no more events than one asks for.
SameReports ==
    /\ \A status \in {None, "queued", "failed"}, user \in {None, 1} :
        LET filter == [status |-> status, user |-> user]
        IN  listAdminJobs(filter) = Store!listAdminJobs(store, filter)
    /\ \A job \in {None, 1}, kind \in {None, "html"} :
        LET filter == [job |-> job, kind |-> kind]
        IN  listAdminArtifacts(filter) = Store!listAdminArtifacts(store, filter)
    /\ getAdminUserSupport = Store!getAdminUserSupport(store)
    /\ getAdminMemoryGovernance = Store!getAdminMemoryGovernance(store)
    /\ Cardinality(db.usage) <= UsageLimit => getAdminCostSummary = Store!getAdminCostSummary(store)
    /\ listAuditLogs(Api) = NewestOf(ToSet(store.audits))

\* Whatever is written, the database answers as the maps would that tests are
\* run on.
SameAnswers == SameQueries /\ SameReports

\* Refuted: a process sees the usage events of others only when it starts.
UsageSeen == \A p \in Process : listUsageEvents(p) = Store!listUsageEvents(store, UsageLimit)

\* Refuted: events are replayed in the order of their own times, which the
\* runtime's clock has given them, and not in the order they were published in.
listDesignEvents(job) ==
    OrderedBy({e \in db.events : e.job = job}, LAMBDA a, b : a.at < b.at \/ (a.at = b.at /\ a.id < b.id))
EventsInOrder ==
    \A j \in db.jobs : listDesignEvents(j.id) = SelectSeq(store.events, LAMBDA e : e.job = j.id)

\* Refuted: a variation without a current artifact has no id in its snapshot.
SnapshotNamesVariation ==
    \A v \in db.variations : getCurrentVariationArtifactSnapshot(v.id).variation.id = v.id

\* Refuted: a cost report counts every event in the database, and the newest
\* ones in the maps.
CostsAgree == getAdminCostSummary = Store!getAdminCostSummary(store)
=============================================================================
