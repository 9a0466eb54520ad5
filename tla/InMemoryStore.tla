---------------------------- MODULE InMemoryStore ----------------------------
(***************************************************************************)
(* InMemoryStore (apps/api/src/store.ts), the repository the tests and the *)
(* local mode run on: its maps as sequences of rows in the order of their  *)
(* insertion, a row's id its place, its writes as operators on the maps,   *)
(* and what its queries and the reports for operators answer of them.      *)
(* Times are those of a clock that passes with every write.                *)
(***************************************************************************)
EXTENDS Integers, FiniteSetsExt, SequencesExt, TLC

CONSTANTS
    UsageLimit,     \* the number of usage events that a report asks for
    None

\* The rows with their defaults; equal in both repositories.
NewUser(id, email) == [id |-> id, email |-> email, status |-> "active", namespace |-> id]
NewWorkspace(id, owner) == [id |-> id, owner |-> owner]
NewSession(id, user, now) ==
    [id |-> id, user |-> user, workspace |-> user, title |-> "untitled", runtime |-> None,
     status |-> "active", prompt |-> None, created |-> now, updated |-> now]
NewJob(id, session, prompt, now) ==
    [id |-> id, session |-> session.id, user |-> session.user, workspace |-> session.workspace,
     prompt |-> prompt, requirements |-> None, status |-> "queued",
     started |-> None, completed |-> None, created |-> now, updated |-> now]
NewVariation(id, job, index, now) ==
    [id |-> id, job |-> job.id, session |-> job.session, index |-> index, status |-> "queued",
     current |-> None, preview |-> None, screenshot |-> None, cost |-> 0, error |-> None,
     created |-> now, updated |-> now]
NewArtifact(id, session, variation, parent, kind, version, now) ==
    [id |-> id, session |-> session, variation |-> variation, parent |-> parent, kind |-> kind,
     version |-> version, path |-> id, content |-> now, created |-> now]
NewShare(id, artifact, owner, now) ==
    [id |-> id, artifact |-> artifact.id, variation |-> artifact.variation, owner |-> owner,
     revoked |-> None, created |-> now]

-----------------------------------------------------------------------------
(* Writes.                                                                 *)

Find(rows, P(_)) == LET found == SelectSeq(rows, P) IN IF found = <<>> THEN None ELSE found[1]

createUserWithWorkspace(m, email) ==
    [m EXCEPT !.users = Append(@, NewUser(Len(@) + 1, email)),
              !.workspaces = Append(@, NewWorkspace(Len(@) + 1, Len(m.users) + 1))]

updateUserStatus(m, user, status) == [m EXCEPT !.users[user].status = status]

createSession(m, user, now) ==
    [m EXCEPT !.sessions = Append(@, NewSession(Len(@) + 1, user, now))]

saveSession(m, session) == [m EXCEPT !.sessions[session.id] = session]

archiveSession(m, session, now) ==
    [m EXCEPT !.sessions[session] = [@ EXCEPT !.status = "archived", !.updated = now]]

createJob(m, session, prompt, now) ==
    [m EXCEPT !.jobs = Append(@, NewJob(Len(@) + 1, session, prompt, now)),
              !.sessions[session.id] = [session EXCEPT !.prompt = prompt, !.updated = now]]

updateJobTemplateRequirements(m, job, requirements, now) ==
    [m EXCEPT !.jobs[job] = [@ EXCEPT !.requirements = requirements, !.updated = now]]

createVariations(m, job, count, now) ==
    [m EXCEPT !.variations = @ \o [i \in 1 .. count |-> NewVariation(Len(@) + i, job, i, now)]]

\* A job with its new status; the first running and the last end keep their times.
WithStatus(job, status, now) ==
    [job EXCEPT !.status = status, !.updated = now,
                !.started = IF @ = None /\ status = "running" THEN now ELSE @,
                !.completed = IF status \in {"completed", "failed", "cancelled"} THEN now ELSE @]

setJobStatus(m, job, status, now) == [m EXCEPT !.jobs[job] = WithStatus(@, status, now)]

\* The fields an event has replace those of the row.
applyVariationEvent(m, variation, event, now) ==
    [m EXCEPT !.variations[variation] = event @@ [updated |-> now] @@ @]

setVariationCurrentArtifact(m, variation, artifact, preview, now) ==
    [m EXCEPT !.variations[variation] =
        [@ EXCEPT !.current = artifact, !.preview = preview, !.updated = now]]

createMockArtifact(m, variation, parent, now) ==
    LET versions == {a.version : a \in {b \in ToSet(m.artifacts) : b.variation = variation.id /\ b.kind = "html"}}
    IN  [m EXCEPT !.artifacts = Append(@, NewArtifact(Len(@) + 1, variation.session, variation.id, parent,
                                                      "html", 1 + Max(versions \cup {0}), now))]

createArtifact(m, session, variation, parent, kind, now) ==
    [m EXCEPT !.artifacts = Append(@, NewArtifact(Len(@) + 1, session, variation, parent, kind, 1, now))]

saveArtifact(m, artifact) == [m EXCEPT !.artifacts[artifact.id] = artifact]

createShare(m, artifact, owner, now) ==
    [m EXCEPT !.shares = Append(@, NewShare(Len(@) + 1, artifact, owner, now))]

revokeShare(m, share, now) == [m EXCEPT !.shares[share].revoked = now]

createUsageEvent(m, event) ==
    IF \E e \in ToSet(m.usage) : e.key = event.key THEN m ELSE [m EXCEPT !.usage = Append(@, event)]

appendMessage(m, message) == [m EXCEPT !.messages = Append(@, message)]

appendDesignEvent(m, event) == [m EXCEPT !.events = Append(@, event)]

createAuditLog(m, entry) == [m EXCEPT !.audits = Append(@, entry)]

-----------------------------------------------------------------------------
(* Queries.                                                                *)

Where(rows, P(_)) == ToSet(SelectSeq(rows, P))
Row(rows, id) == IF id \in DOMAIN rows THEN rows[id] ELSE None
Recent(rows) == SortSeq(rows, LAMBDA a, b : a.updated > b.updated)
Newest(rows) == SortSeq(rows, LAMBDA a, b : a.created > b.created)
Sum(rows, Of(_)) == FoldLeft(LAMBDA so, row : so + Of(row), 0, rows)
Take(rows, n) == SubSeq(rows, 1, IF Len(rows) < n THEN Len(rows) ELSE n)

getSessionSnapshot(m, session) ==
    LET jobs == Where(m.jobs, LAMBDA j : j.session = session)
        variations == Where(m.variations, LAMBDA v : \E j \in jobs : v.job = j.id)
    IN  [session |-> m.sessions[session], jobs |-> jobs, variations |-> variations,
         messages |-> SelectSeq(m.messages, LAMBDA x : x.session = session),
         artifacts |-> Where(m.artifacts, LAMBDA a : a.session = session \/ \E v \in variations : a.variation = v.id)]

getJobSnapshot(m, job) ==
    LET variations == Where(m.variations, LAMBDA v : v.job = job)
    IN  [job |-> m.jobs[job], variations |-> variations,
         messages |-> SelectSeq(m.messages, LAMBDA x : x.session = m.jobs[job].session),
         artifacts |-> Where(m.artifacts, LAMBDA a : \E v \in variations : a.variation = v.id)]

KindRank(kind) ==
    CASE kind = "html" -> 0 [] kind = "asset" -> 1 [] kind = "export_zip" -> 2 [] OTHER -> 3

\* The newest version first, then by kind and path (artifactSortKey).
artifactSortKey(a, b) ==
    \/ a.version > b.version
    \/ a.version = b.version /\ KindRank(a.kind) < KindRank(b.kind)
    \/ a.version = b.version /\ KindRank(a.kind) = KindRank(b.kind) /\ a.path < b.path

getVariationDetailSnapshot(m, variation) ==
    LET v == m.variations[variation]
        artifacts == SortSeq(SelectSeq(m.artifacts, LAMBDA a : a.variation = variation), artifactSortKey)
    IN  [variation |-> v, job |-> Row(m.jobs, v.job), artifacts |-> artifacts,
         current |-> IF v.current # None THEN Row(m.artifacts, v.current)
                     ELSE Find(artifacts, LAMBDA a : a.kind = "html")]

getCurrentVariationArtifactSnapshot(m, variation) ==
    LET v == m.variations[variation]
        artifact == Row(m.artifacts, v.current)
    IN  [variation |-> v, artifactId |-> v.current, artifact |-> artifact,
         mismatch |-> artifact # None /\ artifact.variation # variation]

getVariationAssetArtifacts(m, variation, parent) ==
    SortSeq(SelectSeq(m.artifacts, LAMBDA a : a.kind = "asset" /\ a.variation = variation /\ a.parent = parent),
            LAMBDA a, b : a.path < b.path)

getVariationAssetArtifact(m, variation, parent, path) ==
    Find(m.artifacts, LAMBDA a : a.kind = "asset" /\ a.variation = variation /\ a.parent = parent /\ a.path = path)

getExportArtifactForSource(m, variation, source) ==
    Find(Newest(m.artifacts), LAMBDA a : a.kind = "export_zip" /\ a.variation = variation /\ a.parent = source)

getVariationJobContext(m, variation) ==
    [variation |-> m.variations[variation], job |-> Row(m.jobs, m.variations[variation].job)]

getVariationRefineContext(m, variation, base) ==
    LET v == m.variations[variation]
        job == Row(m.jobs, v.job)
    IN  [variation |-> v, job |-> job, session |-> Row(m.sessions, v.session),
         workspace |-> IF job = None THEN None ELSE Row(m.workspaces, job.workspace),
         base |-> Row(m.artifacts, base)]

getVariationArtifactContext(m, variation, artifact) ==
    LET a == Row(m.artifacts, artifact)
    IN  [variation |-> m.variations[variation], artifact |-> a,
         mismatch |-> a # None /\ a.variation # variation]

getSessionWorkspaceContext(m, session) ==
    [session |-> m.sessions[session], workspace |-> Row(m.workspaces, m.sessions[session].workspace)]

getRuntimeSessionContext(m, session) ==
    [session |-> m.sessions[session], user |-> Row(m.users, m.sessions[session].user),
     workspace |-> Row(m.workspaces, m.sessions[session].workspace)]

getSharedVariationSnapshot(m, share) ==
    [share |-> m.shares[share], variation |-> Row(m.variations, m.shares[share].variation),
     artifact |-> Row(m.artifacts, m.shares[share].artifact)]

listSharesForArtifact(m, artifact) == Newest(SelectSeq(m.shares, LAMBDA s : s.artifact = artifact))

listSessions(m) == Recent(m.sessions)

getPrimaryWorkspaceForUser(m, user) == Find(m.workspaces, LAMBDA w : w.owner = user)

listUsageEvents(m, limit) == Take(Newest(m.usage), limit)

-----------------------------------------------------------------------------
(* Reports for operators.                                                  *)

Counts(variations) ==
    [s \in {"queued", "completed", "failed", "cancelled"} |-> Len(SelectSeq(variations, LAMBDA v : v.status = s))]

\* A filter's field is None where it does not restrict.
listAdminJobs(m, filter) ==
    LET jobs == SelectSeq(m.jobs, LAMBDA j : /\ filter.status \in {None, j.status}
                                             /\ filter.user \in {None, j.user})
        Summary(j) ==
            LET variations == SelectSeq(m.variations, LAMBDA v : v.job = j.id)
            IN  [job |-> j, variations |-> SortSeq(variations, LAMBDA a, b : a.index < b.index),
                 counts |-> Counts(variations),
                 artifacts |-> Len(SelectSeq(m.artifacts, LAMBDA a : \E v \in ToSet(variations) : v.id = a.variation)),
                 cost |-> Sum(variations, LAMBDA v : v.cost),
                 errors |-> Len(SelectSeq(variations, LAMBDA v : v.error # None))]
        sorted == Recent(jobs)
    IN  [i \in DOMAIN sorted |-> Summary(sorted[i])]

listAdminArtifacts(m, filter) ==
    LET ofJob == Where(m.variations, LAMBDA v : v.job = filter.job)
        artifacts == SelectSeq(m.artifacts, LAMBDA a :
                        /\ filter.kind \in {None, a.kind}
                        /\ filter.job = None \/ \E v \in ofJob : v.id = a.variation)
        Summary(a) ==
            LET variation == Row(m.variations, a.variation)
            IN  [artifact |-> a, job |-> IF variation = None THEN None ELSE variation.job,
                 preview |-> IF variation = None THEN None ELSE variation.preview,
                 shares |-> Len(SelectSeq(m.shares, LAMBDA s : s.artifact = a.id))]
        sorted == Newest(artifacts)
    IN  [i \in DOMAIN sorted |-> Summary(sorted[i])]

\* What is said of a session whose newest job and failed variations are these.
summarizeAdminSupportIssue(job, failures) ==
    CASE job = None -> "warning"
      [] job # None /\ job.status = "failed" -> "blocked"
      [] job # None /\ job.status # "failed" /\ (failures > 0 \/ job.status \in {"queued", "running"}) -> "warning"
      [] OTHER -> "ok"

ByEmail(users) == SortSeq(users, LAMBDA a, b : a.email < b.email)

getAdminUserSupport(m) ==
    LET SupportSession(s) ==
            LET jobs == Recent(SelectSeq(m.jobs, LAMBDA j : j.session = s.id))
                variations == SelectSeq(m.variations, LAMBDA v : \E j \in ToSet(jobs) : v.job = j.id)
                failed == SelectSeq(variations, LAMBDA v : v.status = "failed" \/ v.error # None)
                latest == IF jobs = <<>> THEN None ELSE jobs[1]
            IN  [session |-> s, jobs |-> Len(jobs), latest |-> latest, counts |-> Counts(variations),
                 severity |-> summarizeAdminSupportIssue(latest, Len(failed))]
        Support(u) ==
            LET sessions == Recent(SelectSeq(m.sessions, LAMBDA s : s.user = u.id))
            IN  [user |-> u, workspaces |-> Where(m.workspaces, LAMBDA w : w.owner = u.id),
                 sessions |-> [i \in DOMAIN sessions |-> SupportSession(sessions[i])]]
        sorted == ByEmail(m.users)
    IN  [i \in DOMAIN sorted |-> Support(sorted[i])]

\* A user's namespace is isolated unless it is shared.
memoryIsolationStatus(users) == IF users > 1 THEN "namespace_conflict" ELSE "isolated"

getAdminMemoryGovernance(m) ==
    LET Governance(u) ==
            LET sessions == SelectSeq(m.sessions, LAMBDA s : s.user = u.id)
            IN  [user |-> u.id, sessions |-> Len(sessions),
                 isolation |-> memoryIsolationStatus(Len(SelectSeq(m.users, LAMBDA x : x.namespace = u.namespace))),
                 workspaces |-> Len(SelectSeq(m.workspaces, LAMBDA w : w.owner = u.id)),
                 running |-> Len(SelectSeq(sessions, LAMBDA s : s.runtime # None)),
                 jobs |-> Len(SelectSeq(m.jobs, LAMBDA j : j.user = u.id \/ \E s \in ToSet(sessions) : s.id = j.session)),
                 last |-> IF sessions = <<>> THEN None ELSE Recent(sessions)[1].updated]
        sorted == ByEmail(m.users)
    IN  [i \in DOMAIN sorted |-> Governance(sorted[i])]

getAdminCostSummary(m) ==
    LET events == listUsageEvents(m, UsageLimit)
        users == {j.user : j \in ToSet(m.jobs)} \cup {e.user : e \in ToSet(events)}
        OfUser(u) ==
            LET own == SelectSeq(events, LAMBDA e : e.user = u)
            IN  [user |-> u, jobs |-> Len(SelectSeq(m.jobs, LAMBDA j : j.user = u)),
                 events |-> Len(own), cost |-> Sum(own, LAMBDA e : e.cost)]
    IN  [jobs |-> Len(m.jobs), events |-> Len(events), cost |-> Sum(events, LAMBDA e : e.cost),
         users |-> SetToSortSeq({OfUser(u) : u \in users},
                                LAMBDA a, b : a.cost > b.cost \/ (a.cost = b.cost /\ a.user < b.user))]

-----------------------------------------------------------------------------
(* The catalogue: who may log in, what users prefer, templates, drafts and *)
(* their assets, invocations of tools, model services.                     *)

\* Map.set: a row with the same key is replaced in its place.
Put(rows, row, key) ==
    LET Same(r) == \A k \in key : r[k] = row[k]
    IN  IF \E i \in DOMAIN rows : Same(rows[i])
        THEN [i \in DOMAIN rows |-> IF Same(rows[i]) THEN row ELSE rows[i]]
        ELSE Append(rows, row)

NewLogin(token, user, now) == [token |-> token, user |-> user, revoked |-> None, seen |-> now]
NewAccess(user, model, now) ==
    [user |-> user, model |-> model, enabled |-> TRUE, limit |-> None, created |-> now, updated |-> now]

createAuthIdentity(m, identity) == [m EXCEPT !.identities = Put(@, identity, {"subject"})]

createAuthSession(m, token, user, now) == [m EXCEPT !.logins = Put(@, NewLogin(token, user, now), {"token"})]

Login(m, token) == Find(m.logins, LAMBDA l : l.token = token)
touchAuthSession(m, token, now) ==
    [m EXCEPT !.logins = Put(@, [Login(m, token) EXCEPT !.seen = now], {"token"})]
revokeAuthSession(m, token, now) ==
    [m EXCEPT !.logins = Put(@, [Login(m, token) EXCEPT !.revoked = now], {"token"})]

saveUserCapabilityPreference(m, preference) == [m EXCEPT !.preferences = Put(@, preference, {"user"})]

upsertCapabilityGovernanceOverride(m, plugin, status, now) ==
    LET existing == Find(m.overrides, LAMBDA o : o.plugin = plugin)
        override == [plugin |-> plugin, status |-> status, updated |-> now,
                     created |-> IF existing = None THEN now ELSE existing.created]
    IN  [m EXCEPT !.overrides = Put(@, override, {"plugin"})]

createDesignTemplatePackVersion(pack) == [template |-> pack.id, version |-> pack.version, pack |-> pack]

\* A version that exists stays as it is.
saveDesignTemplatePack(m, pack) ==
    [m EXCEPT !.packs = Put(@, pack, {"id"}),
              !.versions = IF \E v \in ToSet(@) : v.template = pack.id /\ v.version = pack.version THEN @
                           ELSE Append(@, createDesignTemplatePackVersion(pack))]

saveCapabilityAuthoringDraft(m, draft) == [m EXCEPT !.drafts = Put(@, draft, {"id"})]
saveCapabilityAuthoringAsset(m, asset) == [m EXCEPT !.assets = Put(@, asset, {"id"})]
saveMcpInvocationAuditRecord(m, record) == [m EXCEPT !.invocations = Put(@, record, {"id"})]

\* A report of the runtime: what it says of a model replaces that, what operators decided stays.
MergedModel(model, existing) ==
    [model EXCEPT !.enabled = existing.enabled, !.default = existing.default,
                  !.created = existing.created, !.missing = FALSE]
hasModelServiceRuntimeDiff(previous, next) == previous.context # next.context
modelSyncDiffItem(change, previous, next) ==
    [model |-> next.id, change |-> change, next |-> next.context,
     previous |-> IF previous = None THEN None ELSE previous.context]
MissingModel(model, now) == [model EXCEPT !.enabled = FALSE, !.missing = TRUE, !.updated = now]

Service(m, model) == Find(m.services, LAMBDA s : s.id = model)
Vanished(services, reported) ==
    SelectSeq(services, LAMBDA s : s.found /\ \A r \in ToSet(reported) : r.id # s.id)

upsertDiscoveredModelServices(m, reported, now) ==
    LET Merge(services, model) ==
            LET existing == Find(services, LAMBDA s : s.id = model.id)
            IN  Put(services, IF existing = None THEN model ELSE MergedModel(model, existing), {"id"})
        merged == FoldLeft(Merge, m.services, reported)
    IN  [m EXCEPT !.services = [i \in DOMAIN merged |->
            IF merged[i] \in ToSet(Vanished(merged, reported)) THEN MissingModel(merged[i], now) ELSE merged[i]]]

\* What the synchronization says that it did.
discoveredModels(m, reported) ==
    LET old == SelectSeq(reported, LAMBDA r : Service(m, r.id) # None)
        vanished == Vanished(m.services, reported)
        changed == SelectSeq(old, LAMBDA r : hasModelServiceRuntimeDiff(Service(m, r.id), r))
    IN  [created |-> Len(reported) - Len(old), updated |-> Len(old), missing |-> Len(vanished),
         disabledMissing |-> Len(SelectSeq(vanished, LAMBDA s : s.enabled)),
         diff |-> {modelSyncDiffItem("updated", Service(m, r.id), r) : r \in ToSet(changed)}
                  \cup {modelSyncDiffItem("created", None, r) : r \in ToSet(reported) \ ToSet(old)}
                  \cup {modelSyncDiffItem("missing", s, s) : s \in ToSet(vanished)}]

Changed(row, field, value) == IF value = None THEN row ELSE [row EXCEPT ![field] = value]

updateAdminModel(m, model, enabled, default, now) ==
    LET cleared == [i \in DOMAIN m.services |->
            IF default = TRUE /\ m.services[i].default /\ m.services[i].id # model
            THEN [m.services[i] EXCEPT !.default = FALSE, !.updated = now] ELSE m.services[i]]
        updated == [Changed(Changed(Service(m, model), "enabled", enabled), "default", default) EXCEPT !.updated = now]
    IN  [m EXCEPT !.services = Put(cleared, updated, {"id"})]

Access(m, user, model) == Find(m.access, LAMBDA a : a.user = user /\ a.model = model)
getOrCreateUserModelAccess(m, user, model, now) ==
    IF Access(m, user, model) # None THEN m ELSE [m EXCEPT !.access = Append(@, NewAccess(user, model, now))]

updateUserModelAccess(m, user, model, enabled, limit, now) ==
    LET present == getOrCreateUserModelAccess(m, user, model, now)
        updated == [Changed(Changed(Access(present, user, model), "enabled", enabled), "limit", limit) EXCEPT !.updated = now]
    IN  [present EXCEPT !.access = Put(@, updated, {"user", "model"})]

\* Showing a user's access creates the rows that are not there.
ensureAccess(m, user, now) ==
    FoldLeft(LAMBDA so, s : getOrCreateUserModelAccess(so, user, s.id, now), m, m.services)

ByName(rows) == SortSeq(rows, LAMBDA a, b : a.name < b.name)
DefaultFirst(models) ==
    SortSeq(models, LAMBDA a, b : \/ a.default /\ ~b.default
                                  \/ a.default = b.default /\ a.name < b.name)

getUserModelUsage(m, user, model) ==
    LET own == SelectSeq(m.usage, LAMBDA e : e.user = user)
        events == SelectSeq(Take(Newest(own), UsageLimit), LAMBDA e : e.model = model)
    IN  [events |-> Len(events), cost |-> Sum(events, LAMBDA e : e.cost)]

getAdminUserModelAccess(m, user) ==
    LET models == ByName(m.services)
    IN  [i \in DOMAIN models |-> [access |-> Access(m, user, models[i].id),
                                  usage |-> getUserModelUsage(m, user, models[i].id)]]

listAdminModels(m) == DefaultFirst(m.services)

canUserUseModel(m, user, model) ==
    LET access == Access(m, user, model)
    IN  Service(m, model) # None /\ Service(m, model).enabled /\ (access # None => access.enabled)

listUserModelOptions(m, user) ==
    LET models == DefaultFirst(SelectSeq(m.services, LAMBDA s : canUserUseModel(m, user, s.id)))
        chosen == SelectSeq(models, LAMBDA s : s.default) \o models
    IN  [models |-> models, default |-> IF chosen = <<>> THEN None ELSE chosen[1].id]

getUserCapabilityPreference(m, user) == Find(m.preferences, LAMBDA p : p.user = user)
listCapabilityGovernanceOverrides(m) == Recent(m.overrides)

Listed(pack) == pack.status \notin {"archived", "disabled"}

listDesignTemplatePacks(m, user) ==
    SortSeq(SelectSeq(m.packs, LAMBDA p : (p.source = "official" \/ p.owner = user) /\ Listed(p)),
            LAMBDA a, b : \/ a.source = "official" /\ b.source # "official"
                          \/ a.source = b.source /\ a.name < b.name)

getDesignTemplatePackById(m, template, user) ==
    Find(m.packs, LAMBDA p : /\ p.id = template
                             /\ \/ p.source = "official" /\ p.visibility = "public"
                                \/ p.owner = user)

getDesignTemplatePackVersion(m, template, version, user) ==
    IF getDesignTemplatePackById(m, template, user) = None THEN None
    ELSE Find(m.versions, LAMBDA v : v.template = template /\ v.version = version)

Owned(row, user, workspace) == row.owner = user /\ row.workspace = workspace

listCapabilityAuthoringDrafts(m, user, workspace) ==
    Recent(SelectSeq(m.drafts, LAMBDA d : Owned(d, user, workspace)))
getCapabilityAuthoringDraftById(m, draft, user, workspace) ==
    Find(m.drafts, LAMBDA d : d.id = draft /\ Owned(d, user, workspace))
listCapabilityAuthoringAssets(m, draft, user, workspace) ==
    SortSeq(SelectSeq(m.assets, LAMBDA a : a.draft = draft /\ Owned(a, user, workspace)),
            LAMBDA a, b : a.created < b.created)
getCapabilityAuthoringAssetById(m, asset, user, workspace) ==
    Find(m.assets, LAMBDA a : a.id = asset /\ Owned(a, user, workspace))

getMcpInvocationAuditRecord(m, id) == Find(m.invocations, LAMBDA r : r.id = id)
getMcpInvocationAuditRecordByReplayKey(m, key) == Find(m.invocations, LAMBDA r : r.key = key)
listMcpInvocationAuditRecords(m, filter) ==
    Newest(SelectSeq(m.invocations, LAMBDA r : filter.job \in {None, r.job} /\ filter.tool \in {None, r.tool}))
=============================================================================
