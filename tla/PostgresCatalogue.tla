--------------------------- MODULE PostgresCatalogue ---------------------------
(***************************************************************************)
(* The tables of PostgresRepository (apps/api/src/postgresRepository.ts)   *)
(* that no design is in: logins, preferences and overrides of              *)
(* capabilities, templates with their versions, drafts and assets of       *)
(* capability authoring, invocations of tools, model services and who may  *)
(* use them, with the maps of an InMemoryStore that the same calls change. *)
(* Calls are made by one process, one after the other.                     *)
(***************************************************************************)
EXTENDS Integers, FiniteSetsExt, SequencesExt, TLC

CONSTANTS UsageLimit, None, MaxWrites

VARIABLES
    db,         \* table -> its rows
    known,      \* the process's copies of the rows of model_services
    store,      \* the twin: the maps of an InMemoryStore
    answers,    \* what the last call answered, and what the twin's did
    now         \* the clock

Assumptions == UsageLimit \in Nat /\ MaxWrites \in Nat

catalogueVars == <<db, known, store, answers, now>>

Store == INSTANCE InMemoryStore

User == 1 .. 2
Workspace(user) == user

-----------------------------------------------------------------------------
(* Statements.                                                             *)

Same(a, b, key) == \A k \in key : a[k] = b[k]

\* insert ... on conflict (key) do update set these columns.
Upserted(rows, row, key, columns) ==
    IF \E r \in rows : Same(r, row, key)
    THEN {IF Same(r, row, key) THEN [c \in DOMAIN r |-> IF c \in columns THEN row[c] ELSE r[c]] ELSE r : r \in rows}
    ELSE rows \cup {row}

persistAuthIdentity(d, identity) == [d EXCEPT !.identities = Upserted(@, identity, {"subject"}, {"verified"})]
persistAuthSession(d, login) == [d EXCEPT !.logins = Upserted(@, login, {"token"}, {"revoked", "seen"})]
persistUserCapabilityPreference(d, preference) ==
    [d EXCEPT !.preferences = Upserted(@, preference, {"user"}, {"skill", "palette"})]
persistCapabilityGovernanceOverride(d, override) ==
    [d EXCEPT !.overrides = Upserted(@, override, {"plugin"}, {"status", "updated"})]

\* Versions of users are immutable, those of official packs follow the pack.
persistDesignTemplatePack(d, pack) ==
    LET version == Store!createDesignTemplatePackVersion(pack)
        official == pack.owner = None
    IN  [d EXCEPT !.packs = Upserted(@, pack, {"id"}, DOMAIN pack),
                  !.versions = Upserted(@, version, {"template", "version"}, IF official THEN {"pack"} ELSE {})]

persistMcpInvocationAuditRecord(d, record) ==
    [d EXCEPT !.invocations = Upserted(@, record, {"id"}, {"result", "key", "completed"})]
persistModelService(d, model) == [d EXCEPT !.services = Upserted(@, model, {"id"}, DOMAIN model \ {"created"})]
persistUserModelAccess(d, access) ==
    [d EXCEPT !.access = Upserted(@, access, {"user", "model"}, {"enabled", "limit", "updated"})]

Saved(copies, model) == {c \in copies : c.id # model.id} \cup {model}

\* The row that a query found, if any.
Selected(rows) == IF rows = {} THEN None ELSE CHOOSE r \in rows : TRUE
OrderedBy(rows, Before(_, _)) == SetToSortSeq(rows, Before)
Latest(rows) == OrderedBy(rows, LAMBDA a, b : a.updated > b.updated)
NextId(rows) == Cardinality(rows) + 1

-----------------------------------------------------------------------------
\* What the process starts with: an official template, two seeded models.
OfficialPack == [id |-> 1, source |-> "official", visibility |-> "public", status |-> "published",
                 owner |-> None, name |-> 5, version |-> 1, content |-> 0]
SeededModel(id, enabled) ==
    [id |-> id, name |-> id, enabled |-> enabled, default |-> enabled, found |-> FALSE, missing |-> None,
     context |-> 8, created |-> 0, updated |-> 0]

Seeded ==
    [identities |-> <<>>, logins |-> <<>>, preferences |-> <<>>, overrides |-> <<>>, packs |-> <<OfficialPack>>,
     versions |-> <<Store!createDesignTemplatePackVersion(OfficialPack)>>, drafts |-> <<>>, assets |-> <<>>,
     invocations |-> <<>>, services |-> <<SeededModel(2, TRUE), SeededModel(1, FALSE)>>, access |-> <<>>,
     usage |-> <<>>]

Init ==
    /\ store = Seeded
    /\ db = [table \in DOMAIN Seeded |-> ToSet(Seeded[table])]
    /\ known = db.services
    /\ answers = <<None, None>>
    /\ now = 1

-----------------------------------------------------------------------------
(* Calls.                                                                  *)

\* A call changes the database like this and the twin like that.
Call(d, m) ==
    /\ now <= MaxWrites /\ now' = now + 1
    /\ db' = d /\ store' = m

Write(d, m) == Call(d, m) /\ UNCHANGED <<known, answers>>

createAuthIdentity(user, subject) ==
    LET identity == [subject |-> subject, user |-> user, verified |-> now]
    IN  /\ \A i \in db.identities : i.subject # subject
        /\ Write(persistAuthIdentity(db, identity), Store!createAuthIdentity(store, identity))

createAuthSession(token, user) ==
    /\ \A l \in db.logins : l.token # token
    /\ Write(persistAuthSession(db, Store!NewLogin(token, user, now)), Store!createAuthSession(store, token, user, now))

LoginsWith(token, field, value) ==
    [db EXCEPT !.logins = {IF l.token = token THEN [l EXCEPT ![field] = value] ELSE l : l \in @}]

touchAuthSession(token) == Write(LoginsWith(token, "seen", now), Store!touchAuthSession(store, token, now))

\* Revoked once, a login keeps the time.
revokeAuthSession(login) ==
    Write(LoginsWith(login.token, "revoked", IF login.revoked = None THEN now ELSE login.revoked),
          Store!revokeAuthSession(store, login.token, now))

saveUserCapabilityPreference(user, skill) ==
    LET preference == [user |-> user, skill |-> skill, palette |-> now]
    IN  Write(persistUserCapabilityPreference(db, preference), Store!saveUserCapabilityPreference(store, preference))

upsertCapabilityGovernanceOverride(plugin, status) ==
    Write(persistCapabilityGovernanceOverride(db, [plugin |-> plugin, status |-> status, created |-> now, updated |-> now]),
          Store!upsertCapabilityGovernanceOverride(store, plugin, status, now))

saveDesignTemplatePack(pack) == Write(persistDesignTemplatePack(db, pack), Store!saveDesignTemplatePack(store, pack))

\* Mutant: the statement does not save what the draft was published as.
saveDraftUnpublished(draft) ==
    Write([db EXCEPT !.drafts = Upserted(@, draft, {"id"}, {"bundle", "status", "updated"})],
          Store!saveCapabilityAuthoringDraft(store, draft))

saveCapabilityAuthoringDraft(draft) ==
    Write([db EXCEPT !.drafts = Upserted(@, draft, {"id"}, {"bundle", "status", "published", "updated"})],
          Store!saveCapabilityAuthoringDraft(store, draft))

saveCapabilityAuthoringAsset(asset) ==
    Write([db EXCEPT !.assets = Upserted(@, asset, {"id"}, {"storage"})], Store!saveCapabilityAuthoringAsset(store, asset))

saveMcpInvocationAuditRecord(record) ==
    Write(persistMcpInvocationAuditRecord(db, record), Store!saveMcpInvocationAuditRecord(store, record))

createUsageEvent(user, model) ==
    LET event == [user |-> user, model |-> model, cost |-> 1, created |-> now]
    IN  Write([db EXCEPT !.usage = @ \cup {event}], [store EXCEPT !.usage = Append(@, event)])

getModelServiceById(model) == Selected({s \in db.services : s.id = model})

\* A runtime reports models; those that the process knows and that are not
\* reported are disabled.
upsertDiscoveredModelServices(reported) ==
    LET New(r) == getModelServiceById(r.id) = None
        Row(r) == IF New(r) THEN r ELSE Store!MergedModel(r, getModelServiceById(r.id))
        merged == FoldLeft(LAMBDA d, r : persistModelService(d, Row(r)), db, reported)
        copies == FoldLeft(LAMBDA c, r : Saved(c, Row(r)), known, reported)
        vanished == {c \in copies : c.found /\ \A r \in ToSet(reported) : r.id # c.id}
        Diff(change, rows) ==
            {Store!modelSyncDiffItem(change, IF change = "created" THEN None ELSE
                                             IF change = "missing" THEN r ELSE getModelServiceById(r.id), r) : r \in rows}
        old == {r \in ToSet(reported) : ~New(r)}
    IN  /\ Call(FoldSet(LAMBDA s, d : persistModelService(d, Store!MissingModel(s, now)), merged, vanished),
                Store!upsertDiscoveredModelServices(store, reported, now))
        /\ known' = (copies \ vanished) \cup {Store!MissingModel(s, now) : s \in vanished}
        /\ answers' = <<[created |-> Cardinality(ToSet(reported) \ old), updated |-> Cardinality(old),
                         missing |-> Cardinality(vanished),
                         disabledMissing |-> Cardinality({s \in vanished : s.enabled}),
                         diff |-> Diff("created", ToSet(reported) \ old)
                                  \cup Diff("updated", {r \in old : Store!hasModelServiceRuntimeDiff(getModelServiceById(r.id), r)})
                                  \cup Diff("missing", vanished)],
                        Store!discoveredModels(store, reported)>>

updateAdminModel(model, enabled, default) ==
    LET Cleared(rows) == {IF default = TRUE /\ s.id # model /\ s.default
                          THEN [s EXCEPT !.default = FALSE, !.updated = now] ELSE s : s \in rows}
        updated == [Store!Changed(Store!Changed(getModelServiceById(model), "enabled", enabled), "default", default)
                        EXCEPT !.updated = now]
    IN  /\ Call(persistModelService([db EXCEPT !.services = Cleared(@)], updated),
                Store!updateAdminModel(store, model, enabled, default, now))
        /\ known' = Saved(Cleared(known), updated)
        /\ UNCHANGED answers

getUserModelAccess(user, model) == Selected({a \in db.access : a.user = user /\ a.model = model})

updateUserModelAccess(user, model, enabled, limit) ==
    LET existing == getUserModelAccess(user, model)
        access == [Store!Changed(Store!Changed(IF existing = None THEN Store!NewAccess(user, model, now) ELSE existing,
                                               "enabled", enabled), "limit", limit) EXCEPT !.updated = now]
    IN  Write(persistUserModelAccess(db, access), Store!updateUserModelAccess(store, user, model, enabled, limit, now))

UsageOf(user, model) ==
    LET events == {e \in db.usage : e.user = user /\ e.model = model}
    IN  [events |-> Cardinality(events), cost |-> FoldSet(LAMBDA e, so : so + e.cost, 0, events)]

ensureUserModelAccessRows(user) ==
    LET absent == {s \in db.services : getUserModelAccess(user, s.id) = None}
    IN  FoldSet(LAMBDA s, d : persistUserModelAccess(d, Store!NewAccess(user, s.id, now)), db, absent)

AccessShown(d, user) ==
    LET rows == OrderedBy({<<a, s>> \in d.access \X d.services : a.model = s.id /\ a.user = user},
                          LAMBDA x, y : x[2].name < y[2].name)
    IN  [i \in DOMAIN rows |-> [access |-> rows[i][1], usage |-> UsageOf(user, rows[i][2].id)]]

\* Showing a user's access creates the rows that are not there.
getAdminUserModelAccess(user) ==
    LET shown == Store!ensureAccess(store, user, now)
    IN  /\ Call(ensureUserModelAccessRows(user), shown)
        /\ answers' = <<AccessShown(db', user), Store!getAdminUserModelAccess(shown, user)>>
        /\ UNCHANGED known

-----------------------------------------------------------------------------
(* Queries.                                                                *)

getAuthIdentityByProvider(subject) == Selected({i \in db.identities : i.subject = subject})
getAuthSessionByTokenHash(token) == Selected({l \in db.logins : l.token = token})
getUserCapabilityPreference(user) == Selected({p \in db.preferences : p.user = user})
listCapabilityGovernanceOverrides == Latest(db.overrides)

\* The pack is the one of the current version.
PackOf(t) == LET v == Selected({x \in db.versions : x.template = t.id /\ x.version = t.version})
             IN  IF v = None THEN t ELSE v.pack

Readable(t, user) ==
    /\ t.status \notin {"archived", "disabled"}
    /\ \/ t.source = "official" /\ t.visibility = "public"
       \/ t.owner = user

listDesignTemplatePacks(user) ==
    LET rows == OrderedBy({t \in db.packs : Readable(t, user)},
                          LAMBDA a, b : \/ a.source = "official" /\ b.source # "official"
                                        \/ a.source = b.source /\ a.name < b.name)
    IN  [i \in DOMAIN rows |-> PackOf(rows[i])]

getDesignTemplatePackById(template, user) ==
    LET t == Selected({p \in db.packs : p.id = template /\ Readable(p, user)})
    IN  IF t = None THEN None ELSE PackOf(t)

getDesignTemplatePackVersion(template, version, user) ==
    IF getDesignTemplatePackById(template, user) = None THEN None
    ELSE Selected({v \in db.versions : v.template = template /\ v.version = version})

Owned(row, user) == row.owner = user /\ row.workspace = Workspace(user)

listCapabilityAuthoringDrafts(user) == Latest({d \in db.drafts : Owned(d, user)})
getCapabilityAuthoringDraftById(draft, user) == Selected({d \in db.drafts : d.id = draft /\ Owned(d, user)})
listCapabilityAuthoringAssets(draft, user) ==
    OrderedBy({a \in db.assets : a.draft = draft /\ Owned(a, user)}, LAMBDA a, b : a.created < b.created)
getCapabilityAuthoringAssetById(asset, user) == Selected({a \in db.assets : a.id = asset /\ Owned(a, user)})

getMcpInvocationAuditRecord(id) == Selected({r \in db.invocations : r.id = id})
getMcpInvocationAuditRecordByReplayKey(key) == Selected({r \in db.invocations : r.key = key})
listMcpInvocationAuditRecords(filter) ==
    OrderedBy({r \in db.invocations : filter.job \in {None, r.job} /\ filter.tool \in {None, r.tool}},
              LAMBDA a, b : a.created > b.created)

DefaultFirst(models) ==
    OrderedBy(models, LAMBDA a, b : \/ a.default /\ ~b.default
                                    \/ a.default = b.default /\ a.name < b.name)

listAdminModels == DefaultFirst(db.services)

canUserUseModel(user, model) ==
    /\ getModelServiceById(model) # None /\ getModelServiceById(model).enabled
    /\ getUserModelAccess(user, model) # None => getUserModelAccess(user, model).enabled

listUserModelOptions(user) ==
    LET models == DefaultFirst({s \in db.services : canUserUseModel(user, s.id)})
        chosen == SelectSeq(models, LAMBDA s : s.default) \o models
    IN  [models |-> models, default |-> IF chosen = <<>> THEN None ELSE chosen[1].id]

-----------------------------------------------------------------------------
\* Reports of the runtime: two models, of which it may know one or none, with a
\* window that may have changed.
Reported(ids, context) ==
    SelectSeq([i \in 1 .. 2 |->
                [id |-> 2 + i, name |-> 5 - i, enabled |-> FALSE, default |-> FALSE, found |-> TRUE, missing |-> None,
                 context |-> context, created |-> now, updated |-> now]],
              LAMBDA r : r.id \in ids)

People ==
    \E user \in User :
        \/ createAuthIdentity(user, user) \/ createAuthSession(user, user)
        \/ \E skill \in {"wide", "none"} : saveUserCapabilityPreference(user, skill)

Logins == \E l \in db.logins : touchAuthSession(l.token) \/ revokeAuthSession(l)

Authoring ==
    \/ \E plugin \in 1 .. 2, status \in {"enabled", "disabled"} : upsertCapabilityGovernanceOverride(plugin, status)
    \/ \E user \in User :
        \/ saveDesignTemplatePack([id |-> NextId(db.packs), source |-> "user", visibility |-> "private", status |-> "published",
                                   owner |-> user, name |-> 10 - now, version |-> 1, content |-> now])
        \/ saveCapabilityAuthoringDraft([id |-> NextId(db.drafts), owner |-> user, workspace |-> Workspace(user),
                                         bundle |-> now, status |-> "ready", published |-> None,
                                         created |-> now, updated |-> now])
    \* A rollback: the content of an older version becomes that of the next.
    \/ \E p \in db.packs, v \in db.versions :
        /\ p.source = "user" /\ v.template = p.id
        /\ saveDesignTemplatePack([v.pack EXCEPT !.version = p.version + 1])
    \/ \E d \in db.drafts :
        \/ saveCapabilityAuthoringDraft([d EXCEPT !.bundle = now, !.updated = now])
        \/ saveCapabilityAuthoringDraft([d EXCEPT !.status = "published", !.published = 1, !.updated = now])
        \/ saveCapabilityAuthoringAsset([id |-> NextId(db.assets), draft |-> d.id, owner |-> d.owner,
                                         workspace |-> d.workspace, storage |-> now, created |-> now])

Invocations ==
    \/ \E job, tool \in 1 .. 2 :
        LET id == NextId(db.invocations)
        IN  saveMcpInvocationAuditRecord([id |-> id, job |-> job, tool |-> tool, key |-> id, result |-> "authorized",
                                          created |-> now, completed |-> now])
    \/ \E r \in db.invocations : saveMcpInvocationAuditRecord([r EXCEPT !.result = "ok", !.completed = now])

Models ==
    \/ \E ids \in SUBSET (3 .. 4), context \in {8, 16} :
        (ids = {} => context = 8) /\ upsertDiscoveredModelServices(Reported(ids, context))
    \/ \E s \in db.services, enabled, default \in {None, TRUE, FALSE} :
        <<enabled, default>> # <<None, None>> /\ updateAdminModel(s.id, enabled, default)
    \/ \E user \in User :
        \/ getAdminUserModelAccess(user)
        \/ \E s \in db.services : \/ createUsageEvent(user, s.id)
                                  \/ \E enabled \in {None, FALSE} : updateUserModelAccess(user, s.id, enabled, now)

Next == People \/ Logins \/ Authoring \/ Invocations \/ Models

Spec == Init /\ [][Next]_catalogueVars

-----------------------------------------------------------------------------
(* Properties.                                                             *)

\* A login of the answer of either repository: the time of a revocation apart.
Valid(login) == IF login = None THEN None ELSE [login EXCEPT !.revoked = @ # None]

SamePeople ==
    /\ \A user \in User :
        /\ getAuthIdentityByProvider(user) = Store!Find(store.identities, LAMBDA i : i.subject = user)
        /\ Valid(getAuthSessionByTokenHash(user)) = Valid(Store!Login(store, user))
        /\ getUserCapabilityPreference(user) = Store!getUserCapabilityPreference(store, user)
    /\ listCapabilityGovernanceOverrides = Store!listCapabilityGovernanceOverrides(store)

SameAuthoring ==
    \A user \in User :
        /\ listDesignTemplatePacks(user) = Store!listDesignTemplatePacks(store, user)
        /\ \A p \in db.packs :
            /\ getDesignTemplatePackById(p.id, user) = Store!getDesignTemplatePackById(store, p.id, user)
            /\ \A version \in 1 .. p.version :
                getDesignTemplatePackVersion(p.id, version, user) = Store!getDesignTemplatePackVersion(store, p.id, version, user)
        /\ listCapabilityAuthoringDrafts(user) = Store!listCapabilityAuthoringDrafts(store, user, Workspace(user))
        /\ \A d \in db.drafts :
            /\ getCapabilityAuthoringDraftById(d.id, user)
                 = Store!getCapabilityAuthoringDraftById(store, d.id, user, Workspace(user))
            /\ listCapabilityAuthoringAssets(d.id, user)
                 = Store!listCapabilityAuthoringAssets(store, d.id, user, Workspace(user))
        /\ \A a \in db.assets :
            getCapabilityAuthoringAssetById(a.id, user)
              = Store!getCapabilityAuthoringAssetById(store, a.id, user, Workspace(user))

SameInvocations ==
    /\ \A r \in db.invocations :
        /\ getMcpInvocationAuditRecord(r.id) = Store!getMcpInvocationAuditRecord(store, r.id)
        /\ getMcpInvocationAuditRecordByReplayKey(r.key) = Store!getMcpInvocationAuditRecordByReplayKey(store, r.key)
    /\ \A job, tool \in {None, 1} :
        LET filter == [job |-> job, tool |-> tool]
        IN  listMcpInvocationAuditRecords(filter) = Store!listMcpInvocationAuditRecords(store, filter)

SameModels ==
    /\ answers[1] = answers[2]
    /\ known = db.services /\ listAdminModels = Store!listAdminModels(store)
    /\ \A user \in User :
        /\ listUserModelOptions(user) = Store!listUserModelOptions(store, user)
        /\ \A s \in db.services : canUserUseModel(user, s.id) = Store!canUserUseModel(store, user, s.id)

\* Whatever is written, the database answers as the maps would that tests are
\* run on.
SameAnswers == SamePeople /\ SameAuthoring /\ SameInvocations /\ SameModels

\* Refuted: a login that is revoked again keeps the time of the first revocation
\* in the database and gets that of the second in the maps.
RevocationsAgree == \A user \in User : getAuthSessionByTokenHash(user) = Store!Login(store, user)
=============================================================================
