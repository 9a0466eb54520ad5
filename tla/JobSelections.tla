---------------------------- MODULE JobSelections ----------------------------
(***************************************************************************)
(* What a design job is made from (apps/api/src/service.ts,                *)
(* capabilities.ts): the plugins of its capability snapshot, the template  *)
(* packs of its variations and its exploration plan; the governance that   *)
(* operators exert on plugins, which every API process loads once; and the *)
(* retries that create a job from a stored one.                            *)
(* Reads of several packs by one request are one step, nothing relates two *)
(* of them.  The model of a job, its notes and its references to data are  *)
(* left out.                                                               *)
(***************************************************************************)
EXTENDS Integers, SequencesExt

CONSTANTS
    Process,        \* API processes on one database
    Request,        \* HTTP requests that may be handled at the same time
    Plugin,
    Pack,           \* template packs, numbered in the order of their listing
    Score,          \* pack -> how well it suits each planned variation
    Input,          \* what a client may ask a job to be made from
    Source,         \* uploaded pages
    NoSource,
    MaxJobs,        \* jobs created in a behaviour
    MaxChanges      \* governance changes and publications

\* What the module assumes of its constants; the module of a run asserts it.
Assumptions ==
    /\ Pack \subseteq Nat \ {0} /\ NoSource \notin Source
    /\ MaxJobs \in Nat /\ MaxChanges \in Nat
    /\ \A i \in Input :
        /\ i.plugins \subseteq Plugin /\ i.packs \in Seq(Pack) /\ i.source \in Source \cup {NoSource}
        /\ i.auto \in {"absent", "yes", "no"} /\ i.count \in Nat \ {0} /\ i.planned \in BOOLEAN

VARIABLES
    override,   \* plugin -> its row, "none", "active" or "disabled"
    process,    \* process -> the overrides it found and those it works with
    version,    \* pack -> its current version, 0 before it is published
    jobs,       \* the jobs created, with their selections
    asked,      \* request -> what is being handled
    told,       \* disabled, as the last answer about the plugin said
    barred,     \* process -> what it was told, or had been told when it started
    selectionChanges

selectionVars == <<override, process, version, jobs, asked, told, barred, selectionChanges>>

Idle == [op |-> "none"]
Governing == {"disable", "enable"}
Busy(op) == {q \in Request : asked[q].op \in op}

\* The plan of a job is the sequence of the planned variations it realises.
TypeOK ==
    /\ override \in [Plugin -> {"none", "active", "disabled"}]
    /\ \A x \in Process :
        /\ process[x].state \in {"starting", "read", "ready"}
        /\ process[x].found \subseteq Plugin /\ process[x].disabled \subseteq Plugin
        /\ barred[x] \subseteq Plugin
    /\ \A p \in Pack : version[p] \in Nat
    /\ \A j \in DOMAIN jobs :
        /\ jobs[j].plugins \subseteq Plugin /\ jobs[j].barred \subseteq Plugin
        /\ jobs[j].packs \in Seq(Pack) /\ jobs[j].assigned \in Seq(Pack) /\ jobs[j].plan \in Seq(Nat)
        /\ jobs[j].source \in Source \cup {NoSource} /\ jobs[j].of \in 0 .. j - 1
    /\ \A q \in Request : asked[q].op \in {"none", "create"} \cup Governing
    /\ told \subseteq Plugin /\ selectionChanges \in 0 .. MaxChanges

Starting == [state |-> "starting", found |-> {}, disabled |-> {}]

Init ==
    /\ override = [p \in Plugin |-> "none"]
    /\ process = [x \in Process |-> Starting]
    /\ version = [p \in Pack |-> IF p = 1 THEN 0 ELSE 1]
    /\ jobs = <<>>
    /\ asked = [q \in Request |-> Idle]
    /\ told = {} /\ barred = [x \in Process |-> {}]
    /\ selectionChanges = 0

-----------------------------------------------------------------------------
(* Plugin governance.                                                      *)

listCapabilityGovernanceOverrides(x) ==
    /\ process[x].state = "starting"
    /\ process' = [process EXCEPT ![x].state = "read",
                                  ![x].found = {p \in Plugin : override[p] = "disabled"}]
    /\ UNCHANGED <<override, version, jobs, asked, told, barred, selectionChanges>>

\* Mutant: a process does not look for overrides when it starts.
startWithoutOverrides(x) ==
    /\ process[x].state = "read"
    /\ process' = [process EXCEPT ![x].state = "ready"]
    /\ UNCHANGED <<override, version, jobs, asked, told, barred, selectionChanges>>

loadCapabilityGovernanceOverrides(x) ==
    /\ process[x].state = "read"
    /\ process' = [process EXCEPT ![x].state = "ready", ![x].disabled = process[x].found]
    /\ UNCHANGED <<override, version, jobs, asked, told, barred, selectionChanges>>

capabilityGovernanceReady(x) == process[x].state = "ready"

\* An operator's request.  Enabling a plugin takes back what was said of it,
\* and of two changes of one plugin that overlap neither is relied upon.
askGovernance(q, x, p, op) ==
    LET others == {r \in Busy(Governing) : asked[r].plugin = p}
    IN  /\ asked[q] = Idle /\ capabilityGovernanceReady(x) /\ selectionChanges < MaxChanges
        /\ selectionChanges' = selectionChanges + 1
        /\ asked' = [r \in Request |->
            IF r = q THEN [op |-> op, phase |-> "asked", by |-> x, plugin |-> p, alone |-> others = {}]
            ELSE IF r \in others THEN [asked[r] EXCEPT !.alone = FALSE]
            ELSE IF asked[r].op = "create" /\ op = "enable"
                 THEN [asked[r] EXCEPT !.barred = @ \ {p}] ELSE asked[r]]
        /\ IF op = "enable"
           THEN told' = told \ {p} /\ barred' = [y \in Process |-> barred[y] \ {p}]
           ELSE UNCHANGED <<told, barred>>
        /\ UNCHANGED <<override, process, version, jobs>>

upsertCapabilityGovernanceOverride(q) ==
    /\ asked[q].op \in Governing /\ asked[q].phase = "asked"
    /\ override' = [override EXCEPT ![asked[q].plugin] =
                        IF asked[q].op = "disable" THEN "disabled" ELSE "active"]
    /\ asked' = [asked EXCEPT ![q].phase = "saved"]
    /\ UNCHANGED <<process, version, jobs, told, barred, selectionChanges>>

\* The process changes what it works with once it hears that the row is saved.
setCapabilityPluginDisabled(q) ==
    LET p == asked[q].plugin  x == asked[q].by
    IN  /\ asked[q].op \in Governing /\ asked[q].phase = "saved"
        /\ process' = [process EXCEPT ![x].disabled =
                            IF asked[q].op = "disable" THEN @ \cup {p} ELSE @ \ {p}]
        /\ asked' = [asked EXCEPT ![q].phase = "auditing"]
        /\ UNCHANGED <<override, version, jobs, told, barred, selectionChanges>>

\* The audit entry is written and the operator answered.
updateAdminCapabilityPluginGovernance(q) ==
    LET p == asked[q].plugin  x == asked[q].by
    IN  /\ asked[q].op \in Governing /\ asked[q].phase = "auditing"
        /\ IF asked[q].op = "disable" /\ asked[q].alone
           THEN told' = told \cup {p} /\ barred' = [barred EXCEPT ![x] = @ \cup {p}]
           ELSE UNCHANGED <<told, barred>>
        /\ asked' = [asked EXCEPT ![q] = Idle]
        /\ UNCHANGED <<override, process, version, jobs, selectionChanges>>

\* What a process was doing is lost with it.
restart(x) ==
    /\ process[x] # Starting
    /\ process' = [process EXCEPT ![x] = Starting]
    /\ asked' = [q \in Request |-> IF asked[q] # Idle /\ asked[q].by = x THEN Idle ELSE asked[q]]
    /\ barred' = [barred EXCEPT ![x] = told]
    /\ UNCHANGED <<override, version, jobs, told, selectionChanges>>

-----------------------------------------------------------------------------
(* The creation of a job.                                                  *)

\* A pack is imported, made from a variation, or published anew.
saveDesignTemplatePack(p) ==
    /\ selectionChanges < MaxChanges
    /\ selectionChanges' = selectionChanges + 1
    /\ version' = [version EXCEPT ![p] = @ + 1]
    /\ UNCHANGED <<override, process, jobs, asked, told, barred>>

Create(q, x, input) ==
    /\ asked[q] = Idle /\ Len(jobs) + Cardinality(Busy({"create"})) < MaxJobs
    /\ asked' = [asked EXCEPT ![q] = [op |-> "create", phase |-> "asked", by |-> x, barred |-> barred[x],
                                     input |-> input, versions |-> <<>>]]
    /\ UNCHANGED <<override, process, version, jobs, told, barred, selectionChanges>>

createDesignJob(q, x, i) ==
    Create(q, x, [plugins |-> i.plugins, packs |-> i.packs, auto |-> i.auto, count |-> i.count,
                  plan |-> IF i.planned THEN [v \in 1 .. i.count |-> v] ELSE <<>>,
                  source |-> i.source, of |-> 0, variation |-> 0])

\* Of what is stored with a job: its packs, by id, and its plan.
normalizeTemplateRequirements(j) == [packs |-> jobs[j].packs, plan |-> jobs[j].plan]

\* The input of a retry has no requirements on capabilities and no uploaded page.
Retry(j, v, count, plan) ==
    [plugins |-> {}, packs |-> normalizeTemplateRequirements(j).packs, auto |-> "absent",
     count |-> count, plan |-> plan, source |-> NoSource, of |-> j, variation |-> v]

retryJobAsAdmin(q, x, j) ==
    Create(q, x, Retry(j, 0, jobs[j].count, normalizeTemplateRequirements(j).plan))

deriveVariationRetryExplorationSnapshot(j, v) ==
    LET plan == normalizeTemplateRequirements(j).plan
    IN  IF plan = <<>> THEN <<>> ELSE <<plan[v]>>

retryVariationAsAdmin(q, x, j, v) ==
    Create(q, x, Retry(j, v, 1, deriveVariationRetryExplorationSnapshot(j, v)))

listCapabilities(x) == [p \in Plugin |-> IF p \in process[x].disabled THEN "disabled" ELSE "active"]

\* One plugin that is not active refuses the job.
resolvePluginSnapshot(x, plugins) == \A p \in plugins : listCapabilities(x)[p] = "active"

resolveCapabilitySnapshot(q) ==
    /\ asked[q].op = "create" /\ asked[q].phase = "asked" /\ capabilityGovernanceReady(asked[q].by)
    /\ asked' = [asked EXCEPT ![q] =
            IF resolvePluginSnapshot(@.by, @.input.plugins) THEN [@ EXCEPT !.phase = "governed"] ELSE Idle]
    /\ UNCHANGED <<override, process, version, jobs, told, barred, selectionChanges>>

getDesignTemplatePackById(p) == version[p] > 0

\* The first n of the packs on offer that are not among those given, in the
\* order of their listing.
listDesignTemplatePacks(n, packs) ==
    LET others == {p \in Pack \ ToSet(packs) : getDesignTemplatePackById(p)}
        rank(p) == Cardinality({o \in others : o <= p})
    IN  [i \in 1 .. Min({n, Cardinality(others)}) |-> CHOOSE p \in others : rank(p) = i]

\* Mutant: packs are added wherever they are fewer than the variations.
alwaysAutoDistribute(auto, packs) == auto # "no"

shouldAutoDistribute(auto, packs) == auto = "yes" \/ (auto = "absent" /\ packs = <<>>)

resolvePacks(input) ==
    LET missing == input.count - Len(input.packs)
    IN  IF shouldAutoDistribute(input.auto, input.packs) /\ missing > 0
        THEN input.packs \o listDesignTemplatePacks(missing, input.packs)
        ELSE input.packs

resolveDesignTemplatePacksForJob(q) ==
    LET packs == resolvePacks(asked[q].input)
    IN  /\ asked[q].op = "create" /\ asked[q].phase = "governed"
        /\ asked' = [asked EXCEPT ![q] =
                IF \E p \in ToSet(@.input.packs) : ~getDesignTemplatePackById(p) THEN Idle
                ELSE [@ EXCEPT !.phase = "resolved", !.input.packs = packs,
                               !.versions = [p \in ToSet(packs) |-> version[p]]]]
        /\ UNCHANGED <<override, process, version, jobs, told, barred, selectionChanges>>

\* The first of those that suit the planned variation best.
bestTemplatePackForExploration(packs, plan, n) ==
    IF n \notin DOMAIN plan THEN packs[1]
    ELSE packs[CHOOSE i \in DOMAIN packs :
                /\ \A k \in DOMAIN packs : Score[packs[k]][plan[n]] <= Score[packs[i]][plan[n]]
                /\ \A k \in 1 .. i - 1 : Score[packs[k]][plan[n]] < Score[packs[i]][plan[n]]]

\* A pack is used again when all have been used.
assignDesignTemplatePacks(count, packs, plan) ==
    LET upTo[n \in 0 .. count] ==
            IF n = 0 THEN [left |-> <<>>, given |-> <<>>]
            ELSE LET from == IF upTo[n - 1].left = <<>> THEN packs ELSE upTo[n - 1].left
                     best == bestTemplatePackForExploration(from, plan, n)
                 IN  [left |-> SelectSeq(from, LAMBDA p : p # best),
                      given |-> Append(upTo[n - 1].given, best)]
    IN  IF packs = <<>> THEN <<>> ELSE upTo[count].given

createJob(q) ==
    LET a == asked[q]  i == a.input
    IN  /\ a.op = "create" /\ a.phase = "resolved"
        /\ jobs' = Append(jobs, [plugins |-> i.plugins, barred |-> a.barred, packs |-> i.packs,
                                 versions |-> a.versions,
                                 assigned |-> assignDesignTemplatePacks(i.count, i.packs, i.plan),
                                 plan |-> i.plan, count |-> i.count, source |-> i.source,
                                 of |-> i.of, variation |-> i.variation])
        /\ asked' = [asked EXCEPT ![q] = Idle]
        /\ UNCHANGED <<override, process, version, told, barred, selectionChanges>>

Next ==
    \/ \E x \in Process :
        \/ listCapabilityGovernanceOverrides(x) \/ loadCapabilityGovernanceOverrides(x) \/ restart(x)
    \/ \E p \in Pack : saveDesignTemplatePack(p)
    \/ \E q \in Request :
        \/ \E x \in Process :
            \/ \E p \in Plugin, op \in Governing : askGovernance(q, x, p, op)
            \/ \E i \in Input : createDesignJob(q, x, i)
            \/ \E j \in DOMAIN jobs :
                \/ retryJobAsAdmin(q, x, j)
                \/ \E v \in 1 .. jobs[j].count : retryVariationAsAdmin(q, x, j, v)
        \/ upsertCapabilityGovernanceOverride(q) \/ setCapabilityPluginDisabled(q)
        \/ updateAdminCapabilityPluginGovernance(q)
        \/ resolveCapabilitySnapshot(q) \/ resolveDesignTemplatePacksForJob(q) \/ createJob(q)

Spec == Init /\ [][Next]_selectionVars

-----------------------------------------------------------------------------
\* Once an operator is told that a plugin is disabled, no job asked for later
\* uses it, at the process that answered and at one that starts afterwards
\* (capability-governance.test.ts).
DisabledStaysOut == \A j \in DOMAIN jobs : jobs[j].plugins \cap jobs[j].barred = {}

\* Refuted: a process that was running goes on using a plugin that another one
\* has disabled.
DisabledEverywhere == \A x \in Process : capabilityGovernanceReady(x) => told \subseteq process[x].disabled

\* A retry, and a retry of a retry, has the plan of the original, or of its
\* variation, and the variations of a retried job have the same packs whatever
\* was published since: the packs come back by id, none is added and none left
\* out, and the plan prefers them in the same order
\* (docs/modules/application-service/WORKLOG.md:96).
RetryRepeats ==
    \A j \in DOMAIN jobs : LET original == jobs[jobs[j].of]  v == jobs[j].variation IN
        jobs[j].of # 0 =>
            /\ jobs[j].plan = IF v = 0 \/ original.plan = <<>> THEN original.plan ELSE <<original.plan[v]>>
            /\ v = 0 /\ original.packs # <<>> => jobs[j].assigned = original.assigned

\* Refuted: a retry has none of the plugins of its original nor its uploaded
\* page, the packs as published since, and packs where there were to be none;
\* the retry of a variation chooses anew among the packs of all of them.
RetryKeepsSelection ==
    \A j \in DOMAIN jobs : LET original == jobs[jobs[j].of]  v == jobs[j].variation IN
        jobs[j].of # 0 =>
            /\ jobs[j].plugins = original.plugins /\ jobs[j].source = original.source
            /\ jobs[j].versions = original.versions
            /\ v # 0 /\ original.assigned # <<>> => jobs[j].assigned = <<original.assigned[v]>>
=============================================================================
