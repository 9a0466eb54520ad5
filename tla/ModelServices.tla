---------------------------- MODULE ModelServices ----------------------------
(***************************************************************************)
(* The catalogue of model services on PostgreSQL (apps/api: service.ts,    *)
(* postgresRepository.ts): operators enable models and choose the default, *)
(* a synchronization adds what the runtime reports and disables what it no *)
(* longer does, and every process that starts writes the seeded model.     *)
(* Rows are read, changed in memory and written back whole; the API keeps  *)
(* a copy of them, which tells a synchronization what is missing.          *)
(***************************************************************************)
EXTENDS Naturals, FiniteSets

CONSTANTS
    Seeded,       \* the seeded default model, mdl_babelo_default
    Found,        \* models that the runtime may report
    Request,      \* operators' requests that may be in progress at once
    MaxChanges,   \* bound: requests in all
    MaxOverlaps,  \* bound: requests that begin during another, or are cut off
    MaxStarts     \* bound: starts of processes

\* What the module assumes of its constants; the module of a run asserts it.
Assumptions ==
    /\ Seeded \notin Found /\ IsFiniteSet(Found)
    /\ MaxChanges \in Nat /\ MaxOverlaps \in Nat /\ MaxStarts \in Nat

VARIABLES
    models,    \* model -> its row of model_services
    known,     \* model -> the API process's copy of its row
    access,    \* the row of user_model_access of one user and the seeded model
    ops,       \* request -> what it does
    up,        \* the API process runs
    decided,   \* model -> what was last decided on it
    approved,  \* found models that an operator ever enabled
    granted,   \* what was last decided on the user's access
    bounds     \* the counters

vars == <<models, known, access, ops, up, decided, approved, granted, bounds>>

Model == {Seeded} \cup Found
NoRow == [stored |-> FALSE, enabled |-> FALSE, default |-> FALSE]
Row(enabled, default) == [stored |-> TRUE, enabled |-> enabled, default |-> default]
Idle == [op |-> "idle"]
Busy == \E q \in Request : ops[q] # Idle

\* seedModelServices: the one of its models that is the default.
SeedRow == Row(TRUE, TRUE)

\* runtimeModelsToModelServices: a model that is reported for the first time.
Discovered == Row(FALSE, FALSE)

\* A switch that a request may leave as it is.
Switch == {"on", "off", "same"}
Switched(switch, old) == switch = "on" \/ (switch = "same" /\ old)

TypeOK ==
    /\ \A m \in Model : {models[m], known[m]} \subseteq {NoRow} \cup {Row(e, d) : e, d \in BOOLEAN}
    /\ access \in {"none", "on", "off"} /\ granted \in {"on", "off"}
    /\ \A q \in Request :
        ops[q].op \in {"idle", "reading", "merging", "marking", "clearing", "setting",
                       "granting", "listing"}
    /\ up \in BOOLEAN /\ approved \subseteq Found
    /\ bounds \in [changes : 0 .. MaxChanges, overlaps : 0 .. MaxOverlaps, starts : 0 .. MaxStarts]

\* A process has started once; nothing was synchronized yet.
Init ==
    /\ models = [m \in Model |-> IF m = Seeded THEN SeedRow ELSE NoRow]
    /\ known = models /\ decided = models
    /\ access = "none" /\ granted = "on" /\ approved = {}
    /\ ops = [q \in Request |-> Idle] /\ up = TRUE
    /\ bounds = [changes |-> 0, overlaps |-> 0, starts |-> 0]

-----------------------------------------------------------------------------
Goto(q, op) == ops' = [ops EXCEPT ![q] = op]

Begin(q, op) ==
    /\ up /\ ops[q] = Idle
    /\ bounds.changes < MaxChanges /\ (Busy => bounds.overlaps < MaxOverlaps)
    /\ bounds' = [bounds EXCEPT !.changes = @ + 1, !.overlaps = IF Busy THEN @ + 1 ELSE @]
    /\ Goto(q, op)

\* model_services_single_default_idx: only one row may be the default.
Clashes(m, row) == row.default /\ \E n \in Model \ {m} : models[n].default

\* persistModelService, and the copy after it.
Persist(m, row) ==
    /\ models' = [models EXCEPT ![m] = row]
    /\ known' = [known EXCEPT ![m] = row]

\* The loop over the missing models goes through the copy as it is when the
\* loop begins.
Marking(reported, copy) ==
    LET missing == {m \in Found \ reported : copy[m].stored}
    IN  IF missing = {} THEN Idle ELSE [op |-> "marking", stale |-> [m \in missing |-> copy[m]]]

-----------------------------------------------------------------------------
(* syncAdminModels and upsertDiscoveredModelServices.                      *)

syncAdminModels(q, reported) ==
    /\ Begin(q, IF reported = {} THEN Marking({}, known)
                ELSE [op |-> "reading", left |-> reported, reported |-> reported])
    /\ UNCHANGED <<models, known, access, up, decided, approved, granted>>

readReported(q) ==
    /\ ops[q].op = "reading"
    /\ \E m \in ops[q].left :
        Goto(q, [op |-> "merging", left |-> ops[q].left, reported |-> ops[q].reported,
                 model |-> m, read |-> models[m]])
    /\ UNCHANGED <<models, known, access, up, decided, approved, granted, bounds>>

\* Mutant: a model that is reported again is written as if it were new.
MergedAnew(read) == Discovered

\* The row keeps what operators decided, as it was read.  A default that is
\* none any more violates the index and ends the synchronization.
Merged(read) == IF read.stored THEN read ELSE Discovered

mergeReported(q) ==
    LET o == ops[q]
    IN  /\ o.op = "merging"
        /\ IF Clashes(o.model, Merged(o.read))
           THEN Goto(q, Idle) /\ UNCHANGED <<models, known, decided>>
           ELSE /\ Persist(o.model, Merged(o.read))
                /\ decided' = IF o.read.stored THEN decided
                              ELSE [decided EXCEPT ![o.model] = Discovered]
                /\ Goto(q, IF o.left = {o.model} THEN Marking(o.reported, known')
                           ELSE [op |-> "reading", left |-> o.left \ {o.model},
                                 reported |-> o.reported])
        /\ UNCHANGED <<access, up, approved, granted, bounds>>

\* A model that was not reported is disabled; it may stay the default.
markMissing(q) ==
    /\ ops[q].op = "marking"
    /\ \E m \in DOMAIN ops[q].stale :
        LET row == [ops[q].stale[m] EXCEPT !.enabled = FALSE]
            rest == DOMAIN ops[q].stale \ {m}
        IN  IF Clashes(m, row)
            THEN Goto(q, Idle) /\ UNCHANGED <<models, known, decided>>
            ELSE /\ Persist(m, row)
                 /\ decided' = [decided EXCEPT ![m].enabled = FALSE]
                 /\ Goto(q, IF rest = {} THEN Idle
                            ELSE [op |-> "marking", stale |-> [n \in rest |-> ops[q].stale[n]]])
    /\ UNCHANGED <<access, up, approved, granted, bounds>>

-----------------------------------------------------------------------------
(* updateAdminModel.                                                       *)

updateAdminModel(q, m, enabled, default) ==
    /\ models[m].stored
    /\ Begin(q, [op |-> IF default = "on" THEN "clearing" ELSE "setting",
                 model |-> m, read |-> models[m], enabled |-> enabled, default |-> default])
    /\ UNCHANGED <<models, known, access, up, decided, approved, granted>>

\* One statement takes the default from all other rows.
clearDefault(q) ==
    LET Cleared(rows) == [n \in Model |->
            IF n = ops[q].model THEN rows[n] ELSE [rows[n] EXCEPT !.default = FALSE]]
    IN  /\ ops[q].op = "clearing"
        /\ models' = Cleared(models) /\ known' = Cleared(known)
        /\ Goto(q, [ops[q] EXCEPT !.op = "setting"])
        /\ UNCHANGED <<access, up, decided, approved, granted, bounds>>

Updated(o) == Row(Switched(o.enabled, o.read.enabled), Switched(o.default, o.read.default))

\* What an operator means: this, and at most one default.
Decide(o) == [n \in Model |->
    IF n = o.model
    THEN Row(Switched(o.enabled, decided[n].enabled), Switched(o.default, decided[n].default))
    ELSE [decided[n] EXCEPT !.default = @ /\ o.default # "on"]]

saveModel(q) ==
    LET o == ops[q]
    IN  /\ o.op = "setting"
        /\ IF Clashes(o.model, Updated(o))
           THEN UNCHANGED <<models, known, decided, approved>>
           ELSE /\ Persist(o.model, Updated(o))
                /\ decided' = Decide(o)
                /\ approved' = IF o.enabled = "on" THEN approved \cup ({o.model} \cap Found)
                               ELSE approved
        /\ Goto(q, Idle)
        /\ UNCHANGED <<access, up, granted, bounds>>

-----------------------------------------------------------------------------
(* A user's access to the seeded model.                                    *)

updateUserModelAccess(q, enabled) ==
    /\ Begin(q, [op |-> "granting", enabled |-> enabled])
    /\ UNCHANGED <<models, known, access, up, decided, approved, granted>>

saveAccess(q) ==
    /\ ops[q].op = "granting"
    /\ access' = ops[q].enabled /\ granted' = ops[q].enabled
    /\ Goto(q, Idle)
    /\ UNCHANGED <<models, known, up, decided, approved, bounds>>

\* ensureUserModelAccessRows: showing a user's access stores it when there is
\* no row; the write is one that overwrites.
getAdminUserModelAccess(q) ==
    /\ access = "none"
    /\ Begin(q, [op |-> "listing"])
    /\ UNCHANGED <<models, known, access, up, decided, approved, granted>>

ensureAccess(q) ==
    /\ ops[q].op = "listing"
    /\ access' = "on"
    /\ Goto(q, Idle)
    /\ UNCHANGED <<models, known, up, decided, approved, granted, bounds>>

-----------------------------------------------------------------------------
\* PostgresRepository.connect: the seeded model is written before the rows are
\* read.  When it clashes the process ends; the API's requests end with it.
start(isApi) ==
    /\ bounds.starts < MaxStarts
    /\ Busy => bounds.overlaps < MaxOverlaps
    /\ bounds' = [bounds EXCEPT !.starts = @ + 1, !.overlaps = IF Busy THEN @ + 1 ELSE @]
    /\ models' = IF Clashes(Seeded, SeedRow) THEN models ELSE [models EXCEPT ![Seeded] = SeedRow]
    /\ IF isApi
       THEN /\ ops' = [q \in Request |-> Idle] /\ known' = models'
            /\ up' = ~Clashes(Seeded, SeedRow)
       ELSE UNCHANGED <<ops, known, up>>
    /\ UNCHANGED <<access, decided, approved, granted>>

Next ==
    \/ \E isApi \in BOOLEAN : start(isApi)
    \/ \E q \in Request :
        \/ \E reported \in SUBSET Found : syncAdminModels(q, reported)
        \/ readReported(q) \/ mergeReported(q) \/ markMissing(q)
        \/ \E m \in Model, enabled, default \in Switch : updateAdminModel(q, m, enabled, default)
        \/ clearDefault(q) \/ saveModel(q)
        \/ \E enabled \in {"on", "off"} : updateUserModelAccess(q, enabled)
        \/ saveAccess(q) \/ getAdminUserModelAccess(q) \/ ensureAccess(q)

Spec == Init /\ [][Next]_vars

-----------------------------------------------------------------------------
(* Properties.                                                             *)

\* listUserModelOptions, canUserUseModel: what the user may choose.
Options == {m \in Model : models[m].enabled /\ (m = Seeded => access # "off")}

\* A model that the runtime reported is offered only if an operator once
\* enabled it, whatever overlaps, fails or starts; and without overlaps the
\* catalogue is what was decided: synchronizations keep decisions, models that
\* vanished stay off when they come back, the last choice is the default, and
\* showing a user's access changes nothing (the seeded model as long as no
\* process starts).
OperatorsDecide ==
    /\ Options \cap Found \subseteq approved
    /\ bounds.overlaps = 0 /\ ~Busy =>
        /\ \A m \in Found : models[m] = decided[m]
        /\ bounds.starts = 0 =>
            /\ models = decided /\ known = models
            /\ Seeded \in Options <=> decided[Seeded].enabled /\ granted = "on"

\* A process that starts comes up.  It does not hold: once another model is the
\* default the seeded one violates the index (postgresRepository.ts:176).
StartsAgain == up

\* An operator's denial stays.  It does not hold: a list of the user's access
\* that found no row overwrites it (postgresRepository.ts:2858).
DenialStays == granted = "off" /\ ~Busy => Seeded \notin Options
=============================================================================
