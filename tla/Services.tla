------------------------------- MODULE Services -------------------------------
(***************************************************************************)
(* Ten components that share no state, composed: each initial state        *)
(* selects the one that takes steps, the others stay where they begin.     *)
(* The properties of a component are those of its module.  The module of   *)
(* capability authoring is extended, the others are instances.             *)
(***************************************************************************)
EXTENDS CapabilityAuthoring, Integers

CONSTANTS
    MaxArtifacts, MaxContextJobs,                          \* contexts; Request are its workspaces
    Delivery, Variation, Refine, NoUnit, Concurrency, MaxCancels,     \* command-line agents
    OAuthProvider, MaxUsers, MaxFailures,                  \* accounts
    Module, PlannerInput, AnyInput,                        \* exploration planner
    Call, MaxUpsets,                                       \* variation editor
    Seeded, Found, MaxModelChanges, MaxModelOverlaps, MaxStarts,      \* model services
    Title, MaxSessionJobs, MaxRuntime, MaxSessionChanges, MaxSessionOverlaps,  \* design sessions
    Process, Plugin, Pack, Score, Selection, MaxSelected, MaxChanges,  \* job selections
    Lane, RootOf, LaneRetries, CapacityRetries, MaxDrafts  \* stream transcript

VARIABLES
    part,   \* the component that takes steps
    executor, artifactStore, reported, contextJobs, prompts,          \* contexts
    loop, phase, offer, child, exitedWell, timer, flooded, listed,    \* command-line agents
    queuedCancel, flagged, acked, cancels,
    users, workspaces, identity, accountReq, granted, failures,       \* accounts
    input, todo, sampled, verdict,                                    \* exploration planner
    op, handling, latest, post, awaited, calls, page, poll,           \* variation editor
    loading, loaded, astray, upsets,
    models, known, access, modelOps, up, modelsDecided, approved,     \* model services
    modelGranted, bounds,
    session, sessionJobs, made, live, sessionOps, home,               \* design sessions
    sessionDecided, changes, overlaps,
    override, process, version, selected, asked, told, barred,        \* job selections
    selectionChanges,
    streamMode, operation, serve, execs, written, watcher, response         \* stream transcript

contextVars == <<executor, artifactStore, reported, contextJobs, prompts>>
cliVars == <<loop, phase, offer, child, exitedWell, timer, flooded, listed,
             queuedCancel, flagged, acked, cancels>>
accountVars == <<users, workspaces, identity, accountReq, granted, failures>>
plannerVars == <<input, todo, sampled, verdict>>
editorVars == <<op, handling, latest, post, awaited, calls, page, poll, loading, loaded, astray, upsets>>
modelVars == <<models, known, access, modelOps, up, modelsDecided, approved, modelGranted, bounds>>
sessionVars == <<session, sessionJobs, made, live, sessionOps, home, sessionDecided, changes, overlaps>>
selectionVars == <<override, process, version, selected, asked, told, barred, selectionChanges>>
transcriptVars == <<streamMode, operation, serve, execs, written, watcher, response>>

\* The requests stand for workspaces.
Contexts == INSTANCE CapabilityContexts WITH
    Workspace <- Request, MaxJobs <- MaxContextJobs, artifacts <- artifactStore

Cli == INSTANCE CliAgentGateway WITH None <- NoUnit

Account == INSTANCE Accounts WITH Provider <- OAuthProvider, req <- accountReq

Planner == INSTANCE ExplorationPlanner WITH Input <- PlannerInput

Editor == INSTANCE VariationEditor

Models == INSTANCE ModelServices WITH
    MaxChanges <- MaxModelChanges, MaxOverlaps <- MaxModelOverlaps,
    ops <- modelOps, decided <- modelsDecided, granted <- modelGranted

Sessions == INSTANCE DesignSessions WITH
    Handler <- Request, MaxJobs <- MaxSessionJobs,
    MaxChanges <- MaxSessionChanges, MaxOverlaps <- MaxSessionOverlaps,
    row <- session, jobs <- sessionJobs, ops <- sessionOps, page <- home, decided <- sessionDecided

\* The uploaded page is told apart by nothing but its absence.
Selections == INSTANCE JobSelections WITH
    Input <- Selection, Source <- {Refine}, NoSource <- NoUnit, MaxJobs <- MaxSelected, jobs <- selected

Stream == INSTANCE StreamTranscript WITH
    mode <- streamMode, files <- written, lines <- response

ASSUME ServicesAssumption ==
    /\ Assumptions /\ Cli!Assumptions /\ Account!Assumptions
    /\ Planner!Assumptions /\ Editor!Assumptions
    /\ Models!Assumptions /\ Sessions!Assumptions /\ Selections!Assumptions
    /\ Stream!Assumptions /\ Contexts!Assumptions

ServicesInit ==
    /\ part \in {"authoring", "contexts", "cli", "accounts", "planner", "editor",
                "models", "sessions", "selections", "stream"}
    /\ part = "planner" \/ input = AnyInput
    /\ Planner!Init
    /\ Init /\ Contexts!Init /\ Cli!Init /\ Account!Init
    /\ Editor!Init /\ Models!Init /\ Sessions!Init /\ Selections!Init /\ Stream!Init
    /\ \/ part = "stream"
       \/ streamMode = "spawn" /\ \A r \in Stream!Root : written[r]["index.html"] = Stream!NoFile
    /\ part = "contexts" \/ executor = [base |-> "mock", ark |-> FALSE]

\* The others are left alone first, which TLC then does once for all steps of the one.
ServicesNext ==
    /\ UNCHANGED part
    /\ part # "authoring" => UNCHANGED vars
    /\ part # "contexts" => UNCHANGED contextVars
    /\ part # "cli" => UNCHANGED cliVars
    /\ part # "accounts" => UNCHANGED accountVars
    /\ part # "planner" => UNCHANGED plannerVars
    /\ part # "editor" => UNCHANGED editorVars
    /\ part # "models" => UNCHANGED modelVars
    /\ part # "sessions" => UNCHANGED sessionVars
    /\ part # "selections" => UNCHANGED selectionVars
    /\ part # "stream" => UNCHANGED transcriptVars
    /\ part = "authoring" => Next
    /\ part = "contexts" => Contexts!Next
    /\ part = "cli" => Cli!Next
    /\ part = "accounts" => Account!Next
    /\ part = "planner" => Planner!Next
    /\ part = "editor" => Editor!Next
    /\ part = "models" => Models!Next
    /\ part = "sessions" => Sessions!Next
    /\ part = "selections" => Selections!Next
    /\ part = "stream" => Stream!Next

servicesVars == <<part, vars, contextVars, cliVars, accountVars, plannerVars, editorVars,
          modelVars, sessionVars, selectionVars, transcriptVars>>

ServicesSpec == ServicesInit /\ [][ServicesNext]_servicesVars

-----------------------------------------------------------------------------
\* The runtime is told of a context what was reported of it in the job's own
\* workspace (service.ts, babelOClient.ts).
ContextsAsReported == part = "contexts" => Contexts!ContextsAsReported

\* A running process of a job can be found by a cancellation and has its
\* timer armed (cliAgentGateway.ts).
ProcessesWatched == part = "cli" => Cli!ProcessesWatched

\* Who was answered with a cookie can log in again the same way
\* (authApplicationService.ts).
AnsweredCanReturn == part = "accounts" => Account!AnsweredCanReturn

\* A request that a module graph can serve gets its plan, with the locked
\* modules in it and the modules spread evenly (explorationPlanner.ts).
RequestServed == part = "planner" => Planner!RequestServed

\* Every variation of a plan can be retried on its own, if no module asks for
\* more than one (explorationPlanner.ts, service.ts).
VariationsRetryable == part = "planner" => Planner!VariationsRetryable

\* When everything is over the page does not go on showing a refine, unless a
\* call failed where no other answer was to come (page.tsx).
QuietPageSettled == part = "editor" => Editor!QuietPageSettled

\* A refine that was shown as cancelled stays so (page.tsx).
CancelledIsLeft == part = "editor" => Editor!CancelledIsLeft

\* What users may choose is what operators decided (postgresRepository.ts).
OperatorsDecide == part = "models" => Models!OperatorsDecide

\* Without overlaps the row of a session is what the answers said, and the home
\* page shows it (service.ts, page.tsx).
LastWordStands == part = "sessions" => Sessions!LastWordStands

\* Once an operator is told that a plugin is disabled, no job asked for later
\* uses it, where it was told and in a process started later (service.ts).
DisabledStaysOut == part = "selections" => Selections!DisabledStaysOut

\* A retry has the plan of its original and the same packs on the same
\* variations (service.ts).
RetryRepeats == part = "selections" => Selections!RetryRepeats

\* What a response ends with is what its execution and the refine operation say,
\* and the page in it is the one that is there (app.ts).
TranscriptTruthful == part = "stream" => Stream!TranscriptTruthful
=============================================================================
