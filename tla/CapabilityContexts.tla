-------------------------- MODULE CapabilityContexts --------------------------
(***************************************************************************)
(* The contexts that go into a generation: analyses of what the user gave, *)
(* research and images that MCP tools produced, from the executor that     *)
(* makes them to the line the runtime is told (apps/api: service.ts,       *)
(* mcpExecutor.ts, serviceFactory.ts; the runtime gateway's               *)
(* babelOClient.ts).                                                       *)
(* A context is stored under a workspace, an id and a path that its kind   *)
(* has; what a job is given are ids, looked up again in the workspace of   *)
(* the job's session when the job is created and when it is retried.  The  *)
(* images of a job are kept as the client passed them.                     *)
(***************************************************************************)
EXTENDS Integers, Sequences, SequencesExt

CONSTANTS
    Workspace,
    MaxArtifacts,   \* bound: artifacts stored
    MaxJobs         \* bound: jobs created

\* What the module assumes of its constants; the module of a run asserts it.
Assumptions == MaxArtifacts \in Nat /\ MaxJobs \in Nat

VARIABLES
    executor,       \* what the deployment executes tools with
    artifacts,      \* the artifact store, in the order of creation: the ids are positions
    reported,       \* what analyses and invocations answered, references of the store
    contextJobs,    \* the jobs' stored requirements
    prompts         \* what the runtime was told of the contexts of each job it ran

vars == <<executor, artifacts, reported, contextJobs, prompts>>

None == "none"
NoPrompt == [research |-> None]
Review == {"auto_reviewed", "human_review_required"}
ResearchTool == {"search", "readPage", "scanSocial"}
Provider == {"mock", "ark_seedream", "server"}
Id == 1 .. MaxArtifacts

\* What is stored; flagged is whether its risk flags say that it is a mock's.
ResearchContext == [kind : {"research_context"}, flagged : BOOLEAN, review : Review, sources : 0 .. 1]
ImageGeneration == [kind : {"image_generation"}, provider : Provider,
                    safety : {"passed", "review_required"}]
DataIntake == [kind : {"data_intake_analysis"}, review : Review]
Content == ResearchContext \cup ImageGeneration \cup DataIntake
Stored == [workspace : Workspace, content : Content]

Reference ==
    [id : Id, kind : {"research_context"}, review : Review, sources : 0 .. 1,
     provenance : {"mock", "reviewed_external", None}]
    \cup [id : Id, kind : {"image_generation"}, provider : Provider,
          safety : {"passed", "review_required"}]
    \cup [id : Id, kind : {"data_intake_analysis"}, review : Review]
Report == [workspace : Workspace, reference : Reference]

TypeOK ==
    /\ executor \in [base : {"mock", "http"}, ark : BOOLEAN]
    /\ artifacts \in Seq(Stored) /\ Len(artifacts) <= MaxArtifacts
    /\ reported \subseteq Report
    /\ Len(contextJobs) <= MaxJobs /\ Len(prompts) = Len(contextJobs)
    /\ \A j \in DOMAIN contextJobs :
        /\ contextJobs[j].workspace \in Workspace
        /\ contextJobs[j].of \in 0 .. MaxJobs
        /\ ToSet(contextJobs[j].research) \cup ToSet(contextJobs[j].images) \subseteq Reference
        /\ ToSet(contextJobs[j].intake) \subseteq Reference

\* createMcpExecutorFromEnv: the deployment names a server or gets the mock, and
\* Ark makes the images if it is told so, whatever executes the rest.
Init ==
    /\ executor \in [base : {"mock", "http"}, ark : BOOLEAN]
    /\ artifacts = <<>> /\ reported = {}
    /\ contextJobs = <<>> /\ prompts = <<>>

-----------------------------------------------------------------------------
(* What the tools answer: a status and what the data holds.                *)

Result(status, data) == [status |-> status, data |-> data]
NoData == [kind |-> None]
Unavailable == Result("unavailable", NoData)

\* mockResearchContextArtifact: only what scanSocial makes is not flagged as a
\* mock's.
mockResearchContext(tool) ==
    [kind |-> "research_context", flagged |-> tool # "scanSocial",
     review |-> "auto_reviewed", sources |-> 1]

image(provider, safety) == [kind |-> "image_generation", provider |-> provider, safety |-> safety]

\* imageGenerationResult: an image that the policy blocks is an error.
imageGenerationResult(provider, unsafe) ==
    IF unsafe THEN Result("error", image(provider, "blocked"))
    ELSE Result("ok", image(provider, "passed"))

\* MockMcpExecutor; it has no other tools but one that makes no context.
MockAnswers(tool, unsafe) ==
    IF tool \in ResearchTool THEN {Result("ok", mockResearchContext(tool))}
    ELSE {imageGenerationResult("mock", unsafe)}

\* HttpMcpExecutor: an answer that is not well-formed, is another invocation's
\* or does not come is no answer; what the data holds the server decides.
HttpAnswers(tool) ==
    {Unavailable, Result("denied", NoData), Result("error", NoData), Result("ok", NoData)} \cup
    IF tool \in ResearchTool
    THEN {Result("ok", [kind |-> "research_context", flagged |-> flagged, review |-> review, sources |-> 1]) :
            flagged \in BOOLEAN, review \in Review}
    ELSE {Result("ok", image("server", safety)) : safety \in {"passed", "review_required", "blocked"}}

\* ArkSeedreamImageMcpExecutor: it asks nobody for an image that is not to be
\* made, and leaves other tools to the deployment's executor.
ArkAnswers(unsafe) ==
    IF unsafe THEN {imageGenerationResult("ark_seedream", TRUE)}
    ELSE {Unavailable, imageGenerationResult("ark_seedream", FALSE)}

Answers(tool, unsafe) ==
    IF executor.ark /\ tool \notin ResearchTool THEN ArkAnswers(unsafe)
    ELSE IF executor.base = "http" THEN HttpAnswers(tool) ELSE MockAnswers(tool, unsafe)

-----------------------------------------------------------------------------
(* Storing and looking up.                                                 *)

\* isResearchContextArtifact, isImageGenerationArtifact: what is worth storing.
isArtifact(data) == data # NoData /\ (data.kind = "image_generation" => data.safety # "blocked")

provenance(context) == IF context.flagged THEN "mock" ELSE "reviewed_external"

\* The reference that an answer gives of what was stored.
reference(id, content) ==
    CASE content.kind = "research_context" ->
            [id |-> id, kind |-> content.kind, review |-> content.review,
             sources |-> content.sources, provenance |-> provenance(content)]
      [] content.kind = "image_generation" ->
            [id |-> id, kind |-> content.kind, provider |-> content.provider, safety |-> content.safety]
      [] content.kind = "data_intake_analysis" ->
            [id |-> id, kind |-> content.kind, review |-> content.review]

put(ws, content) ==
    /\ Len(artifacts) < MaxArtifacts
    /\ artifacts' = Append(artifacts, [workspace |-> ws, content |-> content])
    /\ reported' = reported \cup
        {[workspace |-> ws, reference |-> reference(Len(artifacts'), content)]}
    /\ UNCHANGED <<executor, contextJobs, prompts>>

\* Mutant: the workspace is not part of where an artifact is looked up.
foundAnywhere(ws, id, kind) == id \in DOMAIN artifacts /\ artifacts[id].content.kind = kind

\* The store has the id in the workspace, under the path of the kind.
found(ws, id, kind) ==
    id \in DOMAIN artifacts /\ artifacts[id].workspace = ws /\ artifacts[id].content.kind = kind

\* resolveResearchContextArtifactReference: the reference is made anew; it does
\* not say where the research is from.
resolveResearchContext(id) == [reference(id, artifacts[id].content) EXCEPT !.provenance = None]

\* resolveResearchContextArtifactReferences: each id once, in the order given.
resolveResearchContexts(ids) ==
    LET once[n \in 0 .. Len(ids)] ==
            IF n = 0 THEN <<>>
            ELSE IF Contains(once[n - 1], ids[n]) THEN once[n - 1] ELSE Append(once[n - 1], ids[n])
        named == once[Len(ids)]
    IN  [n \in DOMAIN named |-> resolveResearchContext(named[n])]

-----------------------------------------------------------------------------
(* The operations.                                                         *)

\* analyzeDataIntake: what comes from elsewhere, from the user's memory or with
\* no text at all is for a human to review.
analyzeDataIntake(ws) ==
    \E risky \in BOOLEAN :
        put(ws, [kind |-> "data_intake_analysis",
                 review |-> IF risky THEN "human_review_required" ELSE "auto_reviewed"])

\* executeMcpInvocation of a tool that makes a context, and
\* persistMcpCapabilityArtifacts: an answer that is not ok, or holds nothing
\* worth storing, stores nothing.
executeMcpInvocation(ws) ==
    \E tool \in ResearchTool \cup {"generateArkSeedreamImage"}, unsafe \in BOOLEAN :
        \E answer \in Answers(tool, unsafe) :
            /\ answer.status = "ok" /\ isArtifact(answer.data)
            /\ put(ws, answer.data)

\* createDesignJobInternal: an id that is not in the workspace refuses the job.
createJob(ws, research, images, intake, original) ==
    /\ Len(contextJobs) < MaxJobs
    /\ \A n \in DOMAIN research : found(ws, research[n], "research_context")
    /\ \A n \in DOMAIN intake : found(ws, intake[n], "data_intake_analysis")
    /\ contextJobs' = Append(contextJobs,
            [workspace |-> ws, research |-> resolveResearchContexts(research), images |-> images,
             intake |-> [n \in DOMAIN intake |-> reference(intake[n], artifacts[intake[n]].content)],
             of |-> original])
    /\ prompts' = Append(prompts, NoPrompt)
    /\ UNCHANGED <<executor, artifacts, reported>>

\* A client names contexts, images as it was told of them, and an analysis.
createDesignJob(ws) ==
    \E research \in {<<>>} \cup {<<i>> : i \in Id} \cup {<<i, k>> : i \in Id, k \in Id},
       images \in {<<>>} \cup {<<r.reference>> : r \in {s \in reported :
                                    s.workspace = ws /\ s.reference.kind = "image_generation"}},
       intake \in {<<>>} \cup {<<i>> : i \in Id} :
        createJob(ws, research, images, intake, 0)

Ids(references) == [n \in DOMAIN references |-> references[n].id]

\* retryJobAsAdmin, retryVariationAsAdmin: the ids and the references of the
\* original name the same contexts, which are looked up again.
retryJobAsAdmin(j) ==
    LET job == contextJobs[j] IN
        createJob(job.workspace, Ids(job.research) \o Ids(job.research), job.images, Ids(job.intake), j)

\* capabilityArtifactPromptBlock: three contexts and three images at most.
Told(references) == SubSeq(references, 1, IF Len(references) < 3 THEN Len(references) ELSE 3)

researchLine(context) ==
    IF context.provenance = "mock" THEN [id |-> context.id, says |-> "placeholder"]
    ELSE [id |-> context.id, says |-> "cited", review |-> context.review, sources |-> context.sources]

imageLine(asset) ==
    IF asset.provider = "mock" THEN [id |-> asset.id, says |-> "placeholder"]
    ELSE [id |-> asset.id, says |-> "available", provider |-> asset.provider, safety |-> asset.safety]

capabilityArtifactPromptBlock(job) ==
    LET research == Told(job.research)
        images == Told(job.images)
    IN [research |-> [n \in DOMAIN research |-> researchLine(research[n])],
        images |-> [n \in DOMAIN images |-> imageLine(images[n])]]

\* processQueuedDesignJob: the stored requirements, normalized, make the prompt.
processQueuedDesignJob(j) ==
    /\ prompts[j] = NoPrompt
    /\ prompts' = [prompts EXCEPT ![j] = capabilityArtifactPromptBlock(contextJobs[j])]
    /\ UNCHANGED <<executor, artifacts, reported, contextJobs>>

Next ==
    \/ \E ws \in Workspace : analyzeDataIntake(ws) \/ executeMcpInvocation(ws) \/ createDesignJob(ws)
    \/ \E j \in DOMAIN contextJobs : retryJobAsAdmin(j) \/ processQueuedDesignJob(j)

Spec == Init /\ [][Next]_vars

-----------------------------------------------------------------------------
(* Properties.                                                             *)

\* The line says of the context what the answer said that reported it.
AsReported(line, report) ==
    /\ report.reference.id = line.id
    /\ line.says = "cited" =>
        report.reference.review = line.review /\ report.reference.sources = line.sources
    /\ line.says = "available" =>
        report.reference.provider = line.provider /\ report.reference.safety = line.safety

\* What the runtime is told of a context is what was reported of it in the
\* job's own workspace, once per context, and a retry tells it the same
\* (service.ts:860-864, :2368-2427, babelOClient.ts:606-644).
ContextsAsReported ==
    \A j \in DOMAIN prompts : prompts[j] # NoPrompt =>
        LET job == contextJobs[j]
            own == {r \in reported : r.workspace = job.workspace}
            lines == prompts[j].research
        IN /\ \A line \in ToSet(lines) \cup ToSet(prompts[j].images) :
                \E report \in own : AsReported(line, report)
           /\ \A m, n \in DOMAIN lines : lines[m].id = lines[n].id => m = n
           /\ job.of # 0 => prompts[job.of] \in {NoPrompt, prompts[j]}

\* Refuted: the runtime is told that research is no source when the answer that
\* reported it said that it is a mock's.  A job's reference, made anew, has no
\* provenance, and without one the research is to be cited (service.ts:4009,
\* babelOClient.ts:619).  Of what scanSocial's mock makes not even the answer
\* says so, and the property does not speak of it.
MocksAreMarked ==
    \A j \in DOMAIN prompts : prompts[j] # NoPrompt =>
        \A line \in ToSet(prompts[j].research), report \in reported :
            report.reference.id = line.id /\ report.reference.provenance = "mock"
                => line.says = "placeholder"
=============================================================================
