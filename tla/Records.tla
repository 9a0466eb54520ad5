-------------------------------- MODULE Records --------------------------------
(***************************************************************************)
(* What is kept of a variation's pages and of MCP calls, composed: the     *)
(* artifacts and the audit records, which share no state.  Each initial    *)
(* state selects the one that takes steps, or neither.  The module of the  *)
(* audit records is extended, that of the artifacts is an instance.        *)
(***************************************************************************)
EXTENDS McpInvocations

CONSTANTS Writer, ArtifactRequest, Stores, MaxPages, MaxRendering, MaxTotal     \* artifacts

VARIABLES
    part,   \* what takes steps
    store, html, files, shots, shotFiles, variation, jobs, exports, shares, writer, req,
    background, early, overlapped, pages, asks        \* artifacts

artifactVars == <<store, html, files, shots, shotFiles, variation, jobs, exports, shares,
                  writer, req, background, early, overlapped, pages, asks>>

Versions == INSTANCE Artifacts WITH Request <- ArtifactRequest

ASSUME RecordsAssumption == Versions!Assumptions /\ Assumptions

RecordsInit ==
    /\ part \in {"artifacts", "mcp", "none"}
    /\ Init /\ Versions!Init
    /\ part = "artifacts" \/ store = "memory"

RecordsNext ==
    /\ UNCHANGED part
    /\ IF part = "artifacts" THEN Versions!Next ELSE UNCHANGED artifactVars
    /\ IF part = "mcp" THEN Next ELSE UNCHANGED vars

recordsVars == <<part, vars, artifactVars>>

RecordsSpec == RecordsInit /\ [][RecordsNext]_recordsVars

-----------------------------------------------------------------------------
\* While no two streams overlap a version's file has its own page
\* (artifactApplicationService.ts).
VersionsStayApart == part = "artifacts" => Versions!VersionsStayApart

\* An archive that a client is handed has the assets of its page, unless that
\* was made current before it had them (artifactOperations.ts, service.ts).
ExportsWhole == part = "artifacts" => Versions!ExportsWhole

\* Every archive a client is handed has the assets of its page.  It does not hold
\* (service.ts, publishAutomationLoopEventsForArtifact).
ArchivesCarryAssets == part = "artifacts" => Versions!ArchivesCarryAssets
=============================================================================
