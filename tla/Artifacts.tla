------------------------------- MODULE Artifacts -------------------------------
(***************************************************************************)
(* The artifacts of one variation: its HTML versions with their assets,    *)
(* the screenshots a queue renders of them, exports and shares             *)
(* (artifactApplicationService.ts, artifactOperations.ts,                  *)
(* adminArtifactGovernanceService.ts and the materialization in            *)
(* service.ts), over the files of LocalArtifactStore and the rows of the   *)
(* repository.                                                             *)
(* A file's key is computed from the version it belongs to, a row's id is  *)
(* fresh.  PostgreSQL refuses a second row of a key and a second row of a  *)
(* version; the memory store refuses nothing.  In PostgreSQL a change of   *)
(* the variation reads its row and writes the whole row back.              *)
(* A page whose quality is not `pass' is made current as soon as it has a  *)
(* row, by a call nobody waits for: at once in memory, and in PostgreSQL   *)
(* whenever the call gets there, be it after its stream has died.          *)
(***************************************************************************)
EXTENDS Naturals, Sequences, FiniteSets, FiniteSetsExt

CONSTANTS
    Writer,         \* streams that materialize artifacts: the job's and a refine's
    Request,        \* requests that may be in progress at once
    Stores,         \* the repositories: "memory", "postgres"
    MaxPages,       \* bound: pages the runtime sends
    MaxRendering,   \* bound: screenshot jobs under way at once
    MaxTotal        \* bound: pages, flawed pages, restores, repairs, exports and shares asked for,
                    \* streams that overlap another or die, and renders that fail, all together

\* What the module assumes of its constants; the module of a run asserts it.
Assumptions ==
    /\ Stores \subseteq {"memory", "postgres"} /\ {MaxPages, MaxRendering, MaxTotal} \subseteq Nat

VARIABLES
    store,
    html,       \* the rows of HTML artifacts, in the order of their creation
    files,      \* version -> the page in the file of that version
    shots,      \* the HTML rows that have a row of a screenshot
    shotFiles,  \* version -> the page the screenshot file of that version shows
    variation,  \* the variation's row: its HTML artifact and whose screenshot, 0 for none
    jobs,       \* idempotency key -> how far the screenshot job enqueued under it is
    exports,    \* the rows of export archives
    shares,     \* the share links
    writer, req,    \* what each stream and each request is doing
    background, \* the calls of flawed pages that have read the variation and not yet written it
    early,      \* versions made current before their assets were written: by a restore, or
                \* by the background call of a flawed page
    overlapped,   \* whether two streams have overlapped
    pages, asks   \* how much of each bound is spent

vars == <<store, html, files, shots, shotFiles, variation, jobs, exports, shares,
          writer, req, background, early, overlapped, pages, asks>>
files_ == <<html, files, shots, shotFiles>>
Idle == [pc |-> "idle"]
Row == 1 .. Len(html)
spent == <<overlapped, pages, asks>>

Ask == pages + asks < MaxTotal /\ asks' = asks + 1 /\ UNCHANGED <<overlapped, pages>>

Init ==
    /\ store \in Stores
    /\ html = <<>> /\ shots = {} /\ jobs = <<>> /\ exports = {} /\ shares = <<>>
    /\ files = [v \in 1 .. MaxPages |-> 0] /\ shotFiles = [v \in 1 .. MaxPages |-> 0]
    /\ variation = [current |-> 0, shot |-> 0]
    /\ writer = [w \in Writer |-> Idle] /\ req = [q \in Request |-> Idle]
    /\ background = {} /\ early = {}
    /\ overlapped = FALSE /\ pages = 0 /\ asks = 0

\* setVariationCurrentArtifact, applyVariationEvent: what a change of the variation starts
\* from, for a request that read the row `seen'.
Base(seen) == IF store = "memory" THEN variation ELSE seen

\* PostgreSQL refuses a row whose key or version another row has.
Refused(duplicate) == store = "postgres" /\ duplicate

-----------------------------------------------------------------------------
(* The screenshot queue.  A key that was used is not enqueued again; the   *)
(* key of a repair is fresh.                                               *)

Enqueue(row, reason) ==
    LET key == IF reason = "repair" THEN <<row, reason, asks>> ELSE <<row, reason>>
    IN  jobs' = [k \in DOMAIN jobs \cup {key} |-> IF k \in DOMAIN jobs THEN jobs[k] ELSE [pc |-> "queued"]]

\* processQueuedScreenshotJob: reads the page and renders it.
render(k) ==
    /\ jobs[k].pc = "queued"
    /\ Cardinality({j \in DOMAIN jobs : jobs[j].pc \in {"rendered", "kept"}}) < MaxRendering
    /\ jobs' = [jobs EXCEPT ![k] = [pc |-> "rendered", page |-> files[html[k[1]].version]]]
    /\ UNCHANGED <<store, files_, variation, exports, shares, writer, req, background, early, spent>>

\* The catch of createScreenshotArtifacts: the version is marked, nothing is thrown.
Failed(k) ==
    /\ html' = [html EXCEPT ![k[1]].failed = TRUE]
    /\ jobs' = [jobs EXCEPT ![k] = [pc |-> "done"]]

renderFails(k) ==
    /\ jobs[k].pc = "queued" /\ Failed(k) /\ Ask
    /\ UNCHANGED <<store, files, shots, shotFiles, variation, exports, shares, writer, req,
                   background, early>>

\* The row exists; applyVariationEvent reads the variation.
Kept(k) ==
    /\ shots' = shots \cup {k[1]}
    /\ jobs' = [jobs EXCEPT ![k] = [pc |-> "kept", seen |-> variation]]
    /\ UNCHANGED html

\* The file is written before its row is refused.
KeepShot(k) ==
    /\ jobs[k].pc = "rendered"
    /\ LET v == html[k[1]].version
       IN  /\ shotFiles' = [shotFiles EXCEPT ![v] = jobs[k].page]
           /\ IF Refused(\E s \in shots : html[s].version = v) THEN Failed(k) /\ UNCHANGED shots
              ELSE Kept(k)
    /\ UNCHANGED <<store, files, variation, exports, shares, writer, req, background, early, spent>>

attachShot(k) ==
    /\ jobs[k].pc = "kept"
    /\ variation' = [Base(jobs[k].seen) EXCEPT !.shot = k[1]]
    /\ jobs' = [jobs EXCEPT ![k] = [pc |-> "done"]]
    /\ UNCHANGED <<store, files_, exports, shares, writer, req, background, early, spent>>

-----------------------------------------------------------------------------
(* A stream materializes the files of an event, then makes them current.   *)

\* Mutant: the version after the current one.
versionAfterCurrent == IF variation.current = 0 THEN 1 ELSE html[variation.current].version + 1

nextHtmlArtifactVersion == Max({html[i].version : i \in Row} \cup {0}) + 1

Others(w) == {o \in Writer \ {w} : writer[o] # Idle}

materialize(w) ==
    /\ writer[w] = Idle /\ pages < MaxPages /\ pages' = pages + 1
    /\ IF Others(w) = {} THEN UNCHANGED <<overlapped, asks>>
       ELSE overlapped' = TRUE /\ asks' = asks + 1
    /\ pages' + asks' <= MaxTotal
    /\ writer' = [writer EXCEPT ![w] = [pc |-> "put", version |-> nextHtmlArtifactVersion,
                                        page |-> pages + 1]]
    /\ UNCHANGED <<store, files_, variation, jobs, exports, shares, req, background, early>>

\* A version is made current that may have no assets yet.
MaybeEarly(row) == early' = IF html[row].whole THEN early ELSE early \cup {row}

\* publishAutomationLoopEventsForArtifact: the call that makes a flawed page current.
CallInBackground(row) ==
    IF store = "memory"
      THEN /\ variation' = [variation EXCEPT !.current = row]
           /\ early' = early \cup {row}
           /\ UNCHANGED background
      ELSE /\ background' = background \cup {[row |-> row, seen |-> variation]}
           /\ UNCHANGED <<variation, early>>

\* The call is over, in PostgreSQL.
landInBackground ==
    /\ \E c \in background :
        /\ background' = background \ {c}
        /\ variation' = [c.seen EXCEPT !.current = c.row]
        /\ MaybeEarly(c.row)
    /\ UNCHANGED <<store, files_, jobs, exports, shares, writer, req, spent>>

\* The entry page: its file, then its row.  Its quality decides what happens at once.
createHtmlArtifact(w) ==
    /\ writer[w].pc = "put"
    /\ LET v == writer[w].version
       IN  /\ files' = [files EXCEPT ![v] = writer[w].page]
           /\ IF Refused(\E i \in Row : html[i].version = v)
                THEN /\ writer' = [writer EXCEPT ![w] = Idle]
                     /\ UNCHANGED <<html, variation, background, early, spent>>
                ELSE /\ html' = Append(html, [version |-> v, page |-> writer[w].page,
                                              whole |-> FALSE, failed |-> FALSE])
                     /\ writer' = [writer EXCEPT ![w] = [pc |-> "assets", row |-> Len(html) + 1]]
                     /\ \/ UNCHANGED <<variation, background, early, spent>>
                        \/ CallInBackground(Len(html) + 1) /\ Ask
    /\ UNCHANGED <<store, shots, shotFiles, jobs, exports, shares, req>>

\* Mutant: the page is made current before its assets are there.
publishFirst(w) ==
    /\ writer[w].pc = "assets"
    /\ variation' = [variation EXCEPT !.current = writer[w].row]
    /\ writer' = [writer EXCEPT ![w] = Idle]
    /\ UNCHANGED <<store, files_, jobs, exports, shares, req, background, early, spent>>

\* The other files of the event, then the screenshot job; applyVariationEvent reads the row.
createAssets(w) ==
    /\ writer[w].pc = "assets"
    /\ html' = [html EXCEPT ![writer[w].row].whole = TRUE]
    /\ Enqueue(writer[w].row, "created")
    /\ writer' = [writer EXCEPT ![w] = [pc |-> "publish", row |-> @.row, seen |-> variation]]
    /\ UNCHANGED <<store, files, shots, shotFiles, variation, exports, shares, req, background,
                   early, spent>>

applyVariationEvent(w) ==
    /\ writer[w].pc = "publish"
    /\ variation' = [Base(writer[w].seen) EXCEPT !.current = writer[w].row]
    /\ writer' = [writer EXCEPT ![w] = Idle]
    /\ UNCHANGED <<store, files_, jobs, exports, shares, req, background, early, spent>>

\* The stream's process dies, or its event fails half way.
cutOff(w) ==
    /\ writer[w] # Idle /\ writer' = [writer EXCEPT ![w] = Idle] /\ Ask
    /\ UNCHANGED <<store, files_, variation, jobs, exports, shares, req, background, early>>

-----------------------------------------------------------------------------
(* Requests.                                                               *)

askRestore(q) ==
    /\ req[q] = Idle /\ Ask
    /\ \E i \in Row : req' = [req EXCEPT ![q] = [pc |-> "restore", row |-> i, seen |-> variation]]
    /\ UNCHANGED <<store, files_, variation, jobs, exports, shares, writer, background, early>>

restoreVariationVersion(q) ==
    /\ req[q].pc = "restore"
    /\ variation' = [Base(req[q].seen) EXCEPT !.current = req[q].row]
    /\ MaybeEarly(req[q].row)
    /\ Enqueue(req[q].row, "restore")
    /\ req' = [req EXCEPT ![q] = Idle]
    /\ UNCHANGED <<store, files_, exports, shares, writer, background, spent>>

askRepair(q) ==
    /\ req[q] = Idle /\ variation.current # 0 /\ Ask
    /\ req' = [req EXCEPT ![q] = [pc |-> "repair", row |-> variation.current, seen |-> variation]]
    /\ UNCHANGED <<store, files_, variation, jobs, exports, shares, writer, background, early>>

\* The version that was current when the request read it is made current again.
repairVariationPreview(q) ==
    /\ req[q].pc = "repair"
    /\ variation' = [Base(req[q].seen) EXCEPT !.current = req[q].row]
    /\ Enqueue(req[q].row, "repair")
    /\ req' = [req EXCEPT ![q] = Idle]
    /\ UNCHANGED <<store, files_, exports, shares, writer, background, early, spent>>

\* An administrator asks for a new screenshot of any version.
rebuildScreenshot ==
    /\ Ask
    /\ \E i \in Row : Enqueue(i, "repair")
    /\ UNCHANGED <<store, files_, variation, exports, shares, writer, req, background, early>>

\* An archive of the current version that exists is handed out again.
exportVariation(q) ==
    /\ req[q] = Idle /\ variation.current # 0 /\ Ask
    /\ \A e \in exports : e.row # variation.current
    /\ req' = [req EXCEPT ![q] = [pc |-> "zip", row |-> variation.current, shared |-> TRUE]]
    /\ UNCHANGED <<store, files_, variation, jobs, exports, shares, writer, background, early>>

\* An administrator's archive has a key of its own.
repairExport(q) ==
    /\ req[q] = Idle /\ Ask
    /\ \E i \in Row : req' = [req EXCEPT ![q] = [pc |-> "zip", row |-> i, shared |-> FALSE]]
    /\ UNCHANGED <<store, files_, variation, jobs, exports, shares, writer, background, early>>

createArtifactExportZip(q) ==
    /\ req[q].pc = "zip"
    /\ exports' = IF Refused(req[q].shared /\ \E e \in exports : e.shared /\ e.row = req[q].row) THEN exports
                  ELSE exports \cup {[row |-> req[q].row, shared |-> req[q].shared,
                                      whole |-> html[req[q].row].whole]}
    /\ req' = [req EXCEPT ![q] = Idle]
    /\ UNCHANGED <<store, files_, variation, jobs, shares, writer, background, early, spent>>

shareVariation ==
    /\ variation.current # 0 /\ Ask
    /\ shares' = Append(shares, [row |-> variation.current,
                                 page |-> files[html[variation.current].version], revoked |-> FALSE])
    /\ UNCHANGED <<store, files_, variation, jobs, exports, writer, req, background, early>>

revokeShare ==
    /\ \E i \in DOMAIN shares :
        ~shares[i].revoked /\ shares' = [shares EXCEPT ![i].revoked = TRUE]
    /\ UNCHANGED <<store, files_, variation, jobs, exports, writer, req, background, early, spent>>

\* An administrator's revocation lists a version's links, then revokes them one by one.
listSharesForArtifact(q) ==
    /\ req[q] = Idle
    /\ \E i \in Row : LET open == {s \in DOMAIN shares : shares[s].row = i /\ ~shares[s].revoked} IN
        open # {} /\ req' = [req EXCEPT ![q] = [pc |-> "revoke", open |-> open]]
    /\ UNCHANGED <<store, files_, variation, jobs, exports, shares, writer, background, early, spent>>

revokeShares(q) ==
    /\ req[q].pc = "revoke"
    /\ \E s \in req[q].open :
        /\ shares' = [shares EXCEPT ![s].revoked = TRUE]
        /\ req' = [req EXCEPT ![q] = IF req[q].open = {s} THEN Idle
                                     ELSE [req[q] EXCEPT !.open = @ \ {s}]]
    /\ UNCHANGED <<store, files_, variation, jobs, exports, writer, background, early, spent>>

Next ==
    \/ \E k \in DOMAIN jobs : render(k) \/ renderFails(k) \/ KeepShot(k) \/ attachShot(k)
    \/ \E w \in Writer :
        \/ materialize(w) \/ createHtmlArtifact(w) \/ createAssets(w)
        \/ applyVariationEvent(w) \/ cutOff(w)
    \/ \E q \in Request :
        \/ askRestore(q) \/ restoreVariationVersion(q) \/ askRepair(q) \/ repairVariationPreview(q)
        \/ exportVariation(q) \/ repairExport(q) \/ createArtifactExportZip(q)
        \/ listSharesForArtifact(q) \/ revokeShares(q)
    \/ landInBackground \/ rebuildScreenshot \/ shareVariation \/ revokeShare

Spec == Init /\ [][Next]_vars

-----------------------------------------------------------------------------
(* Properties.                                                             *)

\* While no two streams materialize at once, every version keeps the page it was created with:
\* no restore, refine or screenshot overwrites the files of another version, a screenshot
\* shows the version it hangs on, and a link shows for ever the page that was shared.
\* (nextHtmlArtifactVersion and the storage keys of createRuntimeWorkspaceArtifacts,
\* createScreenshotArtifacts; WORKLOG: restore and refine do not change an existing share.)
VersionsStayApart ==
    ~overlapped =>
        /\ \A i \in Row : files[html[i].version] = html[i].page
        /\ \A s \in shots : shotFiles[html[s].version] = html[s].page
        /\ \A s \in DOMAIN shares : files[html[shares[s].row].version] = shares[s].page

\* The archive a user is handed, which every later export hands out again, holds the assets
\* of its version, unless the version was made current before they were written: by a restore,
\* or by the background call of a page whose quality is not `pass'.  Of a page that passes and
\* is not restored no archive is incomplete, however streams overlap and die and whatever the
\* background calls of other pages write back.
\* (exportVariation reads the current artifact, which createRuntimeWorkspaceArtifacts has
\* finished when applyVariationEvent makes it current; publishAutomationLoopEventsForArtifact.)
ExportsWhole == \A e \in exports : e.shared => e.whole \/ e.row \in early

\* Every archive a user is handed holds the assets of its version (WORKLOG of the application
\* service: an export ZIP contains the HTML and its related assets).  It does not hold: a page
\* whose quality is not `pass' is current before they are written, and the archive made then is
\* handed out for ever after (publishAutomationLoopEventsForArtifact, exportVariation).
ArchivesCarryAssets == \A e \in exports : e.shared => e.whole

\* When every stream, request and screenshot job is over, a variation whose restored version
\* has a screenshot shows no other: a restore enqueues a screenshot so that the old one is not
\* kept. It does not hold: the job of a restored version is enqueued once, so a version restored
\* again keeps the screenshot of the one it replaces (enqueueArtifactScreenshotJob, artifactOperations.ts).
RestoredPreviewFollows ==
    (/\ \A w \in Writer : writer[w] = Idle
     /\ \A q \in Request : req[q] = Idle
     /\ \A k \in DOMAIN jobs : jobs[k].pc = "done"
     /\ background = {}
     /\ <<variation.current, "restore">> \in DOMAIN jobs /\ variation.current \in shots)
    => variation.shot \in {0, variation.current}

=============================================================================
