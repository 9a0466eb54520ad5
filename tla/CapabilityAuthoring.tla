-------------------------- MODULE CapabilityAuthoring --------------------------
(***************************************************************************)
(* A capability authoring draft, the private design template it is         *)
(* published as, and the history of that template's versions               *)
(* (capabilityAuthoringApplicationService.ts, capabilityAuthoring.ts and   *)
(* the repository's draft, template and version rows).                     *)
(* Every operation reads the draft or the template, awaits, and saves a    *)
(* whole row computed from what it read: no save looks at the row again.   *)
(* A publication saves the template and then the draft.                    *)
(* One draft is modelled, since nothing relates two drafts.                *)
(***************************************************************************)
EXTENDS Naturals, FiniteSets

CONSTANTS
    Request,        \* requests of the draft's owner that may be in progress at once
    MaxPatch,       \* bound: the patch number of the last version
    MaxRaces        \* bound: requests that overlap another, or are cut off between two saves

\* What the module assumes of its constants; the module of a run asserts it.
Assumptions == MaxPatch \in Nat /\ MaxRaces \in Nat

VARIABLES
    draft,      \* the row of capability_authoring_drafts
    template,   \* the row of design_templates: its content and its version
    history,    \* the rows of design_template_versions: patch number -> content
    req,        \* what each request does and what it has read
    races       \* how often two requests have overlapped or one was cut off

vars == <<draft, template, history, req, races>>

None == "none"
\* What the author's bundle says: two sound texts, one that lint warns of and one it refuses.
Text == {"first", "second", "vague", "broken"}
Extracted == {"first", "vague"}     \* what analysis finds in the source
Written == {"second", "broken"}     \* what authors write, and bring with an import
Editable == {"analyzing", "needs_confirmation", "lint_failed", "preview_pending", "ready"}
Status == Editable \cup {"published_private", "submitted_for_review", "rejected", "archived"}

\* evidence: the text was extracted, not written by hand; example: what the sanitizer said
\* of the HTML example; preview: what the preview smoke said of it.  A mark that came with a
\* client's bundle is "claimed": it reads like "passed", and neither of the two has run.
Bundle == [text : Text \cup {None}, evidence : BOOLEAN,
           example : {None, "raw", "passed", "warned", "failed", "claimed"},
           preview : {None, "passed", "not passed", "claimed"}]
Draft == [status : Status, source : {"variation", "document"}, bundle : Bundle,
          confirmed : BOOLEAN]      \* whether confirmedPaths covers evidence and warnings
NoDraft == [status |-> None]
NoTemplate == [content |-> None]
Template == [content : Text, patch : 0 .. MaxPatch]
Idle == [op |-> None]

TypeOK ==
    /\ draft \in Draft \cup {NoDraft}
    /\ template \in Template \cup {NoTemplate}
    /\ history \in [0 .. MaxPatch -> Text \cup {None}]
    /\ \A q \in Request :
        \/ req[q] = Idle
        \/ /\ req[q].op \in {"update", "analyze", "sanitize", "preview", "publish", "published"}
           /\ req[q].copy \in Draft
        \/ req[q].op = "import" /\ req[q].final \in Draft
        \/ /\ req[q].op = "rollback"
           /\ req[q].current \in Template /\ req[q].source \in 0 .. MaxPatch
    /\ races \in 0 .. MaxRaces

Init ==
    /\ draft = NoDraft /\ template = NoTemplate
    /\ history = [n \in 0 .. MaxPatch |-> None]
    /\ req = [q \in Request |-> Idle]
    /\ races = 0

-----------------------------------------------------------------------------
(* The status machine and lint (capabilityAuthoring.ts).                   *)

allowedStatusTransitions == [s \in Status |->
    CASE s = "analyzing" -> {"needs_confirmation", "lint_failed", "preview_pending", "archived"}
      [] s = "needs_confirmation" -> {"analyzing", "lint_failed", "preview_pending", "ready", "archived"}
      [] s = "lint_failed" -> {"analyzing", "needs_confirmation", "preview_pending", "archived"}
      [] s = "preview_pending" -> {"needs_confirmation", "lint_failed", "ready", "archived"}
      [] s = "ready" -> {"needs_confirmation", "lint_failed", "preview_pending", "published_private",
                         "submitted_for_review", "archived"}
      [] s = "published_private" -> {"submitted_for_review", "archived"}
      [] s = "submitted_for_review" -> {"needs_confirmation", "rejected", "published_private", "archived"}
      [] s = "rejected" -> {"needs_confirmation", "archived"}
      [] OTHER -> {}]

canTransition(from, to) == from = to \/ to \in allowedStatusTransitions[from]

\* lintBundle: the worst that is found in the text of a bundle.
lintBundle(bundle) ==
    IF bundle.text \in {None, "broken"} THEN "error"
    ELSE IF bundle.text = "vague" THEN "warning" ELSE "clean"

\* lintCapabilityAuthoringDraft: its recommended status.
lint(d) ==
    IF lintBundle(d.bundle) = "error" THEN "lint_failed"
    ELSE IF (d.bundle.evidence /\ ~d.confirmed) \/ lintBundle(d.bundle) = "warning"
      THEN "needs_confirmation" ELSE "preview_pending"

applyLint(d) == [d EXCEPT !.status = lint(d)]

\* Warnings of lint and of the sanitizer that the author has not confirmed.
hasUnconfirmedWarnings(d) ==
    ~d.confirmed /\ (lintBundle(d.bundle) = "warning" \/ d.bundle.example = "warned")

\* The stored example of a bundle can be shown: its marks say that it passed the sanitizer,
\* and name an artifact of the workspace with its hash.
Reviewable(bundle) == bundle.example \in {"passed", "warned", "claimed"}

\* The bundle says that its preview has passed.
Smoked(bundle) == bundle.preview \in {"passed", "claimed"}

-----------------------------------------------------------------------------
(* Requests.                                                               *)

Busy == \E q \in Request : req[q] # Idle

Begin(q, r) ==
    /\ req[q] = Idle
    /\ req' = [req EXCEPT ![q] = r]
    /\ IF Busy THEN races < MaxRaces /\ races' = races + 1 ELSE races' = races

Return(q) == req' = [req EXCEPT ![q] = Idle]

Blank(source) == [status |-> "analyzing", source |-> source, confirmed |-> FALSE,
    bundle |-> [text |-> None, evidence |-> FALSE, example |-> None, preview |-> None]]

\* The bundles that a client may send for one that it has read: only their shape is checked,
\* so that their example and its marks are those read, or of the client's own.
Sent(read) == {b \in [text : Written \cup {read.text}, evidence : BOOLEAN,
                      example : {read.example, "raw", "claimed"},
                      preview : {read.preview, None, "claimed"}] :
    /\ b.preview \in {IF b.example = read.example THEN read.preview ELSE None, "claimed"}
    /\ b.text = None => ~b.evidence /\ b.example = None
    /\ b.example \in {None, "raw"} => b.preview = None}

\* createDraft: with the client's bundle, which is linted, or without one.
createDraft ==
    /\ draft = NoDraft
    /\ \E source \in {"variation", "document"} :
        \/ draft' = Blank(source)
        \/ \E bundle \in Sent(Blank(source).bundle) :
              draft' = applyLint([Blank(source) EXCEPT !.bundle = bundle])
    /\ UNCHANGED <<template, history, req, races>>

\* createImportedDraft, for a DESIGN.md or a portable template: it has no HTML example, of
\* which a warning tells.
createImportedDraft ==
    /\ draft = NoDraft
    /\ \E text \in Written :
        LET d == [Blank("document") EXCEPT !.bundle.text = text]
        IN  draft' = [d EXCEPT !.status =
                        IF lint(d) = "lint_failed" THEN "lint_failed" ELSE "needs_confirmation"]
    /\ UNCHANGED <<template, history, req, races>>

\* importCapabilityBundleDraft saves the draft, then the assets of its examples, and then
\* the draft again.
importBundle(q) ==
    /\ draft = NoDraft
    /\ \E text \in Written, example \in {None, "passed", "warned"} :
        LET d == [Blank("document") EXCEPT !.bundle.text = text]
            full == [d EXCEPT !.bundle.example = example]
        IN  /\ draft' = d
            /\ Begin(q, [op |-> "import", final |-> [full EXCEPT !.status =
                    IF lint(full) = "lint_failed" THEN "lint_failed" ELSE "needs_confirmation"]])
    /\ UNCHANGED <<template, history>>

finishImport(q) ==
    /\ req[q].op = "import"
    /\ draft' = req[q].final
    /\ Return(q)
    /\ UNCHANGED <<template, history, races>>

\* requireDraft and the checks made on what it returns.
readDraft(q, op) ==
    /\ draft # NoDraft
    /\ CASE op = "update" -> draft.status \in Editable
         [] op = "analyze" -> draft.status \in Editable /\ draft.source = "variation"
         [] op = "sanitize" -> draft.status \in Editable /\ draft.source = "variation"
                               /\ draft.bundle.text # None
         [] op = "preview" -> draft.status \in Editable /\ Reviewable(draft.bundle)
         [] op = "publish" -> draft.status = "ready" /\ draft.bundle.text # None
                              /\ Reviewable(draft.bundle) /\ Smoked(draft.bundle)
    /\ Begin(q, [op |-> op, copy |-> draft])
    /\ UNCHANGED <<draft, template, history>>

\* A check fails, the source has drifted, or a save does: nothing more is saved.
refuse(q) ==
    /\ req[q] # Idle
    /\ req[q].op \in {"published", "import"} => races < MaxRaces
    /\ Return(q)
    /\ races' = IF req[q].op \in {"published", "import"} THEN races + 1 ELSE races
    /\ UNCHANGED <<draft, template, history>>

SaveDraft(q, d, status) ==
    /\ draft' = IF canTransition(d.status, status) THEN [d EXCEPT !.status = status] ELSE draft
    /\ Return(q)
    /\ UNCHANGED <<template, history, races>>

\* updateDraft: the client's bundle and its confirmed paths replace those read; lintDraft is
\* an edit that changes nothing.
updateDraft(q) ==
    /\ req[q].op = "update"
    /\ \E bundle \in Sent(req[q].copy.bundle), confirmed \in BOOLEAN :
        LET d == [req[q].copy EXCEPT !.bundle = bundle, !.confirmed = confirmed]
        IN  SaveDraft(q, d, lint(d))

\* analyzeDraft extracts a template from the frozen variation; its example is not sanitized.
analyzeDraft(q) ==
    /\ req[q].op = "analyze"
    /\ \E text \in Extracted :
        LET d == [req[q].copy EXCEPT !.confirmed = FALSE,
                    !.bundle = [text |-> text, evidence |-> TRUE, example |-> "raw", preview |-> None]]
        IN  SaveDraft(q, d, lint(d))

\* sanitizeDraft: a bundle without an example stays without one.
sanitizeDraft(q) ==
    /\ req[q].op = "sanitize"
    /\ \E result \in {"passed", "warned", "failed"} :
        LET old == req[q].copy.bundle
            d == [req[q].copy EXCEPT
                    !.bundle.example = IF old.example = None THEN None ELSE result,
                    !.bundle.preview = None]
        IN  SaveDraft(q, applyLint(d),
              IF result = "failed" THEN "lint_failed"
              ELSE IF lint(d) = "needs_confirmation"
                      \/ hasUnconfirmedWarnings([d EXCEPT !.bundle.example = result])
                THEN "needs_confirmation" ELSE "preview_pending")

\* Mutant: a passing preview makes the draft ready whatever lint says.
previewDecides(q) ==
    /\ req[q].op = "preview"
    /\ SaveDraft(q, applyLint([req[q].copy EXCEPT !.bundle.preview = "passed"]), "ready")

\* previewDraft: only a passing preview of a draft that lint has nothing against makes it ready.
previewDraft(q) ==
    /\ req[q].op = "preview"
    /\ \E result \in {"passed", "warning", "failed"} :
        LET d == [req[q].copy EXCEPT
                    !.bundle.preview = IF result = "passed" THEN result ELSE "not passed"]
        IN  SaveDraft(q, applyLint(d),
              IF result = "failed" THEN "lint_failed"
              ELSE IF result = "passed" /\ lint(d) = "preview_pending" /\ ~hasUnconfirmedWarnings(d)
                THEN "ready" ELSE "needs_confirmation")

-----------------------------------------------------------------------------
(* Publication and rollback.                                               *)

\* saveDesignTemplatePack: the current row is replaced, the row of its version only inserted.
saveDesignTemplatePack(t) ==
    /\ template' = t
    /\ history' = IF history[t.patch] = None THEN [history EXCEPT ![t.patch] = t.content] ELSE history

\* publishPrivateDraft saves the template, always as version 1.0.0 of an id made of the
\* draft's id ...
publishTemplate(q) ==
    /\ req[q].op = "publish"
    /\ saveDesignTemplatePack([content |-> req[q].copy.bundle.text, patch |-> 0])
    /\ req' = [req EXCEPT ![q].op = "published"]
    /\ UNCHANGED <<draft, races>>

\* ... and then the draft.
publishDraft(q) ==
    /\ req[q].op = "published"
    /\ SaveDraft(q, req[q].copy, "published_private")

\* rollbackPrivateTemplate reads the template and the version to restore.
readRollback(q, n) ==
    /\ template # NoTemplate /\ history[n] # None /\ n # template.patch
    /\ template.patch < MaxPatch
    /\ Begin(q, [op |-> "rollback", current |-> template, source |-> n])
    /\ UNCHANGED <<draft, template, history>>

nextPatchVersion(r) == r.current.patch + 1

rollback(q) ==
    /\ req[q].op = "rollback"
    /\ saveDesignTemplatePack([content |-> history[req[q].source], patch |-> nextPatchVersion(req[q])])
    /\ Return(q)
    /\ UNCHANGED <<draft, races>>

\* A second version of the template: no operation of the application saves one, so that
\* rollbackPrivateTemplate finds a version to restore only after a save like this one of its
\* tests, made while nothing else happens.
saveSecondVersion ==
    /\ template # NoTemplate /\ template.patch = 0 /\ ~Busy
    /\ saveDesignTemplatePack([content |-> "second", patch |-> 1])
    /\ UNCHANGED <<draft, req, races>>

\* The API process dies with the requests in progress.
restart ==
    /\ Busy /\ races < MaxRaces
    /\ races' = races + 1
    /\ req' = [q \in Request |-> Idle]
    /\ UNCHANGED <<draft, template, history>>

Next ==
    \/ createDraft \/ createImportedDraft \/ saveSecondVersion \/ restart
    \/ \E q \in Request :
        \/ importBundle(q) \/ finishImport(q) \/ refuse(q)
        \/ \E op \in {"update", "analyze", "sanitize", "preview", "publish"} : readDraft(q, op)
        \/ updateDraft(q) \/ analyzeDraft(q) \/ sanitizeDraft(q) \/ previewDraft(q)
        \/ publishTemplate(q) \/ publishDraft(q)
        \/ \E n \in 0 .. MaxPatch : readRollback(q, n)
        \/ rollback(q)

Spec == Init /\ [][Next]_vars

-----------------------------------------------------------------------------
(* Properties.                                                             *)

\* Whatever requests overlap or are interrupted, and whatever marks clients send: a draft is
\* ready, or published, only if lint has nothing against it, its evidence and warnings are
\* confirmed, its example can be shown, and the preview of that example has been run and has
\* passed (publishPrivateDraft relies on the status it has read, and on marks that a client
\* may have sent); and no text that lint objects to is in the history of versions.
PublishedIsReviewed ==
    /\ (draft # NoDraft /\ draft.status \in {"ready", "published_private"}) =>
        /\ lint(draft) = "preview_pending" /\ ~hasUnconfirmedWarnings(draft)
        /\ Reviewable(draft.bundle) /\ draft.bundle.preview = "passed"
    /\ \A n \in 0 .. MaxPatch : history[n] \notin {"vague", "broken"}

\* The example of a ready draft has been through the sanitizer.  It does not hold: createDraft
\* and updateDraft keep the marks that a client sends, as for a document, whose example
\* sanitizeDraft does not take.
ExamplesSanitized ==
    draft # NoDraft /\ draft.status \in {"ready", "published_private"} =>
        draft.bundle.example \in {"passed", "warned"}

\* The current template is what the history records of its version: what a reader of the
\* version's row gets. It does not hold: two overlapping requests may save
\* the same version with different contents, and its row keeps the first
\* (postgresRepository.ts, persistDesignTemplatePack).
CurrentIsVersion == template # NoTemplate => history[template.patch] = template.content
=============================================================================
