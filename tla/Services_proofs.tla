---------------------------- MODULE Services_proofs ----------------------------
(***************************************************************************)
(* Proofs about the components of Services.  Each is proved of its own     *)
(* specification, for all values of its constants, and then of the         *)
(* composition, which implements the specification of every component.     *)
(* Capability authoring: a request saves a row computed from the draft     *)
(* that it read, so the invariant says of every request in progress what   *)
(* its copy will be good for when it is saved.                             *)
(* Accounts: only the first of several overlapping requests makes a user,  *)
(* because users.email is unique, so that at most one of them brings a     *)
(* password, and everything that leads in leads to a user with a           *)
(* workspace.                                                              *)
(* Command-line agents: a process lives only while its variation runs and  *)
(* is listed, and whoever asked for a cancellation was heard.              *)
(* Design sessions: without overlaps the copy of the one request in        *)
(* progress is the row, but for what it is about to save.                  *)
(* Job selections: a process holds the plugins that it was told of from    *)
(* the reading of the rows on, because nobody is about to take them back;  *)
(* and a retry shares with the job that it repeats what the packs on its   *)
(* variations are computed from.                                           *)
(* Contexts: whatever is stored was reported as the references say that    *)
(* are made of it, and a job's references are each of another context.     *)
(* VariationServices_proofs has those that serve one variation.            *)
(***************************************************************************)
EXTENDS VariationServices_proofs

-----------------------------------------------------------------------------
(* Capability authoring.                                                   *)

\* What a ready draft has been through; its status is no part of it.
Reviewed(d) ==
    /\ lint(d) = "preview_pending" /\ ~hasUnconfirmedWarnings(d)
    /\ Reviewable(d.bundle) /\ d.bundle.preview = "passed"

Ready(d) == d.status \in {"ready", "published_private"}

\* A request in progress, with versions of any number.
Copying == [op : {"update", "analyze", "sanitize", "preview", "publish", "published"}, copy : Draft]
Importing == [op : {"import"}, final : Draft]
RollingBack == [op : {"rollback"}, current : [content : Text \cup {None}, patch : Nat],
                source : 0 .. MaxPatch]

Types ==
    /\ draft \in Draft \cup {NoDraft}
    /\ template \in [content : Text \cup {None}, patch : Nat] \cup {NoTemplate}
    /\ history \in [0 .. MaxPatch -> Text \cup {None}]
    /\ req \in [Request -> {Idle} \cup Copying \cup Importing \cup RollingBack]

DraftReviewed == draft \in Draft /\ Ready(draft) => Reviewed(draft)

CopiesReviewed == \A q \in Request :
    /\ req[q].op = "preview" => Reviewable(req[q].copy.bundle)
    /\ req[q].op \in {"publish", "published"} => Reviewed(req[q].copy)
    /\ req[q].op = "import" => ~Ready(req[q].final)

HistoryReviewed == \A n \in 0 .. MaxPatch : history[n] \notin {"vague", "broken"}

AuthoringInvariant == Types /\ DraftReviewed /\ CopiesReviewed /\ HistoryReviewed

-----------------------------------------------------------------------------
LEMMA NoDraftIsNoDraft == NoDraft \notin Draft
BY DEF NoDraft, Draft, None, Status, Editable

\* Lint makes no draft ready, and does not look at the status.
LEMMA LintStatus ==
    ASSUME NEW d \in Draft
    PROVE  /\ lint(d) \in {"lint_failed", "needs_confirmation", "preview_pending"}
           /\ applyLint(d) \in Draft
           /\ \A s \in Status : [applyLint(d) EXCEPT !.status = s] = [d EXCEPT !.status = s]
BY DEF lint, applyLint, Draft, Status, Editable

\* What a client sends for a bundle is a bundle.
LEMMA SentBundle ==
    ASSUME NEW read \in Bundle
    PROVE  Sent(read) \subseteq Bundle
BY DEF Sent, Bundle, Written, Text, None

\* A review is of everything but the status.
LEMMA ReviewIgnoresStatus ==
    ASSUME NEW d \in Draft, NEW s \in Status
    PROVE  /\ [d EXCEPT !.status = s] \in Draft /\ [d EXCEPT !.status = s].status = s
           /\ Reviewed([d EXCEPT !.status = s]) <=> Reviewed(d)
BY DEF Draft, Reviewed, lint, hasUnconfirmedWarnings

\* The text of a draft that has passed its review is sound.
LEMMA ReviewedText ==
    ASSUME NEW d \in Draft, Reviewed(d)
    PROVE  d.bundle.text \in Text \ {"vague", "broken"}
BY DEF Draft, Bundle, Text, None, Reviewed, lint, lintBundle, hasUnconfirmedWarnings

\* A request that ends, or begins with what it may hold, keeps the rest.
LEMMA Held ==
    ASSUME Types, CopiesReviewed, NEW q \in Request,
           NEW r \in {Idle} \cup Copying \cup Importing \cup RollingBack,
           req' = [req EXCEPT ![q] = r],
           r.op = "preview" => Reviewable(r.copy.bundle),
           r.op \in {"publish", "published"} => Reviewed(r.copy),
           r.op = "import" => ~Ready(r.final)
    PROVE  /\ req' \in [Request -> {Idle} \cup Copying \cup Importing \cup RollingBack]
           /\ CopiesReviewed'
<1>1. req' \in [Request -> {Idle} \cup Copying \cup Importing \cup RollingBack] BY DEF Types
<1>2. \A p \in Request : req'[p] = IF p = q THEN r ELSE req[p] BY DEF Types
<1>3. CopiesReviewed' BY <1>2 DEF CopiesReviewed
<1>4. QED BY <1>1, <1>3

LEMMA CopyHeld ==
    ASSUME Types, NEW q \in Request,
           req[q].op \in {"update", "analyze", "sanitize", "preview", "publish", "published"}
    PROVE  req[q] \in Copying /\ req[q].copy \in Draft
BY DEF Types, Idle, None, Copying, Importing, RollingBack

LEMMA Released ==
    ASSUME Types, CopiesReviewed, NEW q \in Request, Return(q)
    PROVE  /\ req' \in [Request -> {Idle} \cup Copying \cup Importing \cup RollingBack]
           /\ CopiesReviewed'
BY Held, Idle.op = "none" DEF Return, Idle, None

\* What is saved of a copy is as good as the copy.
LEMMA SavedDraft ==
    ASSUME AuthoringInvariant, NEW q \in Request, NEW d \in Draft, NEW s \in Status,
           SaveDraft(q, d, s), s \in {"ready", "published_private"} => Reviewed(d)
    PROVE  AuthoringInvariant'
<1>1. UNCHANGED <<template, history>> /\ Return(q) BY DEF SaveDraft
<1>2. draft' \in Draft \cup {NoDraft} /\ DraftReviewed'
  <2>1. CASE draft' = draft BY <2>1 DEF AuthoringInvariant, Types, DraftReviewed
  <2>2. CASE draft' = [d EXCEPT !.status = s]
    BY <2>2, ReviewIgnoresStatus DEF DraftReviewed, Ready
  <2>3. QED BY <2>1, <2>2 DEF SaveDraft
<1>3. QED BY <1>1, <1>2, Released DEF AuthoringInvariant, Types, HistoryReviewed

\* A version is inserted with a sound text.
LEMMA SavedTemplate ==
    ASSUME Types, HistoryReviewed, NEW text \in (Text \cup {None}) \ {"vague", "broken"}, NEW n \in Nat,
           saveDesignTemplatePack([content |-> text, patch |-> n])
    PROVE  /\ template' \in [content : Text \cup {None}, patch : Nat] \cup {NoTemplate}
           /\ history' \in [0 .. MaxPatch -> Text \cup {None}]
           /\ HistoryReviewed'
<1>1. template' = [content |-> text, patch |-> n]
      /\ history' \in {history, [history EXCEPT ![n] = text]}
  BY DEF saveDesignTemplatePack
<1>2. \A m \in 0 .. MaxPatch : history'[m] \in {history[m], text} BY <1>1 DEF Types
<1>3. HistoryReviewed' BY <1>2 DEF HistoryReviewed
<1>4. QED BY <1>1, <1>3 DEF Types

-----------------------------------------------------------------------------
LEMMA MakesKeep ==
    ASSUME AuthoringInvariant, createDraft \/ createImportedDraft \/ \E q \in Request : importBundle(q)
    PROVE  AuthoringInvariant'
<1>1. CASE createDraft \/ createImportedDraft
  <2>1. draft' \in Draft /\ ~Ready(draft)'
    <3>1. \A source \in {"variation", "document"}, text \in Written \cup {None} :
              [Blank(source) EXCEPT !.bundle.text = text] \in Draft
      BY DEF Blank, Draft, Bundle, Written, Text, None, Status, Editable
    <3>2. CASE createDraft
      <4>1. PICK source \in {"variation", "document"} :
                \/ draft' = Blank(source)
                \/ \E bundle \in Sent(Blank(source).bundle) :
                      draft' = applyLint([Blank(source) EXCEPT !.bundle = bundle])
        BY <3>2 DEF createDraft
      <4>2. CASE draft' = Blank(source)
        <5>1. Blank(source) \in Draft /\ Blank(source).status = "analyzing"
          BY DEF Blank, Draft, Bundle, Text, None, Status, Editable
        <5>2. QED BY <4>2, <5>1 DEF Ready
      <4>3. ASSUME NEW bundle \in Bundle,
                   draft' = applyLint([Blank(source) EXCEPT !.bundle = bundle])
            PROVE  draft' \in Draft /\ ~Ready(draft)'
        <5>1. [Blank(source) EXCEPT !.bundle = bundle] \in Draft
          BY DEF Blank, Draft, Status, Editable
        <5>2. QED BY <4>3, <5>1, LintStatus DEF Ready, applyLint, Draft
      <4>4. Sent(Blank(source).bundle) \subseteq Bundle
        BY SentBundle DEF Blank, Bundle, Text, None
      <4>5. QED BY <4>1, <4>2, <4>3, <4>4
    <3>3. CASE createImportedDraft
      <4>1. PICK text \in Written, s \in {"lint_failed", "needs_confirmation"} :
                draft' = [[Blank("document") EXCEPT !.bundle.text = text] EXCEPT !.status = s]
        BY <3>3 DEF createImportedDraft
      <4>2. s \in Status BY DEF Status, Editable
      <4>3. QED BY <3>1, <4>1, <4>2, ReviewIgnoresStatus DEF Ready
    <3>4. QED BY <1>1, <3>2, <3>3
  <2>2. UNCHANGED <<template, history, req>> BY <1>1 DEF createDraft, createImportedDraft
  <2>3. QED BY <2>1, <2>2 DEF AuthoringInvariant, Types, DraftReviewed, CopiesReviewed, HistoryReviewed
<1>2. ASSUME NEW q \in Request, importBundle(q) PROVE AuthoringInvariant'
  <2>1. PICK text \in Written, example \in {None, "passed", "warned"} :
            LET d == [Blank("document") EXCEPT !.bundle.text = text]
                full == [d EXCEPT !.bundle.example = example]
            IN  /\ draft' = d
                /\ Begin(q, [op |-> "import", final |-> [full EXCEPT !.status =
                       IF lint(full) = "lint_failed" THEN "lint_failed" ELSE "needs_confirmation"]])
    BY <1>2 DEF importBundle
  <2>. DEFINE d == [Blank("document") EXCEPT !.bundle.text = text]
              full == [d EXCEPT !.bundle.example = example]
              s == IF lint(full) = "lint_failed" THEN "lint_failed" ELSE "needs_confirmation"
              final == [full EXCEPT !.status = s]
  <2>2. d \in Draft /\ d.status = "analyzing" /\ full \in Draft
    BY DEF Blank, Draft, Bundle, Written, Text, None, Status, Editable
  <2>3. final \in Draft /\ ~Ready(final)
    <3>1. s \in Status \ {"ready", "published_private"} BY DEF Status, Editable
    <3>. HIDE DEF d, full, s
    <3>2. QED BY <2>2, <3>1, ReviewIgnoresStatus DEF Ready
  <2>4. draft' = d /\ req' = [req EXCEPT ![q] = [op |-> "import", final |-> final]] BY <2>1 DEF Begin
  <2>. HIDE DEF d, full, s, final
  <2>5. /\ req' \in [Request -> {Idle} \cup Copying \cup Importing \cup RollingBack]
        /\ CopiesReviewed'
    <3>1. [op |-> "import", final |-> final] \in Importing BY <2>3 DEF Importing
    <3>2. QED BY <2>3, <2>4, <3>1, Held DEF AuthoringInvariant
  <2>6. draft' \in Draft /\ ~Ready(draft)' BY <2>2, <2>4 DEF Ready
  <2>7. UNCHANGED <<template, history>> BY <1>2 DEF importBundle
  <2>8. QED BY <2>5, <2>6, <2>7 DEF AuthoringInvariant, Types, DraftReviewed, HistoryReviewed
<1>3. QED BY <1>1, <1>2

LEMMA FinishImportKeeps ==
    ASSUME AuthoringInvariant, NEW q \in Request, finishImport(q)
    PROVE  AuthoringInvariant'
<1>1. req[q] \in Importing /\ ~Ready(req[q].final)
  BY DEF AuthoringInvariant, Types, CopiesReviewed, finishImport, Idle, None, Copying, Importing, RollingBack
<1>2. draft' \in Draft /\ ~Ready(draft)' BY <1>1 DEF finishImport, Importing, Ready
<1>3. QED
  BY <1>2, Released DEF AuthoringInvariant, Types, DraftReviewed, HistoryReviewed, finishImport

LEMMA ReadsKeep ==
    ASSUME AuthoringInvariant, NEW q \in Request,
           \/ \E o \in {"update", "analyze", "sanitize", "preview", "publish"} : readDraft(q, o)
           \/ \E n \in 0 .. MaxPatch : readRollback(q, n)
    PROVE  AuthoringInvariant'
<1>1. ASSUME NEW o \in {"update", "analyze", "sanitize", "preview", "publish"}, readDraft(q, o)
      PROVE  AuthoringInvariant'
  <2>. DEFINE r == [op |-> o, copy |-> draft]
  <2>1. draft \in Draft BY <1>1 DEF readDraft, AuthoringInvariant, Types
  <2>2. r \in Copying BY <2>1 DEF Copying
  <2>3. o = "preview" => Reviewable(draft.bundle) BY <1>1 DEF readDraft
  <2>4. o = "publish" => Reviewed(draft)
    <3>1. o = "publish" => draft.status = "ready" BY <1>1 DEF readDraft
    <3>2. QED BY <2>1, <3>1 DEF AuthoringInvariant, DraftReviewed, Ready
  <2>5. req' = [req EXCEPT ![q] = r] /\ UNCHANGED <<draft, template, history>>
    BY <1>1 DEF readDraft, Begin
  <2>6. /\ req' \in [Request -> {Idle} \cup Copying \cup Importing \cup RollingBack]
        /\ CopiesReviewed'
    <3>1. /\ r.op = "preview" => Reviewable(r.copy.bundle)
          /\ r.op \in {"publish", "published"} => Reviewed(r.copy)
          /\ r.op # "import"
      BY <2>3, <2>4
    <3>. HIDE DEF r
    <3>2. QED BY <2>2, <2>5, <3>1, Held DEF AuthoringInvariant
  <2>7. QED BY <2>5, <2>6 DEF AuthoringInvariant, Types, DraftReviewed, HistoryReviewed
<1>2. ASSUME NEW n \in 0 .. MaxPatch, readRollback(q, n) PROVE AuthoringInvariant'
  <2>. DEFINE r == [op |-> "rollback", current |-> template, source |-> n]
  <2>1. r \in RollingBack /\ r.op = "rollback"
    BY <1>2 DEF readRollback, RollingBack, AuthoringInvariant, Types
  <2>2. req' = [req EXCEPT ![q] = r] /\ UNCHANGED <<draft, template, history>>
    BY <1>2 DEF readRollback, Begin
  <2>. HIDE DEF r
  <2>3. /\ req' \in [Request -> {Idle} \cup Copying \cup Importing \cup RollingBack]
        /\ CopiesReviewed'
    BY <2>1, <2>2, Held DEF AuthoringInvariant
  <2>4. QED BY <2>2, <2>3 DEF AuthoringInvariant, Types, DraftReviewed, HistoryReviewed
<1>3. QED BY <1>1, <1>2

\* Edits, analyses and the sanitizer never make a draft ready.
LEMMA EditsKeep ==
    ASSUME AuthoringInvariant, NEW q \in Request,
           updateDraft(q) \/ analyzeDraft(q) \/ sanitizeDraft(q)
    PROVE  AuthoringInvariant'
<1>. DEFINE NotReady == {"lint_failed", "needs_confirmation", "preview_pending"}
<1>1. req[q].copy \in Draft
  <2>1. req[q].op \in {"update", "analyze", "sanitize"} BY DEF updateDraft, analyzeDraft, sanitizeDraft
  <2>2. QED BY <2>1, CopyHeld DEF AuthoringInvariant
<1>2. NotReady \subseteq Status BY DEF Status, Editable
<1>3. PICK d \in Draft, s \in NotReady : SaveDraft(q, d, s)
  <2>1. CASE updateDraft(q)
    <3>1. PICK bundle \in Sent(req[q].copy.bundle), confirmed \in BOOLEAN :
              LET d == [req[q].copy EXCEPT !.bundle = bundle, !.confirmed = confirmed]
              IN  SaveDraft(q, d, lint(d))
      BY <2>1 DEF updateDraft
    <3>2. bundle \in Bundle BY <1>1, <3>1, SentBundle DEF Draft
    <3>3. [req[q].copy EXCEPT !.bundle = bundle, !.confirmed = confirmed] \in Draft
      BY <1>1, <3>2 DEF Draft
    <3>4. QED BY <3>1, <3>3, LintStatus
  <2>2. CASE analyzeDraft(q)
    <3>1. PICK text \in Extracted :
              LET d == [req[q].copy EXCEPT !.confirmed = FALSE,
                          !.bundle = [text |-> text, evidence |-> TRUE, example |-> "raw", preview |-> None]]
              IN  SaveDraft(q, d, lint(d))
      BY <2>2 DEF analyzeDraft
    <3>2. [req[q].copy EXCEPT !.confirmed = FALSE,
              !.bundle = [text |-> text, evidence |-> TRUE, example |-> "raw", preview |-> None]] \in Draft
      BY <1>1 DEF Draft, Bundle, Extracted, Text, None
    <3>3. QED BY <3>1, <3>2, LintStatus
  <2>3. CASE sanitizeDraft(q)
    <3>1. PICK result \in {"passed", "warned", "failed"}, s \in NotReady :
              SaveDraft(q, applyLint([req[q].copy EXCEPT
                  !.bundle.example = IF req[q].copy.bundle.example = None THEN None ELSE result,
                  !.bundle.preview = None]), s)
      BY <2>3 DEF sanitizeDraft
    <3>2. [req[q].copy EXCEPT
              !.bundle.example = IF req[q].copy.bundle.example = None THEN None ELSE result,
              !.bundle.preview = None] \in Draft
      BY <1>1 DEF Draft, Bundle, None
    <3>3. QED BY <3>1, <3>2, LintStatus
  <2>4. QED BY <2>1, <2>2, <2>3
<1>4. QED BY <1>2, <1>3, SavedDraft

\* A preview makes ready what lint has nothing against and what could be previewed.
LEMMA PreviewKeeps ==
    ASSUME AuthoringInvariant, NEW q \in Request, previewDraft(q)
    PROVE  AuthoringInvariant'
<1>1. req[q].copy \in Draft /\ Reviewable(req[q].copy.bundle)
  <2>1. req[q].op = "preview" BY DEF previewDraft
  <2>2. QED BY <2>1, CopyHeld DEF AuthoringInvariant, CopiesReviewed
<1>2. PICK result \in {"passed", "warning", "failed"} :
          LET d == [req[q].copy EXCEPT
                      !.bundle.preview = IF result = "passed" THEN result ELSE "not passed"]
          IN  SaveDraft(q, applyLint(d),
                IF result = "failed" THEN "lint_failed"
                ELSE IF result = "passed" /\ lint(d) = "preview_pending" /\ ~hasUnconfirmedWarnings(d)
                  THEN "ready" ELSE "needs_confirmation")
  BY DEF previewDraft
<1>. DEFINE d == [req[q].copy EXCEPT
                    !.bundle.preview = IF result = "passed" THEN result ELSE "not passed"]
            s == IF result = "failed" THEN "lint_failed"
                 ELSE IF result = "passed" /\ lint(d) = "preview_pending" /\ ~hasUnconfirmedWarnings(d)
                   THEN "ready" ELSE "needs_confirmation"
<1>3. d \in Draft BY <1>1 DEF Draft, Bundle
<1>4. d.bundle.preview = "passed" \/ result # "passed" BY <1>1 DEF Draft, Bundle
<1>5. Reviewable(d.bundle) BY <1>1 DEF Draft, Bundle, Reviewable
<1>6. SaveDraft(q, applyLint(d), s) BY <1>2
<1>7. s \in Status /\ s # "published_private" BY DEF Status, Editable
<1>8. s = "ready" => Reviewed(d) BY <1>4, <1>5 DEF Reviewed
<1>. HIDE DEF d, s
<1>9. applyLint(d) \in Draft /\ (Reviewed(d) => Reviewed(applyLint(d)))
  <2>1. lint(d) \in Status BY <1>3, LintStatus DEF Status, Editable
  <2>2. QED BY <1>3, <2>1, LintStatus, ReviewIgnoresStatus DEF applyLint
<1>10. QED BY <1>6, <1>7, <1>8, <1>9, SavedDraft

LEMMA PublicationKeeps ==
    ASSUME AuthoringInvariant, NEW q \in Request, publishTemplate(q) \/ publishDraft(q)
    PROVE  AuthoringInvariant'
<1>1. req[q].copy \in Draft /\ Reviewed(req[q].copy) /\ req[q] \in Copying
  <2>1. req[q].op \in {"publish", "published"} BY DEF publishTemplate, publishDraft
  <2>2. QED BY <2>1, CopyHeld DEF AuthoringInvariant, CopiesReviewed
<1>2. CASE publishTemplate(q)
  <2>1. req[q].copy.bundle.text \in Text \ {"vague", "broken"} BY <1>1, ReviewedText
  <2>2. /\ template' \in [content : Text \cup {None}, patch : Nat] \cup {NoTemplate}
        /\ history' \in [0 .. MaxPatch -> Text \cup {None}]
        /\ HistoryReviewed'
    BY <1>2, <2>1, SavedTemplate DEF publishTemplate, AuthoringInvariant
  <2>3. [req[q] EXCEPT !.op = "published"] \in Copying
        /\ [req[q] EXCEPT !.op = "published"].copy = req[q].copy
        /\ [req[q] EXCEPT !.op = "published"].op = "published"
    BY <1>1 DEF Copying
  <2>4. req' = [req EXCEPT ![q] = [req[q] EXCEPT !.op = "published"]]
    BY <1>2 DEF publishTemplate
  <2>5. /\ req' \in [Request -> {Idle} \cup Copying \cup Importing \cup RollingBack]
        /\ CopiesReviewed'
    <3>. DEFINE r == [req[q] EXCEPT !.op = "published"]
    <3>1. r \in Copying /\ r.op = "published" /\ Reviewed(r.copy) BY <1>1, <2>3
    <3>2. req' = [req EXCEPT ![q] = r] BY <2>4
    <3>. HIDE DEF r
    <3>3. QED BY <3>1, <3>2, Held DEF AuthoringInvariant
  <2>6. QED BY <1>2, <2>2, <2>5 DEF publishTemplate, AuthoringInvariant, Types, DraftReviewed
<1>3. CASE publishDraft(q)
  BY <1>1, <1>3, SavedDraft DEF publishDraft, Status, Editable
<1>4. QED BY <1>2, <1>3

LEMMA RollbackKeeps ==
    ASSUME AuthoringInvariant, NEW q \in Request, rollback(q)
    PROVE  AuthoringInvariant'
<1>1. req[q] \in RollingBack
  BY DEF AuthoringInvariant, Types, rollback, Idle, None, Copying, Importing, RollingBack
<1>2. /\ history[req[q].source] \in (Text \cup {None}) \ {"vague", "broken"}
      /\ nextPatchVersion(req[q]) \in Nat
  BY <1>1 DEF AuthoringInvariant, Types, HistoryReviewed, RollingBack, nextPatchVersion
<1>3. /\ template' \in [content : Text \cup {None}, patch : Nat] \cup {NoTemplate}
      /\ history' \in [0 .. MaxPatch -> Text \cup {None}]
      /\ HistoryReviewed'
  BY <1>2, SavedTemplate DEF rollback, AuthoringInvariant
<1>4. QED BY <1>3, Released DEF rollback, AuthoringInvariant, Types, DraftReviewed

LEMMA StepKeeps ==
    ASSUME AuthoringInvariant, [Next]_vars
    PROVE  AuthoringInvariant'
<1>1. CASE saveSecondVersion
  <2>1. /\ template' \in [content : Text \cup {None}, patch : Nat] \cup {NoTemplate}
        /\ history' \in [0 .. MaxPatch -> Text \cup {None}]
        /\ HistoryReviewed'
    BY <1>1, SavedTemplate DEF saveSecondVersion, AuthoringInvariant, Text
  <2>2. QED
    BY <1>1, <2>1 DEF saveSecondVersion, AuthoringInvariant, Types, DraftReviewed, CopiesReviewed
<1>2. CASE restart
  <2>1. \A q \in Request : req'[q].op = "none" BY <1>2 DEF restart, Idle, None
  <2>2. QED
    BY <1>2, <2>1 DEF restart, AuthoringInvariant, Types, DraftReviewed, CopiesReviewed, HistoryReviewed
<1>3. ASSUME NEW q \in Request, refuse(q) PROVE AuthoringInvariant'
  BY <1>3, Released DEF refuse, AuthoringInvariant, Types, DraftReviewed, HistoryReviewed
<1>4. CASE UNCHANGED vars
  BY <1>4 DEF vars, AuthoringInvariant, Types, DraftReviewed, CopiesReviewed, HistoryReviewed
<1>5. QED
  BY <1>1, <1>2, <1>3, <1>4, MakesKeep, FinishImportKeeps, ReadsKeep, EditsKeep, PreviewKeeps,
     PublicationKeeps, RollbackKeeps DEF Next

LEMMA InvariantHolds == Spec => []AuthoringInvariant
<1>1. Init => AuthoringInvariant
  <2>. SUFFICES ASSUME Init PROVE AuthoringInvariant OBVIOUS
  <2>2. Types BY DEF Init, Types
  <2>3. \A q \in Request : req[q].op = "none" BY DEF Init, Idle, None
  <2>4. QED
    BY <2>2, <2>3, NoDraftIsNoDraft
    DEF Init, AuthoringInvariant, DraftReviewed, CopiesReviewed, HistoryReviewed, None
<1>2. QED BY <1>1, StepKeeps, PTL DEF Spec

\* For any number of requests and versions, whatever is cut off and whatever marks
\* clients send: a draft is ready only with a text that lint passes, its evidence and
\* warnings confirmed, and an example whose preview was run and passed, and no text that
\* lint objects to is in the history of versions (capabilityAuthoringApplicationService.ts).
THEOREM ReviewPrecedesPublication == Spec => []PublishedIsReviewed
<1>1. AuthoringInvariant => PublishedIsReviewed
  BY DEF AuthoringInvariant, Types, DraftReviewed, HistoryReviewed, PublishedIsReviewed, Ready, Reviewed
<1>2. QED BY <1>1, InvariantHolds, PTL

-----------------------------------------------------------------------------
(* The account of one address.                                             *)

AccountTypes ==
    /\ users \subseteq Nat \ {0} /\ workspaces \subseteq users
    /\ identity \in [Account!Way -> [user : {0}] \cup [user : Nat \ {0}, secret : Request \cup {"none"}]]
    /\ accountReq \in [Request -> {Account!Idle} \cup
                   [op : {"finding", "looking", "creating", "linking", "opening"},
                    way : Account!Way, user : Nat]]
    /\ granted \subseteq [way : Account!Way, secret : Request \cup {"none"}]

\* There is never a second user of the address.
OneUser == \A u, v \in users : u = v

Known(w) == identity[w] # Account!NoIdentity

\* Every row of auth_identities leads to a user with a workspace; only that of
\* the password has a secret.
IdentitiesLead == \A w \in Account!Way : Known(w) =>
    /\ identity[w].user \in workspaces
    /\ w # "password" => identity[w].secret = "none"

\* So does every request that has got as far as its identity; one that opens
\* the session finds the row of its way, with its own secret.
RequestsLead == \A q \in Request :
    /\ accountReq[q].op = "finding" => accountReq[q].way # "password"
    /\ accountReq[q].op \in {"linking", "opening"} => accountReq[q].user \in workspaces
    /\ accountReq[q].op = "opening" =>
           /\ Known(accountReq[q].way)
           /\ identity[accountReq[q].way].secret = Account!Secret(q, accountReq[q].way)

\* Of the requests with a password only one gets that far.
Registers(q) == accountReq[q].op \in {"linking", "opening"} /\ accountReq[q].way = "password"
OneRegisters == \A p, q \in Request : Registers(p) /\ Registers(q) => p = q

\* A way that was granted leads in, and no request is about to change its secret.
GrantsLead == \A g \in granted :
    /\ Account!loginUser(g.way, g.secret)
    /\ g.way # "password" => g.secret = "none"
    /\ g.way = "password" =>
           \A q \in Request : Registers(q) => accountReq[q].op = "opening"

AccountInvariant ==
    AccountTypes /\ OneUser /\ IdentitiesLead /\ RequestsLead /\ OneRegisters /\ GrantsLead

\* The step of one request.
Turn(q) ==
    \/ Account!registerUser(q) \/ (\E w \in OAuthProvider : Account!completeOAuthLogin(q, w))
    \/ Account!getAuthIdentityByProvider(q) \/ Account!getUserByEmail(q)
    \/ Account!createUserWithWorkspace(q) \/ Account!createAuthIdentity(q)
    \/ Account!createAuthSession(q) \/ Account!failRequest(q)

\* Where a request is led: the others stay where they are.
Led(q, step) ==
    /\ accountReq'[q] = step
    /\ \A p \in Request \ {q} : accountReq'[p] = accountReq[p]
    /\ accountReq' \in [Request -> {Account!Idle} \cup
                   [op : {"finding", "looking", "creating", "linking", "opening"},
                    way : Account!Way, user : Nat]]

LEMMA Going ==
    ASSUME AccountTypes, NEW q \in Request, accountReq[q].op # "none",
           NEW o \in {"finding", "looking", "creating", "linking", "opening"}, NEW u \in Nat,
           Account!Goto(q, o, u)
    PROVE  /\ accountReq[q].way \in Account!Way
           /\ Led(q, accountReq'[q])
           /\ accountReq'[q].op = o /\ accountReq'[q].way = accountReq[q].way /\ accountReq'[q].user = u
<1>. DEFINE Point == [op : {"finding", "looking", "creating", "linking", "opening"},
                     way : Account!Way, user : Nat]
<1>1. accountReq[q] \in Point BY DEF AccountTypes, Account!Idle, Account!None
<1>2. accountReq' = [accountReq EXCEPT ![q] = [accountReq[q] EXCEPT !.op = o, !.user = u]]
  BY <1>1 DEF Account!Goto, AccountTypes
<1>3. /\ [accountReq[q] EXCEPT !.op = o, !.user = u] \in Point
      /\ [accountReq[q] EXCEPT !.op = o, !.user = u].op = o
      /\ [accountReq[q] EXCEPT !.op = o, !.user = u].way = accountReq[q].way
      /\ [accountReq[q] EXCEPT !.op = o, !.user = u].user = u
  BY <1>1
<1>. HIDE DEF Point
<1>4. QED BY <1>1, <1>2, <1>3 DEF Led, AccountTypes, Point

LEMMA Ending ==
    ASSUME AccountTypes, NEW q \in Request, Account!End(q)
    PROVE  Led(q, Account!Idle)
BY DEF Account!End, Led, AccountTypes

\* A request that is led to a step from which it leads in keeps the invariant
\* when the rows stay.
LEMMA LedKeeps ==
    ASSUME AccountInvariant, NEW q \in Request, NEW step, Led(q, step),
           UNCHANGED <<users, workspaces, identity, granted>>,
           step.op = "finding" => step.way # "password",
           step.op \in {"linking", "opening"} => step.user \in workspaces,
           step.op = "opening" =>
               Known(step.way) /\ identity[step.way].secret = Account!Secret(q, step.way),
           step.op \in {"linking", "opening"} /\ step.way = "password" =>
               Registers(q) /\ (accountReq[q].op = "opening" => step.op = "opening")
    PROVE  AccountInvariant'
<1>1. AccountTypes' BY DEF AccountInvariant, AccountTypes, Led
<1>2. OneUser' /\ IdentitiesLead' BY DEF AccountInvariant, OneUser, IdentitiesLead, Known
<1>3. RequestsLead'
  BY DEF AccountInvariant, RequestsLead, Known, Led, Account!Secret
<1>4. \A p \in Request : Registers(p)' => Registers(p) BY DEF Led, Registers
<1>5. OneRegisters' BY <1>4 DEF AccountInvariant, OneRegisters
<1>6. \A p \in Request : Registers(p)' /\ accountReq[p].op = "opening" => accountReq'[p].op = "opening"
  BY <1>4 DEF Led, Registers
<1>7. GrantsLead' BY <1>4, <1>6 DEF AccountInvariant, GrantsLead, Account!loginUser, Account!NoIdentity
<1>8. QED BY <1>1, <1>2, <1>3, <1>5, <1>7 DEF AccountInvariant

LEMMA TurnKeeps ==
    ASSUME Account!Assumptions, AccountInvariant, NEW q \in Request, Turn(q)
    PROVE  AccountInvariant'
<1>. DEFINE way == accountReq[q].way
            Rows == UNCHANGED <<users, workspaces, identity, granted>>
<1>0. "password" \notin OAuthProvider BY DEF Account!Assumptions
<1>1. ASSUME Led(q, Account!Idle), Rows PROVE AccountInvariant'
  BY <1>1, LedKeeps DEF Account!Idle, Account!None
<1>2. CASE Account!registerUser(q) \/ \E w \in OAuthProvider : Account!completeOAuthLogin(q, w)
  <2>1. PICK step \in [op : {"finding", "looking"}, way : Account!Way, user : {0}] :
            /\ step.op = "finding" => step.way # "password"
            /\ accountReq' = [accountReq EXCEPT ![q] = step]
    BY <1>0, <1>2 DEF Account!registerUser, Account!completeOAuthLogin, Account!Way
  <2>2. Rows BY <1>2 DEF Account!registerUser, Account!completeOAuthLogin
  <2>3. Led(q, step) BY <2>1 DEF Led, AccountInvariant, AccountTypes
  <2>4. QED BY <2>1, <2>2, <2>3, LedKeeps
<1>3. CASE Account!getAuthIdentityByProvider(q)
  <2>. DEFINE user == identity[way].user
  <2>1. accountReq[q].op = "finding" /\ way # "password" /\ Rows /\ way \in Account!Way
    BY <1>3 DEF Account!getAuthIdentityByProvider, AccountInvariant, RequestsLead, AccountTypes,
                Account!Idle, Account!None
  <2>2. user \in Nat /\ (user # 0 <=> Known(way))
    BY <2>1 DEF AccountInvariant, AccountTypes, Known, Account!NoIdentity
  <2>3. \/ user = 0 /\ Account!Goto(q, "looking", 0)
        \/ user # 0 /\ Account!Goto(q, "opening", user)
        \/ Account!End(q)
    BY <1>3 DEF Account!getAuthIdentityByProvider
  <2>4. CASE Account!Goto(q, "looking", 0)
    <3>1. Led(q, accountReq'[q]) /\ accountReq'[q].op = "looking" BY <2>1, <2>4, Going DEF AccountInvariant
    <3>2. QED BY <2>1, <3>1, LedKeeps
  <2>5. CASE user # 0 /\ Account!Goto(q, "opening", user)
    <3>1. Led(q, accountReq'[q]) /\ accountReq'[q].op = "opening" /\ accountReq'[q].way = way /\ accountReq'[q].user = user
      BY <2>1, <2>2, <2>5, Going DEF AccountInvariant
    <3>2. Known(way) /\ user \in workspaces /\ identity[way].secret = Account!Secret(q, way)
      BY <2>1, <2>2, <2>5 DEF AccountInvariant, IdentitiesLead, Account!Secret, Account!None
    <3>3. QED BY <2>1, <3>1, <3>2, LedKeeps
  <2>6. QED BY <1>1, <2>1, <2>3, <2>4, <2>5, Ending DEF AccountInvariant
<1>4. CASE Account!getUserByEmail(q)
  <2>1. accountReq[q].op = "looking" /\ Rows BY <1>4 DEF Account!getUserByEmail
  <2>2. \/ Account!Goto(q, "creating", 0)
        \/ /\ way # "password"
           /\ \E user \in workspaces : Account!Goto(q, "linking", user)
        \/ Account!End(q)
    BY <1>4 DEF Account!getUserByEmail
  <2>3. CASE Account!Goto(q, "creating", 0)
    <3>1. Led(q, accountReq'[q]) /\ accountReq'[q].op = "creating" BY <2>1, <2>3, Going DEF AccountInvariant
    <3>2. QED BY <2>1, <3>1, LedKeeps
  <2>4. ASSUME way # "password", NEW user \in workspaces, Account!Goto(q, "linking", user)
        PROVE  AccountInvariant'
    <3>1. user \in Nat BY DEF AccountInvariant, AccountTypes
    <3>2. Led(q, accountReq'[q]) /\ accountReq'[q].op = "linking" /\ accountReq'[q].way = way /\ accountReq'[q].user = user
      BY <2>1, <2>4, <3>1, Going DEF AccountInvariant
    <3>3. QED BY <2>1, <2>4, <3>2, LedKeeps
  <2>5. QED BY <1>1, <2>1, <2>2, <2>3, <2>4, Ending DEF AccountInvariant
<1>5. CASE Account!failRequest(q)
  BY <1>1, <1>5, Ending DEF Account!failRequest, AccountInvariant
<1>6. CASE Account!createUserWithWorkspace(q)
  <2>1. accountReq[q].op = "creating" /\ UNCHANGED <<identity, granted>>
    BY <1>6 DEF Account!createUserWithWorkspace
  <2>2. CASE users # {}
    BY <1>1, <1>6, <2>2, Ending DEF Account!createUserWithWorkspace, AccountInvariant
  <2>3. CASE users = {}
    \* Nothing leads in yet.
    <3>1. /\ workspaces = {} /\ granted = {} /\ \A w \in Account!Way : ~Known(w)
          /\ \A p \in Request : accountReq[p].op \notin {"linking", "opening"}
      <4>1. workspaces = {} BY <2>3 DEF AccountInvariant, AccountTypes
      <4>2. \A w \in Account!Way : ~Known(w) BY <4>1 DEF AccountInvariant, IdentitiesLead
      <4>3. \A g \in granted : g.way \in Account!Way BY DEF AccountInvariant, AccountTypes
      <4>4. granted = {} BY <4>2, <4>3 DEF AccountInvariant, GrantsLead, Account!loginUser, Known
      <4>5. QED BY <4>1, <4>2, <4>4 DEF AccountInvariant, RequestsLead
    <3>2. PICK u : /\ users' = {u} /\ u \in 1 .. MaxUsers
                   /\ \/ workspaces' = {u} /\ Account!Goto(q, "linking", u)
                      \/ UNCHANGED workspaces /\ Account!End(q)
      <4>1. Account!NewUser \in 1 .. MaxUsers
        <5>1. MaxUsers \in Nat \ {0} BY DEF Account!Assumptions
        <5>2. 1 \in 1 .. MaxUsers /\ 1 \notin users /\ \A m \in 1 .. 1 - 1 : m \in users BY <2>3, <5>1
        <5>3. QED BY <5>2 DEF Account!NewUser
      <4>2. QED BY <1>6, <2>3, <4>1 DEF Account!createUserWithWorkspace
    <3>3. u \in Nat \ {0} BY <3>2 DEF Account!Assumptions
    <3>4. PICK step : /\ Led(q, step)
                      /\ \/ workspaces' = {u} /\ step.op = "linking" /\ step.user = u
                         \/ workspaces' = workspaces /\ step.op = "none"
      <4>1. CASE workspaces' = {u} /\ Account!Goto(q, "linking", u)
        <5>1. Led(q, accountReq'[q]) /\ accountReq'[q].op = "linking" /\ accountReq'[q].user = u
          BY <2>1, <3>3, <4>1, Going DEF AccountInvariant
        <5>2. QED BY <4>1, <5>1
      <4>2. CASE UNCHANGED workspaces /\ Account!End(q)
        BY <4>2, Ending DEF AccountInvariant, Account!Idle, Account!None
      <4>3. QED BY <3>2, <4>1, <4>2
    <3>5. AccountTypes'
      BY <2>1, <3>1, <3>2, <3>3, <3>4 DEF AccountInvariant, AccountTypes, Led
    <3>6. OneUser' BY <3>2 DEF OneUser
    <3>7. IdentitiesLead' BY <2>1, <3>1 DEF IdentitiesLead, Known
    <3>8. \A p \in Request \ {q} : accountReq'[p].op \notin {"linking", "opening"} BY <3>1, <3>4 DEF Led
    <3>9. RequestsLead'
      BY <2>1, <3>4, <3>8 DEF AccountInvariant, RequestsLead, Led
    <3>10. OneRegisters' BY <3>8 DEF OneRegisters, Registers
    <3>11. GrantsLead' BY <2>1, <3>1 DEF GrantsLead
    <3>12. QED BY <3>5, <3>6, <3>7, <3>9, <3>10, <3>11 DEF AccountInvariant
  <2>4. QED BY <2>2, <2>3
<1>7. CASE Account!createAuthIdentity(q)
  <2>. DEFINE new == [user |-> IF Known(way) THEN identity[way].user ELSE accountReq[q].user,
                      secret |-> Account!Secret(q, way)]
  <2>1. /\ accountReq[q].op = "linking" /\ UNCHANGED <<users, workspaces, granted>>
        /\ identity' = [identity EXCEPT ![way] = new]
        /\ Account!Goto(q, "opening", accountReq[q].user)
    BY <1>7 DEF Account!createAuthIdentity, Known
  <2>2. accountReq[q].user \in workspaces /\ accountReq[q].user \in Nat
    BY <2>1 DEF AccountInvariant, RequestsLead, AccountTypes
  <2>3. /\ way \in Account!Way /\ Led(q, accountReq'[q])
        /\ accountReq'[q].op = "opening" /\ accountReq'[q].way = way /\ accountReq'[q].user = accountReq[q].user
    BY <2>1, <2>2, Going DEF AccountInvariant
  <2>4. new.user \in workspaces /\ new.user \in Nat \ {0} /\ new.secret = Account!Secret(q, way)
        /\ new.secret \in Request \cup {"none"} /\ (way # "password" => new.secret = "none")
    BY <2>2, <2>3 DEF AccountInvariant, IdentitiesLead, AccountTypes, Account!Secret, Account!None
  <2>5. /\ identity'[way] = new /\ identity'[way] # Account!NoIdentity
        /\ \A w \in Account!Way \ {way} : identity'[w] = identity[w]
    BY <2>1, <2>3, <2>4 DEF AccountInvariant, AccountTypes, Account!NoIdentity
  <2>6. AccountTypes'
    <3>1. new \in [user : Nat \ {0}, secret : Request \cup {"none"}] BY <2>4
    <3>. HIDE DEF new
    <3>2. QED BY <2>1, <2>3, <3>1 DEF AccountInvariant, AccountTypes, Led
  <2>. HIDE DEF new
  <2>7. OneUser' BY <2>1 DEF AccountInvariant, OneUser
  <2>8. IdentitiesLead' BY <2>1, <2>4, <2>5 DEF AccountInvariant, IdentitiesLead, Known
  <2>9. \A p \in Request : Registers(p)' => Registers(p)
    BY <2>1, <2>3 DEF Led, Registers
  <2>10. OneRegisters' BY <2>9 DEF AccountInvariant, OneRegisters
  <2>11. RequestsLead'
    <3>1. ASSUME NEW p \in Request \ {q}, accountReq[p].op = "opening" PROVE
             /\ identity'[accountReq[p].way] # Account!NoIdentity
             /\ identity'[accountReq[p].way].secret = Account!Secret(p, accountReq[p].way)
      <4>1. Known(accountReq[p].way) /\ identity[accountReq[p].way].secret = Account!Secret(p, accountReq[p].way)
            /\ accountReq[p].way \in Account!Way
        BY <3>1 DEF AccountInvariant, RequestsLead, AccountTypes, Account!Idle, Account!None
      <4>2. CASE accountReq[p].way # way BY <2>5, <4>1, <4>2 DEF Known
      <4>3. CASE accountReq[p].way = way
        <5>1. way # "password"
          BY <2>1, <3>1, <4>3 DEF AccountInvariant, OneRegisters, Registers
        <5>2. QED BY <2>4, <2>5, <4>1, <4>3, <5>1 DEF Account!Secret
      <4>4. QED BY <4>2, <4>3
    <3>2. \A p \in Request \ {q} :
             /\ accountReq'[p] = accountReq[p]
             /\ accountReq[p].op = "finding" => accountReq[p].way # "password"
             /\ accountReq[p].op \in {"linking", "opening"} => accountReq[p].user \in workspaces'
      BY <2>1, <2>3 DEF AccountInvariant, RequestsLead, Led
    <3>3. QED BY <2>1, <2>2, <2>3, <2>4, <2>5, <3>1, <3>2 DEF RequestsLead, Known
  <2>12. GrantsLead'
    <3>1. ASSUME NEW g \in granted
          PROVE  /\ Account!loginUser(g.way, g.secret)'
                 /\ g.way = "password" => \A p \in Request : Registers(p)' => accountReq'[p].op = "opening"
      <4>1. /\ Account!loginUser(g.way, g.secret) /\ g.way \in Account!Way
            /\ g.way # "password" => g.secret = "none"
            /\ g.way = "password" => \A p \in Request : Registers(p) => accountReq[p].op = "opening"
        BY DEF AccountInvariant, AccountTypes, GrantsLead
      <4>2. CASE g.way # way
        BY <2>1, <2>3, <2>5, <2>9, <4>1, <4>2 DEF Account!loginUser, Account!NoIdentity, Led
      <4>3. CASE g.way = way
        <5>1. way # "password" BY <2>1, <4>1, <4>3 DEF Registers
        <5>2. QED
          BY <2>1, <2>4, <2>5, <4>1, <4>3, <5>1 DEF Account!loginUser, Account!NoIdentity, Known
      <4>4. QED BY <4>2, <4>3
    <3>2. QED BY <2>1, <3>1 DEF AccountInvariant, GrantsLead
  <2>13. QED BY <2>6, <2>7, <2>8, <2>10, <2>11, <2>12 DEF AccountInvariant
<1>8. CASE Account!createAuthSession(q)
  <2>. DEFINE g == [way |-> way, secret |-> Account!Secret(q, way)]
  <2>1. /\ accountReq[q].op = "opening" /\ UNCHANGED <<users, workspaces, identity>>
        /\ granted' = granted \cup {g} /\ Led(q, Account!Idle)
    BY <1>8, Ending DEF Account!createAuthSession, AccountInvariant
  <2>2. /\ way \in Account!Way /\ Account!loginUser(way, Account!Secret(q, way))
        /\ way # "password" => Account!Secret(q, way) = "none"
        /\ Account!Secret(q, way) \in Request \cup {"none"}
    <3>1. way \in Account!Way
      BY <2>1 DEF AccountInvariant, AccountTypes, Account!Idle, Account!None
    <3>2. Known(way) /\ identity[way].secret = Account!Secret(q, way)
      BY <2>1 DEF AccountInvariant, RequestsLead
    <3>3. QED
      BY <3>1, <3>2 DEF AccountInvariant, IdentitiesLead, Account!loginUser, Known, Account!Secret, Account!None
  <2>3. AccountTypes' BY <2>1, <2>2 DEF AccountInvariant, AccountTypes, Led
  <2>4. OneUser' /\ IdentitiesLead' BY <2>1 DEF AccountInvariant, OneUser, IdentitiesLead, Known
  <2>5. \A p \in Request : Registers(p)' => p # q /\ Registers(p)
    BY <2>1 DEF Led, Registers, Account!Idle, Account!None
  <2>6. OneRegisters' BY <2>5 DEF AccountInvariant, OneRegisters
  <2>7. RequestsLead'
    BY <2>1 DEF AccountInvariant, RequestsLead, Led, Known, Account!Secret, Account!Idle, Account!None
  <2>8. GrantsLead'
    <3>1. ASSUME way = "password", NEW p \in Request PROVE ~Registers(p)'
      BY <2>1, <2>5, <3>1 DEF AccountInvariant, OneRegisters, Registers
    <3>2. ASSUME NEW h \in granted
          PROVE  /\ Account!loginUser(h.way, h.secret)'
                 /\ h.way # "password" => h.secret = "none"
                 /\ h.way = "password" => \A p \in Request : Registers(p)' => accountReq'[p].op = "opening"
      BY <2>1, <2>5 DEF AccountInvariant, GrantsLead, Account!loginUser, Account!NoIdentity, Led
    <3>3. \A w, secret : Account!loginUser(w, secret) => Account!loginUser(w, secret)'
      BY <2>1 DEF Account!loginUser, Account!NoIdentity
    <3>. HIDE DEF g
    <3>4. ASSUME NEW h, h = g
          PROVE  /\ Account!loginUser(h.way, h.secret)'
                 /\ h.way # "password" => h.secret = "none"
                 /\ h.way = "password" => \A p \in Request : Registers(p)' => accountReq'[p].op = "opening"
      BY <2>2, <3>1, <3>3, <3>4 DEF g
    <3>5. QED BY <2>1, <3>2, <3>4 DEF GrantsLead
  <2>9. QED BY <2>3, <2>4, <2>6, <2>7, <2>8 DEF AccountInvariant
<1>9. QED BY <1>2, <1>3, <1>4, <1>5, <1>6, <1>7, <1>8 DEF Turn

LEMMA AccountInit ==
    ASSUME Account!Init
    PROVE  AccountInvariant
<1>1. AccountTypes BY DEF Account!Init, AccountTypes, Account!NoIdentity
<1>2. \A q \in Request : accountReq[q].op = "none" BY DEF Account!Init, Account!Idle, Account!None
<1>3. users = {} /\ granted = {} /\ \A w \in Account!Way : ~Known(w) BY DEF Account!Init, Known
<1>4. QED
  BY <1>1, <1>2, <1>3
  DEF AccountInvariant, OneUser, IdentitiesLead, RequestsLead, OneRegisters, Registers, GrantsLead

LEMMA AccountStep ==
    ASSUME Account!Assumptions, AccountInvariant, [Account!Next]_(Account!vars)
    PROVE  AccountInvariant'
<1>1. CASE Account!restart
  <2>1. \A q \in Request : accountReq'[q].op = "none" BY <1>1 DEF Account!restart, Account!Idle, Account!None
  <2>2. /\ AccountTypes'
        /\ UNCHANGED <<users, workspaces, identity, granted>>
    BY <1>1 DEF Account!restart, AccountInvariant, AccountTypes
  <2>3. QED
    BY <2>1, <2>2
    DEF AccountInvariant, OneUser, IdentitiesLead, RequestsLead, OneRegisters, Registers, GrantsLead,
        Known, Account!loginUser, Account!NoIdentity
<1>2. ASSUME NEW q \in Request, Turn(q) PROVE AccountInvariant' BY <1>2, TurnKeeps
<1>3. CASE UNCHANGED Account!vars
  BY <1>3
  DEF Account!vars, AccountInvariant, AccountTypes, OneUser, IdentitiesLead, RequestsLead, OneRegisters,
      Registers, GrantsLead, Known, Account!loginUser, Account!NoIdentity
<1>4. QED BY <1>1, <1>2, <1>3 DEF Account!Next, Turn

\* However many requests overlap, fail or are cut off, and however many OAuth
\* providers there are: who was answered with a cookie can log in again the same
\* way, and all ways lead to one user (authApplicationService.ts).
THEOREM AnsweredReturn ==
    Account!Assumptions => (Account!Spec => []Account!AnsweredCanReturn)
<1>1. SUFFICES ASSUME Account!Assumptions PROVE Account!Spec => []Account!AnsweredCanReturn
  OBVIOUS
<1>2. AccountInvariant => Account!AnsweredCanReturn
  BY DEF AccountInvariant, AccountTypes, OneUser, IdentitiesLead, GrantsLead, Known, Account!AnsweredCanReturn
<1>3. Account!Init => AccountInvariant BY AccountInit
<1>4. AccountInvariant /\ [Account!Next]_(Account!vars) => AccountInvariant' BY <1>1, AccountStep
<1>5. QED BY <1>2, <1>3, <1>4, PTL DEF Account!Spec

-----------------------------------------------------------------------------
(* Command-line agents.                                                    *)

CliTypes ==
    /\ phase \in [Cli!Unit -> {"queued", "opening", "running", "closing", "reading", "reporting", "done"}]
    /\ offer \in [Cli!Unit -> {"none", "queued", "streaming", "completed", "failed"}]
    /\ child \in [Cli!Unit -> {"none", "alive", "signalled", "exited"}]
    /\ timer \in [Cli!Unit -> {"off", "armed", "fired"}]
    /\ listed \in [Variation \cup {Refine} -> Cli!Unit \cup {NoUnit}]

\* A process is listed from its start until its generator reports, and only then
\* is there a last event to take; until it is signalled its timer is armed.
Watched(u) ==
    /\ phase[u] \in {"running", "closing"} => listed[Cli!processKey(u)] = u
    /\ child[u] \in {"alive", "signalled"} => phase[u] \in {"running", "closing"}
    /\ child[u] = "alive" => timer[u] = "armed"
    /\ offer[u] \in Cli!Terminal => phase[u] = "reporting"

CliInvariant == CliTypes /\ \A u \in Cli!JobUnit : Watched(u)

\* Units of one delivery have processes of their own.
OneDelivery == \A d, e \in Delivery : d = e

LEMMA Keys ==
    ASSUME Cli!Assumptions, OneDelivery
    PROVE  /\ Cli!JobUnit \subseteq Cli!Unit /\ Refine \in Cli!Unit
           /\ \A u \in Cli!Unit : u # Refine => u \in Cli!JobUnit
           /\ Refine \notin Cli!JobUnit
           /\ \A u \in Cli!Unit : Cli!processKey(u) \in Variation \cup {Refine}
           /\ \A u, w \in Cli!Unit : Cli!processKey(u) = Cli!processKey(w) => u = w
<1>1. Refine \notin Cli!JobUnit /\ Refine \notin Variation BY DEF Cli!Assumptions, Cli!JobUnit
<1>2. \A u \in Cli!JobUnit : u[1] \in Delivery /\ u[2] \in Variation /\ u = <<u[1], u[2]>>
  BY DEF Cli!JobUnit
<1>3. QED BY <1>1, <1>2 DEF Cli!JobUnit, Cli!Unit, Cli!processKey, OneDelivery

\* What a step of one unit leaves of the others.
Aside(u) == \A w \in Cli!Unit \ {u} :
    /\ phase'[w] = phase[w] /\ child'[w] = child[w] /\ timer'[w] = timer[w] /\ offer'[w] = offer[w]
    /\ listed'[Cli!processKey(w)] = listed[Cli!processKey(w)]

LEMMA UnitKeeps ==
    ASSUME Cli!Assumptions, OneDelivery, CliInvariant, NEW u \in Cli!Unit, Cli!UnitStep(u)
    PROVE  CliInvariant'
<1>1. /\ CliTypes /\ \A w \in Cli!JobUnit : Watched(w)
      /\ u # Refine => Watched(u)
  BY Keys DEF CliInvariant
<1>k. /\ Cli!processKey(u) \in Variation \cup {Refine}
      /\ \A w \in Cli!Unit \ {u} :
             Cli!processKey(w) \in Variation \cup {Refine} /\ Cli!processKey(w) # Cli!processKey(u)
  BY Keys
<1>2. SUFFICES CliTypes' /\ Aside(u) /\ (u # Refine => Watched(u)')
  BY <1>1, Keys DEF CliInvariant, Watched, Aside, Cli!processKey
<1>3. CASE Cli!Spawn(u)
  BY <1>1, <1>k, <1>3 DEF Cli!Spawn, Cli!Runs, CliTypes, Aside, Watched, Cli!Terminal
<1>4. CASE Cli!WorkspaceRejected(u)
  BY <1>1, <1>k, <1>4 DEF Cli!WorkspaceRejected, Cli!Runs, Cli!Yield, Cli!processVars, CliTypes, Aside, Watched, Cli!Terminal
<1>5. CASE Cli!Output(u)
  BY <1>1, <1>k, <1>5 DEF Cli!Output, Cli!Runs, Cli!Yield, Cli!processVars, CliTypes, Aside, Watched, Cli!Terminal
<1>6. CASE Cli!OutputFloods(u)
  BY <1>1, <1>k, <1>6 DEF Cli!OutputFloods, Cli!Runs, Cli!Signal, CliTypes, Aside, Watched, Cli!Terminal
<1>7. CASE Cli!OutputEnds(u)
  BY <1>1, <1>k, <1>7 DEF Cli!OutputEnds, Cli!Runs, Cli!processVars, CliTypes, Aside, Watched, Cli!Terminal
<1>8. CASE Cli!Exit(u)
  BY <1>1, <1>k, <1>8 DEF Cli!Exit, CliTypes, Aside, Watched, Cli!Terminal
<1>9. CASE Cli!TimeOut(u)
  BY <1>1, <1>k, <1>9 DEF Cli!TimeOut, Cli!Signal, CliTypes, Aside, Watched, Cli!Terminal
<1>10. CASE Cli!Judge(u)
  BY <1>1, <1>k, <1>10 DEF Cli!Judge, Cli!Runs, Cli!Yield, Cli!processVars, CliTypes, Aside, Watched, Cli!Terminal
<1>11. CASE Cli!ReadWorkspace(u)
  BY <1>1, <1>k, <1>11 DEF Cli!ReadWorkspace, Cli!Runs, Cli!Yield, Cli!processVars, CliTypes, Aside, Watched, Cli!Terminal
<1>12. CASE Cli!Take(u)
  BY <1>1, <1>k, <1>12 DEF Cli!Take, Cli!Release, CliTypes, Aside, Watched, Cli!Terminal
<1>13. QED
  BY <1>3, <1>4, <1>5, <1>6, <1>7, <1>8, <1>9, <1>10, <1>11, <1>12 DEF Cli!UnitStep

LEMMA JobKeeps ==
    ASSUME Cli!Assumptions, OneDelivery, CliInvariant, NEW d \in Delivery, Cli!JobStep(d)
    PROVE  CliInvariant'
<1>1. CASE \E v \in Variation : Cli!Pull(d, v)
  <2>1. PICK v \in Variation : Cli!Pull(d, v) BY <1>1
  <2>2. <<d, v>> \in Cli!Unit BY DEF Cli!Unit, Cli!JobUnit
  <2>3. QED BY <2>1, <2>2, Keys
           DEF Cli!Pull, Cli!Yield, Cli!processVars, CliInvariant, CliTypes, Watched, Cli!Terminal
<1>2. CASE Cli!SpawnVariationAgents(d) \/ Cli!JobCompleted(d) \/ Cli!StopJob(d)
  BY <1>2 DEF Cli!SpawnVariationAgents, Cli!JobCompleted, Cli!StopJob, Cli!processVars,
              CliInvariant, CliTypes, Watched
<1>3. QED BY <1>1, <1>2 DEF Cli!JobStep

\* Cancels signal processes, and the end of a refine is none of the job's.
LEMMA CancelKeeps ==
    ASSUME Cli!Assumptions, OneDelivery, CliInvariant,
           \/ Cli!RefineVariation \/ Cli!StopRefine
           \/ Cli!CancelJob \/ Cli!FlagRefine \/ Cli!CancelRefine
    PROVE  CliInvariant'
<1>1. ASSUME NEW us, child' = Cli!SignalAll(us), UNCHANGED <<phase, offer, timer, listed>>
      PROVE  CliInvariant'
  BY <1>1, Keys DEF Cli!SignalAll, CliInvariant, CliTypes, Watched
<1>2. CASE Cli!RefineVariation
  BY <1>2, Keys DEF Cli!RefineVariation, Cli!processVars, CliInvariant, CliTypes, Watched
<1>3. CASE Cli!StopRefine
  <2>1. Cli!processKey(Refine) = Refine BY DEF Cli!processKey
  <2>2. \A u \in Cli!JobUnit : u # Refine /\ Cli!processKey(u) # Refine
        /\ Cli!processKey(u) \in Variation \cup {Refine}
    BY <2>1, Keys
  <2>3. QED BY <1>3, <2>1, <2>2, Keys DEF Cli!StopRefine, Cli!Release, CliInvariant, CliTypes, Watched, Cli!Terminal
<1>4. CASE Cli!CancelJob \/ Cli!CancelRefine
  BY <1>1, <1>4 DEF Cli!CancelJob, Cli!CancelRefine
<1>5. CASE Cli!FlagRefine
  BY <1>5 DEF Cli!FlagRefine, Cli!processVars, CliInvariant, CliTypes, Watched
<1>6. QED BY <1>2, <1>3, <1>4, <1>5

\* A running process of a job can be found by a cancellation, and until it is told to
\* end its timer is armed, whatever became of the loop over its events; of two
\* deliveries of one job the processes share a key (cliAgentGateway.ts).
THEOREM ProcessesAreWatched ==
    Cli!Assumptions /\ OneDelivery => (Cli!Spec => []Cli!ProcessesWatched)
<1>1. SUFFICES ASSUME Cli!Assumptions, OneDelivery PROVE Cli!Spec => []Cli!ProcessesWatched
  OBVIOUS
<1>2. Cli!Init => CliInvariant
  <2>1. Cli!Init => CliTypes BY DEF Cli!Init, CliTypes
  <2>2. Cli!Init => \A u \in Cli!Unit : phase[u] = "queued" /\ child[u] = "none" /\ offer[u] = "none"
    BY DEF Cli!Init
  <2>3. QED BY <1>1, <2>1, <2>2, Keys DEF CliInvariant, Watched, Cli!Terminal
<1>3. CliInvariant /\ [Cli!Next]_(Cli!vars) => CliInvariant'
  <2>1. CliInvariant /\ UNCHANGED Cli!vars => CliInvariant'
    BY DEF Cli!vars, CliInvariant, CliTypes, Watched
  <2>2. QED BY <1>1, <2>1, UnitKeeps, JobKeeps, CancelKeeps DEF Cli!Next
<1>4. CliInvariant => Cli!ProcessesWatched
  BY DEF CliInvariant, Watched, Cli!ProcessesWatched
<1>5. QED BY <1>2, <1>3, <1>4, PTL DEF Cli!Spec

-----------------------------------------------------------------------------
(* A design session.                                                       *)

SessionRow == [status : {"none", "active", "archived"}, title : Title \cup {Sessions!NoTitle, "prompt"},
               prompt : Nat, runtime : Nat]
HomePage == [entry : Title \cup {Sessions!NoTitle, "prompt"}, status : {"idle", "submitting", "error"},
             saving : BOOLEAN, left : Nat]
SessionOp ==
    {Sessions!Idle} \cup [op : {"creating"}, copy : SessionRow]
    \cup [op : {"filing"}, copy : SessionRow, submits : BOOLEAN] \cup [op : {"adding"}, submits : BOOLEAN]
    \cup [op : {"renaming"}, copy : SessionRow, title : Title] \cup [op : {"removing"}]
    \cup [op : {"resuming", "keeping"}, copy : SessionRow, newest : Nat]

SessionTypes ==
    /\ session \in SessionRow /\ sessionDecided \in SessionRow /\ home \in HomePage
    /\ sessionJobs \in Nat
    /\ sessionOps \in [Request -> SessionOp]

\* What is written is what the answers said, also between the two.
Agreed ==
    /\ session = sessionDecided
    /\ home.entry # Sessions!NoTitle => home.entry = session.title /\ session.status = "active"

\* The copy of the request in progress is the row, but for the runtime session
\* that it is about to save; the row is ahead of the jobs while one is added.
Abreast(h) ==
    /\ sessionOps[h].op \in {"creating", "filing", "renaming", "resuming"} => sessionOps[h].copy = session
    /\ sessionOps[h].op = "keeping" => \E id \in Nat : sessionOps[h].copy = [session EXCEPT !.runtime = id]
    /\ sessionOps[h].op = "renaming" => session.status = "active"
    /\ session.prompt = IF sessionOps[h].op = "adding" THEN sessionJobs + 1 ELSE sessionJobs

Unhurried ==
    /\ SessionTypes /\ Agreed
    /\ \A g, h \in Request : sessionOps[g] # Sessions!Idle /\ sessionOps[h] # Sessions!Idle => g = h
    /\ ~Sessions!Busy => session.prompt = sessionJobs
    /\ \A h \in Request : sessionOps[h] # Sessions!Idle => Abreast(h)

SessionInvariant == overlaps \in Nat /\ (overlaps = 0 => Unhurried)

LEMMA Beginning ==
    ASSUME overlaps \in Nat, overlaps = 0 => Unhurried, NEW h \in Request, NEW next,
           Sessions!Begin(h, next)
    PROVE  /\ overlaps' \in Nat /\ overlaps' >= overlaps
           /\ overlaps' = 0 =>
                  /\ overlaps = 0 /\ ~Sessions!Busy
                  /\ next \in SessionOp => sessionOps' \in [Request -> SessionOp]
                  /\ sessionOps'[h] = next /\ \A g \in Request \ {h} : sessionOps'[g] = Sessions!Idle
BY DEF Sessions!Begin, Sessions!Goto, Sessions!Busy, Unhurried, SessionTypes

LEMMA Continuing ==
    ASSUME Unhurried, NEW h \in Request, sessionOps[h] # Sessions!Idle, NEW next \in SessionOp,
           Sessions!Goto(h, next)
    PROVE  /\ sessionOps' \in [Request -> SessionOp]
           /\ sessionOps'[h] = next /\ \A g \in Request \ {h} : sessionOps'[g] = Sessions!Idle
           /\ Sessions!Busy' <=> next # Sessions!Idle
BY DEF Sessions!Goto, Sessions!Busy, Unhurried, SessionTypes

\* An invariant of one request in progress, or of none.
LEMMA OneAtATime ==
    ASSUME NEW h \in Request, SessionTypes', Agreed',
           \A g \in Request \ {h} : sessionOps'[g] = Sessions!Idle,
           sessionOps'[h] = Sessions!Idle => session'.prompt = sessionJobs',
           sessionOps'[h] # Sessions!Idle => Abreast(h)'
    PROVE  Unhurried'
BY DEF Unhurried, Sessions!Busy

LEMMA SessionOps ==
    ASSUME SessionTypes, NEW h \in Request
    PROVE  /\ sessionOps[h].op = "idle" <=> sessionOps[h] = Sessions!Idle
           /\ sessionOps[h].op \in {"creating", "filing", "renaming", "resuming", "keeping"} =>
                  sessionOps[h].copy \in SessionRow
           /\ sessionOps[h].op \in {"filing", "adding"} => sessionOps[h].submits \in BOOLEAN
           /\ sessionOps[h].op = "renaming" => sessionOps[h].title \in Title
           /\ sessionOps[h].op \in {"resuming", "keeping"} =>
                  /\ sessionOps[h] \in [op : {"resuming", "keeping"}, copy : SessionRow, newest : Nat]
                  /\ sessionOps[h].newest \in Nat
BY DEF SessionTypes, SessionOp, Sessions!Idle

\* Requests that begin.
LEMMA RequestBegins ==
    ASSUME Sessions!Assumptions, SessionInvariant, NEW h \in Request,
           \/ Sessions!createSession(h) \/ \E submits \in BOOLEAN : Sessions!createDesignJob(h, submits)
           \/ \E title \in Title : Sessions!updateSession(h, title)
           \/ Sessions!deleteSession(h) \/ Sessions!resumeSession(h)
    PROVE  SessionInvariant'
<1>. DEFINE Free == Unhurried /\ ~Sessions!Busy
            Begun(next) == sessionOps' \in [Request -> SessionOp] /\ sessionOps'[h] = next
<1>1. ASSUME NEW next, Sessions!Begin(h, next),
             Free => next \in SessionOp,
             Free /\ Begun(next) => SessionTypes' /\ Agreed' /\ Abreast(h)'
      PROVE  SessionInvariant'
  <2>0. /\ overlaps' \in Nat
        /\ overlaps' = 0 =>
               /\ overlaps = 0 /\ ~Sessions!Busy
               /\ next \in SessionOp => sessionOps' \in [Request -> SessionOp]
               /\ sessionOps'[h] = next /\ \A g \in Request \ {h} : sessionOps'[g] = Sessions!Idle
    BY <1>1, Beginning DEF SessionInvariant
  <2>1. overlaps' = 0 => Free /\ Begun(next) /\ \A g \in Request \ {h} : sessionOps'[g] = Sessions!Idle
    BY <1>1, <2>0 DEF SessionInvariant
  <2>2. ASSUME overlaps' = 0 PROVE Unhurried'
    <3>1. SessionTypes' /\ Agreed' /\ Abreast(h)' BY <1>1, <2>1, <2>2
    <3>2. \A g \in Request \ {h} : sessionOps'[g] = Sessions!Idle BY <2>1, <2>2
    <3>3. sessionOps'[h] = Sessions!Idle => session'.prompt = sessionJobs'
      BY <3>1 DEF Abreast, Sessions!Idle
    <3>4. QED BY <3>1, <3>2, <3>3, OneAtATime
  <2>3. QED BY <2>0, <2>2 DEF SessionInvariant
<1>2. Free => SessionTypes /\ Agreed /\ session.prompt = sessionJobs BY DEF Unhurried
<1>3. CASE Sessions!createSession(h)
  <2>. DEFINE new == [status |-> "active", title |-> "prompt", prompt |-> 0, runtime |-> 0]
              next == [op |-> "creating", copy |-> new]
  <2>1. new \in SessionRow /\ next \in SessionOp BY DEF SessionRow, SessionOp
  <2>2. /\ session = Sessions!NoSession /\ session' = new /\ sessionDecided' = session'
        /\ home' = [home EXCEPT !.status = "submitting"] /\ UNCHANGED sessionJobs
        /\ Sessions!Begin(h, next)
    BY <1>3 DEF Sessions!createSession
  <2>3. Free => home' \in HomePage /\ home'.entry = Sessions!NoTitle /\ sessionJobs = 0
    BY <1>2, <2>2 DEF SessionTypes, HomePage, Agreed, Sessions!NoSession
  <2>4. Free /\ Begun(next) => SessionTypes' /\ Agreed' /\ Abreast(h)'
    BY <1>2, <2>1, <2>2, <2>3 DEF SessionTypes, Agreed, Abreast
  <2>. HIDE DEF next
  <2>5. QED BY <1>1, <2>1, <2>2, <2>4
<1>4. ASSUME NEW next, Sessions!Begin(h, next), Free => next \in SessionOp,
             UNCHANGED <<session, sessionJobs, sessionDecided>>,
             home' = home \/ home' = [home EXCEPT !.saving = TRUE],
             Free => /\ next.op \notin {"adding", "keeping"}
                     /\ next.op \in {"creating", "filing", "renaming", "resuming"} => next.copy = session
                     /\ next.op = "renaming" => session.status = "active"
      PROVE  SessionInvariant'
  <2>1. Free => home' \in HomePage /\ home'.entry = home.entry
    BY <1>2, <1>4 DEF SessionTypes, HomePage
  <2>2. Free /\ Begun(next) => SessionTypes' /\ Agreed' /\ Abreast(h)'
    BY <1>2, <1>4, <2>1 DEF SessionTypes, Agreed, Abreast
  <2>3. QED BY <1>1, <1>4, <2>2
<1>5. ASSUME NEW submits \in BOOLEAN, Sessions!createDesignJob(h, submits) PROVE SessionInvariant'
  BY <1>2, <1>4, <1>5 DEF Sessions!createDesignJob, SessionOp, SessionTypes
<1>6. ASSUME NEW title \in Title, Sessions!updateSession(h, title) PROVE SessionInvariant'
  BY <1>2, <1>4, <1>6 DEF Sessions!updateSession, Sessions!FromPage, SessionOp, SessionTypes
<1>7. CASE Sessions!deleteSession(h)
  BY <1>2, <1>4, <1>7 DEF Sessions!deleteSession, Sessions!FromPage, SessionOp
<1>8. CASE Sessions!resumeSession(h)
  BY <1>2, <1>4, <1>8
  DEF Sessions!resumeSession, Sessions!FromPage, Sessions!SessionSnapshot, SessionOp, SessionTypes
<1>9. QED BY <1>3, <1>5, <1>6, <1>7, <1>8

\* Requests that go on.
LEMMA RequestGoesOn ==
    ASSUME Sessions!Assumptions, SessionInvariant, NEW h \in Request,
           \/ Sessions!saveCreated(h) \/ Sessions!saveJobSession(h) \/ Sessions!saveJob(h)
           \/ Sessions!saveTitle(h) \/ Sessions!archiveSession(h)
           \/ Sessions!runtimeResumed(h) \/ Sessions!saveResumed(h)
    PROVE  SessionInvariant'
<1>. DEFINE now == sessionOps[h]
            Begun(next) == sessionOps' \in [Request -> SessionOp] /\ sessionOps'[h] = next
<1>0. UNCHANGED overlaps /\ now # Sessions!Idle
  <2>1. UNCHANGED overlaps
    BY DEF Sessions!saveCreated, Sessions!saveJobSession, Sessions!saveJob, Sessions!saveTitle,
           Sessions!archiveSession, Sessions!runtimeResumed, Sessions!saveResumed
  <2>2. now.op \in {"creating", "filing", "adding", "renaming", "removing", "resuming", "keeping"}
    BY DEF Sessions!saveCreated, Sessions!saveJobSession, Sessions!saveJob, Sessions!saveTitle,
           Sessions!archiveSession, Sessions!runtimeResumed, Sessions!saveResumed
  <2>3. QED BY <2>1, <2>2 DEF Sessions!Idle
<1>1. ASSUME NEW next, Sessions!Goto(h, next),
             Unhurried => next \in SessionOp,
             Unhurried /\ Begun(next) =>
                 /\ SessionTypes' /\ Agreed'
                 /\ IF next = Sessions!Idle THEN session'.prompt = sessionJobs' ELSE Abreast(h)'
      PROVE  SessionInvariant'
  <2>1. Unhurried => Begun(next) /\ \A g \in Request \ {h} : sessionOps'[g] = Sessions!Idle
    BY <1>0, <1>1, Continuing
  <2>2. Unhurried => Unhurried' BY <1>1, <2>1, OneAtATime
  <2>3. QED BY <1>0, <2>2 DEF SessionInvariant
<1>2. Unhurried =>
        /\ SessionTypes /\ Agreed /\ Abreast(h)
        /\ now.op \in {"creating", "filing", "renaming", "resuming", "keeping"} => now.copy \in SessionRow
        /\ now.op = "renaming" => now.title \in Title
        /\ now.op \in {"resuming", "keeping"} =>
               now \in [op : {"resuming", "keeping"}, copy : SessionRow, newest : Nat]
  BY <1>0, SessionOps DEF Unhurried
<1>3. Sessions!Idle \in SessionOp BY DEF SessionOp
<1>4. CASE Sessions!saveCreated(h)
  <2>1. PICK id \in 0 .. MaxRuntime :
            /\ session' = [now.copy EXCEPT !.runtime = id]
            /\ sessionDecided' = [sessionDecided EXCEPT !.runtime = id]
    BY <1>4 DEF Sessions!saveCreated
  <2>2. now.op = "creating" /\ UNCHANGED <<sessionJobs, home>> /\ Sessions!Goto(h, Sessions!Idle)
    BY <1>4 DEF Sessions!saveCreated
  <2>3. Unhurried => /\ session' \in SessionRow /\ sessionDecided' = session'
                     /\ session'.title = session.title /\ session'.status = session.status
                     /\ session'.prompt = session.prompt
    BY <1>2, <2>1, <2>2 DEF Abreast, Agreed, SessionRow, SessionTypes
  <2>4. QED BY <1>1, <1>2, <1>3, <2>2, <2>3 DEF SessionTypes, Agreed, Abreast
<1>5. CASE Sessions!saveJobSession(h)
  <2>. DEFINE next == [op |-> "adding", submits |-> now.submits]
  <2>1. /\ now.op = "filing" /\ UNCHANGED <<sessionJobs, home>> /\ Sessions!Goto(h, next)
        /\ session' = [now.copy EXCEPT !.prompt = sessionJobs + 1]
        /\ sessionDecided' = [sessionDecided EXCEPT !.prompt = sessionJobs + 1]
    BY <1>5 DEF Sessions!saveJobSession
  <2>2. Unhurried => /\ session' \in SessionRow /\ sessionDecided' = session'
                     /\ session'.title = session.title /\ session'.status = session.status
                     /\ session'.prompt = sessionJobs + 1
    BY <1>2, <2>1 DEF Abreast, Agreed, SessionRow, SessionTypes
  <2>3. Unhurried => next \in SessionOp BY <2>1, SessionOps DEF Unhurried, SessionOp
  <2>4. next # Sessions!Idle BY DEF Sessions!Idle
  <2>5. Unhurried /\ Begun(next) => SessionTypes' /\ Agreed' /\ Abreast(h)'
    BY <1>2, <2>1, <2>2 DEF SessionTypes, Agreed, Abreast
  <2>. HIDE DEF next
  <2>6. QED BY <1>1, <2>1, <2>3, <2>4, <2>5
<1>6. CASE Sessions!saveJob(h)
  <2>1. /\ now.op = "adding" /\ UNCHANGED <<session, sessionDecided>> /\ Sessions!Goto(h, Sessions!Idle)
        /\ sessionJobs' = sessionJobs + 1
        /\ home' = home \/ home' = [home EXCEPT !.status = "idle", !.left = sessionJobs']
    BY <1>6 DEF Sessions!saveJob
  <2>2. Unhurried => sessionJobs' \in Nat /\ home' \in HomePage /\ home'.entry = home.entry
    <3>1. Unhurried => sessionJobs' \in Nat /\ home \in HomePage BY <1>2, <2>1 DEF SessionTypes
    <3>2. QED BY <2>1, <3>1 DEF HomePage
  <2>3. QED BY <1>1, <1>2, <1>3, <2>1, <2>2 DEF SessionTypes, Agreed, Abreast
<1>7. CASE Sessions!saveTitle(h)
  <2>1. /\ now.op = "renaming" /\ UNCHANGED sessionJobs /\ Sessions!Goto(h, Sessions!Idle)
        /\ session' = [now.copy EXCEPT !.title = now.title]
        /\ sessionDecided' = [sessionDecided EXCEPT !.title = now.title]
        /\ home' = [home EXCEPT !.entry = now.title, !.saving = FALSE]
    BY <1>7 DEF Sessions!saveTitle
  <2>2. Unhurried => /\ session' \in SessionRow /\ sessionDecided' = session'
                     /\ session'.title = now.title /\ session'.status = "active"
                     /\ session'.prompt = sessionJobs
                     /\ home' \in HomePage /\ home'.entry = now.title
    BY <1>2, <2>1 DEF Abreast, Agreed, SessionRow, SessionTypes, HomePage
  <2>3. QED BY <1>1, <1>2, <1>3, <2>1, <2>2 DEF SessionTypes, Agreed
<1>8. CASE Sessions!archiveSession(h)
  <2>1. /\ now.op = "removing" /\ UNCHANGED sessionJobs /\ Sessions!Goto(h, Sessions!Idle)
        /\ session' = [session EXCEPT !.status = "archived"]
        /\ sessionDecided' = [sessionDecided EXCEPT !.status = "archived"]
        /\ home' = [home EXCEPT !.entry = Sessions!NoTitle, !.saving = FALSE]
    BY <1>8 DEF Sessions!archiveSession
  <2>2. Unhurried => /\ session' \in SessionRow /\ sessionDecided' = session'
                     /\ session'.prompt = sessionJobs
                     /\ home' \in HomePage /\ home'.entry = Sessions!NoTitle
    BY <1>2, <2>1 DEF Abreast, Agreed, SessionRow, SessionTypes, HomePage
  <2>3. QED BY <1>1, <1>2, <1>3, <2>1, <2>2 DEF SessionTypes, Agreed
<1>9. ASSUME Sessions!Resumed(h), now.op \in {"resuming", "keeping"}, Unhurried
      PROVE  home' \in HomePage /\ home'.entry = home.entry
  BY <1>2, <1>9, SessionOps DEF Sessions!Resumed, SessionTypes, HomePage
<1>10. CASE Sessions!runtimeResumed(h)
  <2>1. /\ now.op = "resuming" /\ UNCHANGED <<session, sessionJobs, sessionDecided>>
        /\ \/ Sessions!Goto(h, Sessions!Idle) /\ Sessions!Resumed(h)
           \/ \E id \in 0 .. MaxRuntime :
                Sessions!Goto(h, [now EXCEPT !.op = "keeping", !.copy.runtime = id]) /\ UNCHANGED home
    BY <1>10 DEF Sessions!runtimeResumed
  <2>2. CASE Sessions!Goto(h, Sessions!Idle) /\ Sessions!Resumed(h)
    BY <1>1, <1>2, <1>3, <1>9, <2>1, <2>2 DEF SessionTypes, Agreed, Abreast
  <2>3. ASSUME NEW id \in 0 .. MaxRuntime, UNCHANGED home,
               Sessions!Goto(h, [now EXCEPT !.op = "keeping", !.copy.runtime = id])
        PROVE  SessionInvariant'
    <3>. DEFINE next == [now EXCEPT !.op = "keeping", !.copy.runtime = id]
    <3>0. id \in Nat BY DEF Sessions!Assumptions
    <3>1. Unhurried => /\ next \in SessionOp /\ next.op = "keeping"
                       /\ next.copy = [session EXCEPT !.runtime = id]
      <4>1. Unhurried => now.copy = session /\ session \in SessionRow
        BY <1>2, <2>1 DEF Abreast, SessionTypes
      <4>2. Unhurried => [session EXCEPT !.runtime = id] \in SessionRow
        BY <3>0, <4>1 DEF SessionRow
      <4>3. next = [now EXCEPT !.op = "keeping", !.copy = [now.copy EXCEPT !.runtime = id]]
        OBVIOUS
      <4>4. Unhurried => /\ next \in [op : {"resuming", "keeping"}, copy : SessionRow, newest : Nat]
                         /\ next.op = "keeping" /\ next.copy = [session EXCEPT !.runtime = id]
        BY <1>2, <2>1, <4>1, <4>2, <4>3
      <4>5. QED BY <4>4 DEF SessionOp
    <3>2. Unhurried /\ Begun(next) => SessionTypes' /\ Agreed' /\ Abreast(h)'
      BY <1>2, <2>1, <2>3, <3>0, <3>1 DEF SessionTypes, Agreed, Abreast
    <3>3. Unhurried => next # Sessions!Idle BY <3>1 DEF Sessions!Idle
    <3>. HIDE DEF next
    <3>4. Sessions!Goto(h, next) BY <2>3 DEF next
    <3>5. QED BY <1>1, <3>1, <3>2, <3>3, <3>4
  <2>4. QED BY <2>1, <2>2, <2>3
<1>11. CASE Sessions!saveResumed(h)
  <2>1. /\ now.op = "keeping" /\ UNCHANGED sessionJobs /\ Sessions!Goto(h, Sessions!Idle)
        /\ session' = now.copy /\ sessionDecided' = [sessionDecided EXCEPT !.runtime = now.copy.runtime]
        /\ Sessions!Resumed(h)
    BY <1>11 DEF Sessions!saveResumed
  <2>2. Unhurried => /\ session' \in SessionRow /\ sessionDecided' = session'
                     /\ session'.title = session.title /\ session'.status = session.status
                     /\ session'.prompt = sessionJobs
    BY <1>2, <2>1 DEF Abreast, Agreed, SessionRow, SessionTypes
  <2>3. QED BY <1>1, <1>2, <1>3, <1>9, <2>1, <2>2 DEF SessionTypes, Agreed
<1>12. QED BY <1>4, <1>5, <1>6, <1>7, <1>8, <1>10, <1>11

LEMMA SessionInit == Sessions!Init => SessionInvariant
BY DEF Sessions!Init, Sessions!NoSession, Sessions!Busy, SessionInvariant, Unhurried, SessionTypes, SessionRow,
       HomePage, SessionOp, Agreed

LEMMA SessionStep ==
    ASSUME Sessions!Assumptions, SessionInvariant, [Sessions!Next]_(Sessions!vars)
    PROVE  SessionInvariant'
<1>1. CASE UNCHANGED Sessions!vars
  BY <1>1 DEF Sessions!vars, SessionInvariant, Unhurried, SessionTypes, Agreed, Abreast, Sessions!Busy
<1>2. CASE Sessions!openHome
  <2>1. /\ UNCHANGED <<session, sessionJobs, sessionOps, sessionDecided, overlaps>>
        /\ home' = [entry |-> Sessions!Listed, status |-> "idle", saving |-> FALSE, left |-> 0]
    BY <1>2 DEF Sessions!openHome
  <2>2. Unhurried => home' \in HomePage /\ Agreed'
    BY <2>1 DEF Unhurried, SessionTypes, SessionRow, HomePage, Agreed, Sessions!Listed
  <2>3. QED BY <2>1, <2>2 DEF SessionInvariant, Unhurried, SessionTypes, Abreast, Sessions!Busy
<1>3. CASE Sessions!restart
  BY <1>3 DEF Sessions!restart, SessionInvariant
<1>4. CASE Sessions!runtimeForgets
  BY <1>4 DEF Sessions!runtimeForgets, SessionInvariant, Unhurried, SessionTypes, Agreed, Abreast, Sessions!Busy
<1>5. QED BY <1>1, <1>2, <1>3, <1>4, RequestBegins, RequestGoesOn DEF Sessions!Next

\* As long as no two requests overlap and none is cut off, the row of a session is what
\* the answers said, and the home page lists it as it is stored (service.ts, page.tsx).
THEOREM LastWordsStand == Sessions!Assumptions => (Sessions!Spec => []Sessions!LastWordStands)
<1>1. SUFFICES ASSUME Sessions!Assumptions PROVE Sessions!Spec => []Sessions!LastWordStands
  OBVIOUS
<1>2. SessionInvariant => Sessions!LastWordStands
  BY DEF SessionInvariant, Unhurried, Agreed, Sessions!LastWordStands
<1>3. Sessions!Init => SessionInvariant BY SessionInit
<1>4. SessionInvariant /\ [Sessions!Next]_(Sessions!vars) => SessionInvariant' BY <1>1, SessionStep
<1>5. QED BY <1>2, <1>3, <1>4, PTL DEF Sessions!Spec

-----------------------------------------------------------------------------
(* What jobs are made from.                                                *)

\* A record of these fields, whatever they hold.
Creates(a) ==
    a = [op |-> "create", phase |-> a.phase, by |-> a.by, barred |-> a.barred,
         input |-> a.input, versions |-> a.versions]
Governs(a) ==
    a \in [op : Selections!Governing, phase : {"asked", "saved", "auditing"},
           by : Process, plugin : Plugin, alone : BOOLEAN]
Chooses(i) ==
    i = [plugins |-> i.plugins, packs |-> i.packs, auto |-> i.auto, count |-> i.count,
         plan |-> i.plan, source |-> i.source, of |-> i.of, variation |-> i.variation]

GovernanceTypes ==
    /\ override \in [Plugin -> {"none", "active", "disabled"}]
    /\ process \in [Process -> [state : {"starting", "read", "ready"},
                                found : SUBSET Plugin, disabled : SUBSET Plugin]]
    /\ told \subseteq Plugin /\ barred \in [Process -> SUBSET Plugin]
    /\ asked = [q \in Request |-> asked[q]]
    /\ \A q \in Request :
        \/ asked[q] = Selections!Idle \/ Governs(asked[q])
        \/ Creates(asked[q]) /\ asked[q].by \in Process /\ Chooses(asked[q].input)

Changing(q, p) == asked[q].op \in Selections!Governing /\ asked[q].plugin = p

\* What an operator was told is in the row, and nobody is about to take it back.
ToldStored == \A p \in told :
    override[p] = "disabled" /\ \A q \in Request : Changing(q, p) => asked[q].op = "disable"

\* A process holds what it was told, as soon as it has read the rows.
BarredHeld == \A x \in Process :
    /\ barred[x] \subseteq told
    /\ process[x].state = "read" => barred[x] \subseteq process[x].found
    /\ process[x].state = "ready" => barred[x] \subseteq process[x].disabled

\* A change that no other overlaps has had its effect at each of its steps.
ChangesHold == \A q \in Request : asked[q].op \in Selections!Governing =>
    /\ process[asked[q].by].state = "ready"
    /\ asked[q].alone =>
        /\ \A r \in Request : Changing(r, asked[q].plugin) => r = q
        /\ asked[q].op = "disable" =>
            /\ asked[q].phase # "asked" => override[asked[q].plugin] = "disabled"
            /\ asked[q].phase = "auditing" => asked[q].plugin \in process[asked[q].by].disabled

\* A job that is being created has none of the plugins barred from it, once it is governed.
CreationsClean == \A q \in Request : asked[q].op = "create" =>
    IF asked[q].phase = "asked" THEN asked[q].barred \subseteq barred[asked[q].by]
    ELSE asked[q].input.plugins \cap asked[q].barred = {}

IsSeq(s) == \E S : s \in Seq(S)

JobsClean == IsSeq(selected) /\ \A j \in DOMAIN selected : selected[j].plugins \cap selected[j].barred = {}

GovernanceInvariant ==
    GovernanceTypes /\ ToldStored /\ BarredHeld /\ ChangesHold /\ CreationsClean /\ JobsClean

LEMMA Appended ==
    ASSUME NEW s, IsSeq(s), NEW e
    PROVE  /\ IsSeq(Append(s, e)) /\ Len(s) \in Nat /\ DOMAIN s = 1 .. Len(s)
           /\ DOMAIN Append(s, e) = 1 .. Len(s) + 1
           /\ \A i \in DOMAIN s : Append(s, e)[i] = s[i]
           /\ Append(s, e)[Len(s) + 1] = e
<1>1. PICK S : s \in Seq(S) BY DEF IsSeq
<1>2. s \in Seq(S \cup {e}) /\ e \in S \cup {e} BY <1>1
<1>3. Append(s, e) \in Seq(S \cup {e}) BY <1>2
<1>4. QED BY <1>2, <1>3 DEF IsSeq

LEMMA AskedKinds ==
    ASSUME GovernanceTypes, NEW q \in Request
    PROVE  /\ asked[q].op = "none" <=> asked[q] = Selections!Idle
           /\ asked[q].op = "create" <=> Creates(asked[q])
           /\ asked[q].op = "create" => asked[q].by \in Process /\ Chooses(asked[q].input)
           /\ asked[q].op \in Selections!Governing <=> Governs(asked[q])
<1>1. Selections!Idle.op = "none" BY DEF Selections!Idle
<1>2. \A a : Creates(a) => a.op = "create" BY DEF Creates
<1>3. \A a : Governs(a) => a.op \in {"disable", "enable"} BY DEF Governs, Selections!Governing
<1>4. QED BY <1>1, <1>2, <1>3 DEF GovernanceTypes, Selections!Governing

\* Operators' requests.
LEMMA AskKeeps ==
    ASSUME GovernanceInvariant, NEW q \in Request, NEW x \in Process, NEW p \in Plugin,
           NEW kind \in Selections!Governing, Selections!askGovernance(q, x, p, kind)
    PROVE  GovernanceInvariant'
<1>. DEFINE others == {r \in Selections!Busy(Selections!Governing) : asked[r].plugin = p}
            new == [op |-> kind, phase |-> "asked", by |-> x, plugin |-> p, alone |-> others = {}]
<1>1. /\ asked[q] = Selections!Idle /\ process[x].state = "ready"
      /\ UNCHANGED <<override, process, version, selected>>
      /\ IF kind = "enable"
         THEN told' = told \ {p} /\ barred' = [y \in Process |-> barred[y] \ {p}]
         ELSE UNCHANGED <<told, barred>>
  BY DEF Selections!askGovernance, Selections!capabilityGovernanceReady
<1>2. \A r \in Request : r \in others <=> Changing(r, p)
  BY DEF Selections!Busy, Changing
<1>3. asked' = [r \in Request |->
            IF r = q THEN new
            ELSE IF r \in others THEN [asked[r] EXCEPT !.alone = FALSE]
            ELSE IF asked[r].op = "create" /\ kind = "enable"
                 THEN [asked[r] EXCEPT !.barred = @ \ {p}] ELSE asked[r]]
  BY DEF Selections!askGovernance
<1>4. Governs(new) /\ new.op = kind /\ new.plugin = p /\ new.by = x /\ new.phase = "asked"
  BY DEF Governs
<1>5. new.alone => \A r \in Request : ~Changing(r, p)
  BY <1>2
<1>. HIDE DEF new, others
<1>6. GovernanceTypes BY DEF GovernanceInvariant
<1>7. /\ asked' = [r \in Request |-> asked'[r]] /\ asked'[q] = new
      /\ \A r \in Request \ {q} : Changing(r, p) =>
             /\ Governs(asked'[r]) /\ ~asked'[r].alone
             /\ asked'[r].op = asked[r].op /\ asked'[r].by = asked[r].by /\ asked'[r].plugin = p
      /\ \A r \in Request \ {q} : asked[r].op = "create" =>
             /\ Creates(asked'[r]) /\ asked'[r].op = "create" /\ asked'[r].by = asked[r].by
             /\ asked'[r].phase = asked[r].phase /\ asked'[r].input = asked[r].input
             /\ asked'[r].barred = IF kind = "enable" THEN asked[r].barred \ {p} ELSE asked[r].barred
      /\ \A r \in Request \ {q} : ~Changing(r, p) /\ asked[r].op # "create" => asked'[r] = asked[r]
  <2>1. asked' = [r \in Request |-> asked'[r]] /\ asked'[q] = new BY <1>3
  <2>2. ASSUME NEW r \in Request \ {q}, Changing(r, p)
        PROVE  /\ Governs(asked'[r]) /\ ~asked'[r].alone
               /\ asked'[r].op = asked[r].op /\ asked'[r].by = asked[r].by /\ asked'[r].plugin = p
    <3>1. asked'[r] = [asked[r] EXCEPT !.alone = FALSE] BY <1>2, <1>3, <2>2
    <3>2. Governs(asked[r]) /\ asked[r].plugin = p BY <1>6, <2>2, AskedKinds DEF Changing
    <3>3. QED BY <3>1, <3>2 DEF Governs
  <2>3. ASSUME NEW r \in Request \ {q}, asked[r].op = "create"
        PROVE  /\ Creates(asked'[r]) /\ asked'[r].op = "create" /\ asked'[r].by = asked[r].by
               /\ asked'[r].phase = asked[r].phase /\ asked'[r].input = asked[r].input
               /\ asked'[r].barred = IF kind = "enable" THEN asked[r].barred \ {p} ELSE asked[r].barred
    <3>1. ~Changing(r, p) BY <2>3 DEF Changing, Selections!Governing
    <3>2. asked'[r] = IF kind = "enable" THEN [asked[r] EXCEPT !.barred = asked[r].barred \ {p}] ELSE asked[r]
      BY <1>2, <1>3, <2>3, <3>1
    <3>3. Creates(asked[r]) BY <1>6, <2>3, AskedKinds
    <3>4. CASE kind = "enable"
      <4>. DEFINE e == asked[r].barred \ {p}
      <4>1. asked'[r] = [asked[r] EXCEPT !.barred = e] BY <3>2, <3>4
      <4>. HIDE DEF e
      <4>2. /\ Creates(asked'[r]) /\ asked'[r].op = "create" /\ asked'[r].by = asked[r].by
            /\ asked'[r].input = asked[r].input /\ asked'[r].phase = asked[r].phase
            /\ asked'[r].barred = e
        BY <3>3, <4>1 DEF Creates
      <4>3. QED BY <3>4, <4>2 DEF e
    <3>5. CASE kind # "enable" BY <2>3, <3>2, <3>3, <3>5
    <3>6. QED BY <3>4, <3>5
  <2>4. ASSUME NEW r \in Request \ {q}, ~Changing(r, p), asked[r].op # "create"
        PROVE  asked'[r] = asked[r]
    BY <1>2, <1>3, <2>4
  <2>5. QED BY <2>1, <2>2, <2>3, <2>4
<1>8. \A r \in Request : /\ asked'[r].op = asked[r].op \/ r = q
                         /\ Changing(r, p)' => r = q \/ Changing(r, p)
                         /\ \A o \in Plugin \ {p} : Changing(r, o)' => Changing(r, o)
  <2>1. ASSUME NEW r \in Request
        PROVE  /\ asked'[r].op = asked[r].op \/ r = q
               /\ Changing(r, p)' => r = q \/ Changing(r, p)
               /\ \A o \in Plugin \ {p} : Changing(r, o)' => Changing(r, o)
    <3>1. CASE r = q BY <1>4, <1>7, <3>1 DEF Changing
    <3>2. CASE r # q /\ Changing(r, p) BY <1>7, <3>2 DEF Changing
    <3>3. CASE r # q /\ asked[r].op = "create" BY <1>7, <3>3 DEF Changing, Selections!Governing
    <3>4. CASE r # q /\ ~Changing(r, p) /\ asked[r].op # "create"
      <4>1. asked'[r] = asked[r] BY <1>7, <3>4
      <4>2. QED BY <3>4, <4>1 DEF Changing
    <3>5. QED BY <3>1, <3>2, <3>3, <3>4
  <2>2. QED BY <2>1
<1>9. GovernanceTypes'
  <2>1. \A r \in Request : Governs(asked'[r]) \/ asked'[r] = asked[r]
            \/ (asked[r].op = "create" /\ Creates(asked'[r]) /\ asked'[r].by = asked[r].by
                 /\ asked'[r].input = asked[r].input)
    BY <1>4, <1>7
  <2>2. \A r \in Request : asked[r].op = "create" => asked[r].by \in Process /\ Chooses(asked[r].input)
    BY <1>6, AskedKinds
  <2>3. QED BY <1>1, <1>6, <1>7, <2>1, <2>2 DEF GovernanceTypes
<1>10. ToldStored'
  BY <1>1, <1>4, <1>6, <1>7, <1>8 DEF GovernanceInvariant, GovernanceTypes, ToldStored, Changing, Selections!Governing
<1>11. BarredHeld'
  BY <1>1, <1>6 DEF GovernanceInvariant, GovernanceTypes, BarredHeld
<1>12. ChangesHold'
  <2>1. ASSUME NEW r \in Request \ {q}, asked'[r].op \in Selections!Governing, asked'[r].alone
        PROVE  asked'[r] = asked[r] /\ ~Changing(r, p)
    BY <1>7, <2>1 DEF Selections!Governing
  <2>2. \A r \in Request \ {q} : asked'[r].op \in Selections!Governing =>
            asked[r].op \in Selections!Governing /\ asked'[r].by = asked[r].by
    BY <1>7 DEF Selections!Governing
  <2>3. \A r \in Request \ {q} : asked[r].op \in Selections!Governing => asked[r].plugin \in Plugin
    BY <1>6, AskedKinds DEF Governs
  <2>4. ASSUME NEW r \in Request \ {q}, NEW s \in Request,
               asked'[r].op \in Selections!Governing, asked'[r].alone,
               asked'[s].op \in Selections!Governing, asked'[s].plugin = asked'[r].plugin
        PROVE  Changing(s, asked[r].plugin)
    <3>1. asked'[r] = asked[r] /\ asked[r].plugin \in Plugin \ {p} BY <2>1, <2>3, <2>4 DEF Changing
    <3>2. QED BY <1>8, <2>4, <3>1 DEF Changing
  <2>5. \A s \in Request : new.alone /\ Changing(s, p)' => s = q BY <1>5, <1>8
  <2>6. QED
    <3>1. ASSUME NEW r \in Request \ {q}, asked'[r].op \in Selections!Governing, asked'[r].alone
          PROVE  /\ \A s \in Request : Changing(s, asked[r].plugin)' => s = r
                 /\ asked[r].op = "disable" =>
                     /\ asked[r].phase # "asked" => override[asked[r].plugin] = "disabled"
                     /\ asked[r].phase = "auditing" => asked[r].plugin \in process[asked[r].by].disabled
      BY <2>1, <2>4, <3>1 DEF GovernanceInvariant, ChangesHold, Changing
    <3>2. \A r \in Request \ {q} : asked'[r].op \in Selections!Governing =>
              process[asked'[r].by].state = "ready"
      BY <2>2 DEF GovernanceInvariant, ChangesHold
    <3>3. /\ asked'[q].by = x /\ asked'[q].phase = "asked" /\ process'[x].state = "ready"
          /\ asked'[q].alone => \A s \in Request : Changing(s, asked[q].plugin)' => s = q
      BY <1>1, <1>4, <1>7, <2>5 DEF Changing
    <3>4. ASSUME NEW r \in Request, asked'[r].op \in Selections!Governing
          PROVE  /\ process'[asked'[r].by].state = "ready"
                 /\ asked'[r].alone =>
                     /\ \A s \in Request : Changing(s, asked[r].plugin)' => s = r
                     /\ asked'[r].op = "disable" =>
                         /\ asked'[r].phase # "asked" => override'[asked'[r].plugin] = "disabled"
                         /\ asked'[r].phase = "auditing" => asked'[r].plugin \in process'[asked'[r].by].disabled
      <4>1. CASE r = q BY <3>3, <4>1
      <4>2. CASE r # q BY <1>1, <2>1, <3>1, <3>2, <3>4, <4>2
      <4>3. QED BY <4>1, <4>2
    <3>5. QED BY <3>4 DEF ChangesHold
<1>13. CreationsClean'
  <2>1. SUFFICES ASSUME NEW r \in Request, asked'[r].op = "create"
                 PROVE  IF asked'[r].phase = "asked" THEN asked'[r].barred \subseteq barred'[asked'[r].by]
                        ELSE asked'[r].input.plugins \cap asked'[r].barred = {}
    BY DEF CreationsClean
  <2>2. r # q /\ asked[r].op = "create" BY <1>4, <1>7, <1>8, <2>1 DEF Selections!Governing
  <2>3. /\ asked'[r].by = asked[r].by /\ asked[r].by \in Process
        /\ asked'[r].phase = asked[r].phase /\ asked'[r].input = asked[r].input
        /\ asked'[r].barred = IF kind = "enable" THEN asked[r].barred \ {p} ELSE asked[r].barred
    BY <1>6, <1>7, <2>2, AskedKinds
  <2>4. IF asked[r].phase = "asked" THEN asked[r].barred \subseteq barred[asked[r].by]
        ELSE asked[r].input.plugins \cap asked[r].barred = {}
    BY <2>2 DEF GovernanceInvariant, CreationsClean
  <2>5. QED BY <1>1, <2>3, <2>4
<1>14. JobsClean' BY <1>1 DEF GovernanceInvariant, JobsClean
<1>15. QED BY <1>9, <1>10, <1>11, <1>12, <1>13, <1>14 DEF GovernanceInvariant

\* What every other step of an operator's request keeps of the requests.
LEMMA ChangeMoves ==
    ASSUME GovernanceTypes, NEW q \in Request, asked[q].op \in Selections!Governing,
           NEW s \in {"saved", "auditing"}, asked' = [asked EXCEPT ![q].phase = s]
    PROVE  /\ asked' = [r \in Request |-> asked'[r]] /\ \A r \in Request \ {q} : asked'[r] = asked[r]
           /\ Governs(asked[q]) /\ Governs(asked'[q]) /\ asked'[q].phase = s
           /\ asked'[q].op = asked[q].op /\ asked'[q].by = asked[q].by
           /\ asked'[q].plugin = asked[q].plugin /\ asked'[q].alone = asked[q].alone
           /\ \A r \in Request, p \in Plugin : Changing(r, p)' <=> Changing(r, p)
<1>1. Governs(asked[q]) BY AskedKinds
<1>2. asked' = [asked EXCEPT ![q] = [asked[q] EXCEPT !.phase = s]] /\ asked = [r \in Request |-> asked[r]]
  BY DEF GovernanceTypes
<1>3. /\ asked' = [r \in Request |-> asked'[r]] /\ \A r \in Request \ {q} : asked'[r] = asked[r]
      /\ asked'[q] = [asked[q] EXCEPT !.phase = s]
  BY <1>2
<1>4. /\ Governs(asked'[q]) /\ asked'[q].phase = s
      /\ asked'[q].op = asked[q].op /\ asked'[q].by = asked[q].by
      /\ asked'[q].plugin = asked[q].plugin /\ asked'[q].alone = asked[q].alone
  BY <1>1, <1>3 DEF Governs
<1>5. QED BY <1>1, <1>3, <1>4 DEF Changing

LEMMA ChangeKeeps ==
    ASSUME GovernanceInvariant, NEW q \in Request,
           \/ Selections!upsertCapabilityGovernanceOverride(q) \/ Selections!setCapabilityPluginDisabled(q)
    PROVE  GovernanceInvariant'
<1>. DEFINE p == asked[q].plugin  x == asked[q].by
<1>1. GovernanceTypes /\ asked[q].op \in Selections!Governing
  BY DEF GovernanceInvariant, Selections!upsertCapabilityGovernanceOverride, Selections!setCapabilityPluginDisabled
<1>2. p \in Plugin /\ x \in Process BY <1>1, AskedKinds DEF Governs
<1>3. UNCHANGED <<selected, told, barred>>
  BY DEF Selections!upsertCapabilityGovernanceOverride, Selections!setCapabilityPluginDisabled
<1>4. asked[q].op = "enable" => p \notin told
  BY <1>1 DEF GovernanceInvariant, ToldStored, Changing
<1>5. \A r \in Request \ {q} : asked[r].op \in Selections!Governing /\ asked[r].alone => asked[r].plugin # p
  BY <1>1 DEF GovernanceInvariant, ChangesHold, Changing
<1>6. CASE Selections!upsertCapabilityGovernanceOverride(q)
  <2>1. /\ override' = [override EXCEPT ![p] = IF asked[q].op = "disable" THEN "disabled" ELSE "active"]
        /\ asked' = [asked EXCEPT ![q].phase = "saved"] /\ UNCHANGED process
    BY <1>6 DEF Selections!upsertCapabilityGovernanceOverride
  <2>2. /\ asked' = [r \in Request |-> asked'[r]] /\ \A r \in Request \ {q} : asked'[r] = asked[r]
        /\ Governs(asked[q]) /\ Governs(asked'[q]) /\ asked'[q].phase = "saved"
        /\ asked'[q].op = asked[q].op /\ asked'[q].by = asked[q].by
        /\ asked'[q].plugin = asked[q].plugin /\ asked'[q].alone = asked[q].alone
        /\ \A r \in Request, o \in Plugin : Changing(r, o)' <=> Changing(r, o)
    BY <1>1, <2>1, ChangeMoves
  <2>. HIDE DEF p, x
  <2>3. GovernanceTypes' BY <1>1, <1>2, <1>3, <2>1, <2>2 DEF GovernanceTypes
  <2>4. ToldStored'
    BY <1>1, <1>2, <1>3, <1>4, <2>1, <2>2 DEF GovernanceInvariant, GovernanceTypes, ToldStored, Changing, p
  <2>5. BarredHeld' BY <1>3, <2>1 DEF GovernanceInvariant, BarredHeld
  <2>6. ChangesHold'
    <3>1. ASSUME NEW r \in Request \ {q}, asked[r].op \in Selections!Governing, asked[r].alone
          PROVE  asked[r].plugin \in Plugin \ {p} /\ override'[asked[r].plugin] = override[asked[r].plugin]
      BY <1>1, <1>2, <1>5, <2>1, <3>1, AskedKinds DEF Governs, GovernanceTypes
    <3>2. override'[p] = IF asked[q].op = "disable" THEN "disabled" ELSE "active"
      BY <1>1, <1>2, <2>1 DEF GovernanceTypes
    <3>3. \A r, s \in Request : Changing(s, asked[r].plugin)' <=> Changing(s, asked[r].plugin)
      BY <1>1, <2>2 DEF Changing
    <3>4. QED
      BY <1>1, <2>1, <2>2, <3>1, <3>2, <3>3 DEF GovernanceInvariant, ChangesHold, p, Selections!Governing
  <2>7. CreationsClean'
    BY <1>1, <1>3, <2>1, <2>2 DEF GovernanceInvariant, CreationsClean, Selections!Governing
  <2>8. JobsClean' BY <1>3 DEF GovernanceInvariant, JobsClean
  <2>9. QED BY <2>3, <2>4, <2>5, <2>6, <2>7, <2>8 DEF GovernanceInvariant
<1>7. CASE Selections!setCapabilityPluginDisabled(q)
  <2>. DEFINE disabled == IF asked[q].op = "disable" THEN process[x].disabled \cup {p}
                          ELSE process[x].disabled \ {p}
  <2>1. /\ process' = [process EXCEPT ![x].disabled = disabled] /\ asked[q].phase = "saved"
        /\ asked' = [asked EXCEPT ![q].phase = "auditing"] /\ UNCHANGED override
    BY <1>7 DEF Selections!setCapabilityPluginDisabled
  <2>2. /\ asked' = [r \in Request |-> asked'[r]] /\ \A r \in Request \ {q} : asked'[r] = asked[r]
        /\ Governs(asked[q]) /\ Governs(asked'[q]) /\ asked'[q].phase = "auditing"
        /\ asked'[q].op = asked[q].op /\ asked'[q].by = asked[q].by
        /\ asked'[q].plugin = asked[q].plugin /\ asked'[q].alone = asked[q].alone
        /\ \A r \in Request, o \in Plugin : Changing(r, o)' <=> Changing(r, o)
    BY <1>1, <2>1, ChangeMoves
  <2>3. /\ process' \in [Process -> [state : {"starting", "read", "ready"},
                                     found : SUBSET Plugin, disabled : SUBSET Plugin]]
        /\ \A y \in Process : process'[y].state = process[y].state /\ process'[y].found = process[y].found
        /\ \A y \in Process \ {x} : process'[y].disabled = process[y].disabled
        /\ process'[x].disabled = disabled
    <3>1. disabled \subseteq Plugin BY <1>1, <1>2 DEF GovernanceTypes
    <3>2. process \in [Process -> [state : {"starting", "read", "ready"},
                                   found : SUBSET Plugin, disabled : SUBSET Plugin]]
      BY <1>1 DEF GovernanceTypes
    <3>. HIDE DEF disabled, x
    <3>3. QED BY <1>2, <2>1, <3>1, <3>2
  <2>. HIDE DEF x, p
  <2>4. GovernanceTypes' BY <1>1, <1>2, <1>3, <2>1, <2>2, <2>3 DEF GovernanceTypes
  <2>5. ToldStored'
    BY <1>1, <1>3, <2>1, <2>2 DEF GovernanceInvariant, GovernanceTypes, ToldStored, Changing
  <2>6. BarredHeld'
    BY <1>1, <1>2, <1>3, <1>4, <2>2, <2>3
    DEF GovernanceInvariant, BarredHeld, Selections!Governing
  <2>7. ChangesHold'
    <3>1. \A r, s \in Request : Changing(s, asked[r].plugin)' <=> Changing(s, asked[r].plugin)
      BY <1>1, <2>2 DEF Changing
    <3>2. ASSUME NEW r \in Request \ {q}, asked[r].op \in Selections!Governing
          PROVE  /\ asked[r].by \in Process
                 /\ asked[r].alone => (asked[r].plugin \in process[asked[r].by].disabled
                                          => asked[r].plugin \in process'[asked[r].by].disabled)
      BY <1>1, <1>5, <2>3, <3>2, AskedKinds DEF Governs
    <3>3. asked[q].op = "disable" => p \in process'[x].disabled BY <2>3
    <3>4. \A r \in Request \ {q} : asked'[r] = asked[r] BY <2>2
    <3>5. asked'[q].plugin = p /\ asked'[q].by = x BY <2>2 DEF p, x
    <3>6. ASSUME NEW r \in Request, asked[r].op \in Selections!Governing
          PROVE  /\ process'[asked'[r].by].state = "ready"
                 /\ asked'[r].alone =>
                     /\ \A s \in Request : Changing(s, asked[r].plugin)' => s = r
                     /\ asked'[r].op = "disable" =>
                         /\ asked'[r].phase # "asked" => override'[asked'[r].plugin] = "disabled"
                         /\ asked'[r].phase = "auditing" => asked'[r].plugin \in process'[asked'[r].by].disabled
      <4>1. CASE r = q
        <5>1. /\ process[x].state = "ready"
              /\ asked[q].alone => \A s \in Request : Changing(s, asked[q].plugin) => s = q
          BY <1>1, <2>1 DEF GovernanceInvariant, ChangesHold, p, x
        <5>7. asked[q].alone /\ asked[q].op = "disable" => override[p] = "disabled"
          BY <1>1, <2>1 DEF GovernanceInvariant, ChangesHold, p, x
        <5>2. process'[x].state = "ready" BY <1>2, <2>3, <5>1
        <5>6. asked'[q].alone = asked[q].alone /\ asked'[q].op = asked[q].op BY <2>2
        <5>3. asked'[q].alone => \A s \in Request : Changing(s, asked[q].plugin)' => s = q
          BY <3>1, <5>1, <5>6 DEF Changing
        <5>4. asked'[q].alone /\ asked'[q].op = "disable" => override'[p] = "disabled" /\ p \in process'[x].disabled
          BY <2>1, <3>3, <5>6, <5>7
        <5>5. QED BY <3>5, <4>1, <5>2, <5>3, <5>4, <5>6
      <4>2. CASE r # q
        BY <1>1, <2>1, <2>3, <3>1, <3>2, <3>4, <3>6, <4>2 DEF GovernanceInvariant, ChangesHold
      <4>3. QED BY <4>1, <4>2
    <3>7. \A r \in Request : asked'[r].op = asked[r].op BY <2>2, <3>4
    <3>8. QED BY <3>6, <3>7 DEF ChangesHold, Selections!Governing
  <2>8. CreationsClean'
    BY <1>1, <1>3, <2>2 DEF GovernanceInvariant, CreationsClean, Selections!Governing
  <2>9. JobsClean' BY <1>3 DEF GovernanceInvariant, JobsClean
  <2>10. QED BY <2>4, <2>5, <2>6, <2>7, <2>8, <2>9 DEF GovernanceInvariant
<1>8. QED BY <1>6, <1>7

\* An operator is answered.
LEMMA AnswerKeeps ==
    ASSUME GovernanceInvariant, NEW q \in Request, Selections!updateAdminCapabilityPluginGovernance(q)
    PROVE  GovernanceInvariant'
<1>. DEFINE p == asked[q].plugin  x == asked[q].by
            relied == asked[q].op = "disable" /\ asked[q].alone
<1>1. /\ GovernanceTypes /\ asked[q].op \in Selections!Governing /\ asked[q].phase = "auditing"
      /\ asked' = [asked EXCEPT ![q] = Selections!Idle] /\ UNCHANGED <<override, process, selected>>
      /\ IF relied THEN told' = told \cup {p} /\ barred' = [barred EXCEPT ![x] = @ \cup {p}]
         ELSE UNCHANGED <<told, barred>>
  BY DEF GovernanceInvariant, Selections!updateAdminCapabilityPluginGovernance
<1>2. p \in Plugin /\ x \in Process BY <1>1, AskedKinds DEF Governs
<1>3. /\ asked' = [r \in Request |-> asked'[r]] /\ asked'[q] = Selections!Idle
      /\ \A r \in Request \ {q} : asked'[r] = asked[r]
  <2>1. asked = [r \in Request |-> asked[r]] BY <1>1 DEF GovernanceTypes
  <2>2. QED BY <1>1, <2>1
<1>4. Selections!Idle.op = "none" BY DEF Selections!Idle
<1>5. /\ process[x].state = "ready"
      /\ relied => /\ override[p] = "disabled" /\ p \in process[x].disabled
                   /\ \A r \in Request \ {q} : ~Changing(r, p)
  BY <1>1 DEF GovernanceInvariant, ChangesHold, Changing
<1>6. \A r \in Request, o \in Plugin : Changing(r, o)' <=> r # q /\ Changing(r, o)
  BY <1>3, <1>4 DEF Changing, Selections!Governing
<1>7. /\ told \subseteq told' /\ told' \subseteq told \cup {p}
      /\ barred' \in [Process -> SUBSET Plugin] /\ \A y \in Process \ {x} : barred'[y] = barred[y]
      /\ barred[x] \subseteq barred'[x] /\ barred'[x] \subseteq barred[x] \cup (told' \cap {p})
      /\ ~relied => barred' = barred /\ told' = told
  BY <1>1, <1>2 DEF GovernanceTypes
<1>. HIDE DEF p, x, relied
<1>8. GovernanceTypes' BY <1>1, <1>2, <1>3, <1>7 DEF GovernanceTypes
<1>9. ToldStored'
  <2>1. ASSUME NEW o \in told', NEW r \in Request, Changing(r, o)' PROVE asked'[r].op = "disable"
    <3>1. CASE o \in told
      BY <1>1, <1>3, <1>6, <2>1, <3>1 DEF GovernanceInvariant, GovernanceTypes, ToldStored
    <3>2. CASE o \notin told BY <1>2, <1>5, <1>6, <1>7, <2>1, <3>2
    <3>3. QED BY <3>1, <3>2
  <2>2. \A o \in told' : override'[o] = "disabled"
    BY <1>1, <1>5, <1>7 DEF GovernanceInvariant, ToldStored
  <2>3. QED BY <2>1, <2>2 DEF ToldStored
<1>10. BarredHeld'
  BY <1>1, <1>2, <1>5, <1>7 DEF GovernanceInvariant, BarredHeld
<1>11. ChangesHold'
  <2>1. ASSUME NEW r \in Request, asked'[r].op \in Selections!Governing
        PROVE  /\ asked'[r] = asked[r] /\ asked[r].plugin \in Plugin
               /\ \A s \in Request : Changing(s, asked[r].plugin)' => Changing(s, asked[r].plugin)
    <3>1. asked'[r] = asked[r] /\ r # q BY <1>3, <1>4, <2>1 DEF Selections!Governing
    <3>2. asked[r].plugin \in Plugin BY <1>1, <2>1, <3>1, AskedKinds DEF Governs
    <3>3. QED BY <1>6, <3>1, <3>2 DEF Changing
  <2>2. QED BY <1>1, <2>1 DEF GovernanceInvariant, ChangesHold, Selections!Governing
<1>12. CreationsClean'
  <2>1. \A r \in Request : asked'[r].op = "create" =>
            asked'[r] = asked[r] /\ asked[r].by \in Process
    BY <1>1, <1>3, <1>4, AskedKinds
  <2>2. QED BY <1>7, <2>1 DEF GovernanceInvariant, CreationsClean
<1>13. JobsClean' BY <1>1 DEF GovernanceInvariant, JobsClean
<1>14. QED BY <1>8, <1>9, <1>10, <1>11, <1>12, <1>13 DEF GovernanceInvariant

\* Processes that start and end.
LEMMA ProcessKeeps ==
    ASSUME GovernanceInvariant, NEW x \in Process,
           \/ Selections!listCapabilityGovernanceOverrides(x)
           \/ Selections!loadCapabilityGovernanceOverrides(x) \/ Selections!restart(x)
    PROVE  GovernanceInvariant'
<1>. DEFINE ProcessStates == [state : {"starting", "read", "ready"}, found : SUBSET Plugin, disabled : SUBSET Plugin]
<1>1. /\ GovernanceTypes /\ UNCHANGED <<override, told, selected>>
      /\ \A q \in Request : asked[q].op \in Selections!Governing => Governs(asked[q])
  BY AskedKinds DEF GovernanceInvariant, Selections!listCapabilityGovernanceOverrides,
         Selections!loadCapabilityGovernanceOverrides, Selections!restart
<1>2. ASSUME UNCHANGED <<asked, barred>>, process[x].state # "ready",
             process' \in [Process -> ProcessStates], \A y \in Process \ {x} : process'[y] = process[y],
             process'[x].state = "read" => barred[x] \subseteq process'[x].found,
             process'[x].state = "ready" => barred[x] \subseteq process'[x].disabled
      PROVE  GovernanceInvariant'
  <2>1. GovernanceTypes' BY <1>1, <1>2 DEF GovernanceTypes
  <2>2. ToldStored' BY <1>1, <1>2 DEF GovernanceInvariant, ToldStored, Changing
  <2>3. BarredHeld' BY <1>1, <1>2 DEF GovernanceInvariant, BarredHeld
  <2>4. ChangesHold'
    <3>1. \A q \in Request : asked[q].op \in Selections!Governing =>
              asked[q].by \in Process \ {x} /\ process'[asked[q].by] = process[asked[q].by]
      BY <1>1, <1>2 DEF GovernanceInvariant, ChangesHold, Governs
    <3>2. QED BY <1>1, <1>2, <3>1 DEF GovernanceInvariant, ChangesHold, Changing
  <2>5. CreationsClean' BY <1>2 DEF GovernanceInvariant, CreationsClean
  <2>6. JobsClean' BY <1>1 DEF GovernanceInvariant, JobsClean
  <2>7. QED BY <2>1, <2>2, <2>3, <2>4, <2>5, <2>6 DEF GovernanceInvariant
<1>3. process \in [Process -> ProcessStates] BY <1>1 DEF GovernanceTypes
<1>4. CASE Selections!listCapabilityGovernanceOverrides(x)
  <2>. DEFINE found == {p \in Plugin : override[p] = "disabled"}
  <2>1. /\ process' = [process EXCEPT ![x].state = "read", ![x].found = found]
        /\ process[x].state = "starting" /\ UNCHANGED <<asked, barred>>
    BY <1>4 DEF Selections!listCapabilityGovernanceOverrides
  <2>2. /\ process' \in [Process -> ProcessStates] /\ \A y \in Process \ {x} : process'[y] = process[y]
        /\ process'[x].state = "read" /\ process'[x].found = found
    <3>. HIDE DEF found
    <3>1. found \subseteq Plugin BY DEF found
    <3>2. QED BY <1>3, <2>1, <3>1
  <2>3. barred[x] \subseteq found
    BY <1>1 DEF GovernanceInvariant, GovernanceTypes, BarredHeld, ToldStored
  <2>. HIDE DEF found
  <2>4. QED BY <1>2, <2>1, <2>2, <2>3
<1>5. CASE Selections!loadCapabilityGovernanceOverrides(x)
  <2>1. /\ process' = [process EXCEPT ![x].state = "ready", ![x].disabled = process[x].found]
        /\ process[x].state = "read" /\ UNCHANGED <<asked, barred>>
    BY <1>5 DEF Selections!loadCapabilityGovernanceOverrides
  <2>2. /\ process' \in [Process -> ProcessStates] /\ \A y \in Process \ {x} : process'[y] = process[y]
        /\ process'[x].state = "ready" /\ process'[x].disabled = process[x].found
    BY <1>3, <2>1
  <2>3. barred[x] \subseteq process[x].found
    BY <2>1 DEF GovernanceInvariant, BarredHeld
  <2>4. QED BY <1>2, <2>1, <2>2, <2>3
<1>6. CASE Selections!restart(x)
  <2>1. /\ process' = [process EXCEPT ![x] = Selections!Starting] /\ barred' = [barred EXCEPT ![x] = told]
        /\ asked' = [q \in Request |-> IF asked[q] # Selections!Idle /\ asked[q].by = x
                                       THEN Selections!Idle ELSE asked[q]]
    BY <1>6 DEF Selections!restart
  <2>2. /\ process' \in [Process -> ProcessStates] /\ \A y \in Process \ {x} : process'[y] = process[y]
        /\ process'[x].state = "starting"
    BY <1>3, <2>1 DEF Selections!Starting
  <2>3. /\ barred' \in [Process -> SUBSET Plugin] /\ \A y \in Process \ {x} : barred'[y] = barred[y]
        /\ barred'[x] = told
    BY <1>1, <2>1 DEF GovernanceTypes
  <2>4. /\ asked' = [q \in Request |-> asked'[q]]
        /\ \A q \in Request : asked'[q] = Selections!Idle \/ (asked'[q] = asked[q] /\ asked[q].by # x)
    BY <2>1
  <2>5. Selections!Idle.op = "none" BY DEF Selections!Idle
  <2>6. \A q \in Request : asked'[q].op # "none" => asked'[q] = asked[q] /\ asked[q].by # x
    BY <2>4, <2>5
  <2>7. GovernanceTypes' BY <1>1, <2>2, <2>3, <2>4 DEF GovernanceTypes
  <2>8. ToldStored'
    BY <1>1, <2>6 DEF GovernanceInvariant, ToldStored, Changing, Selections!Governing
  <2>9. BarredHeld' BY <1>1, <2>2, <2>3 DEF GovernanceInvariant, BarredHeld
  <2>10. ChangesHold'
    <3>1. ASSUME NEW q \in Request, asked'[q].op \in Selections!Governing
          PROVE  /\ asked'[q] = asked[q] /\ process'[asked[q].by] = process[asked[q].by]
                 /\ \A r \in Request : Changing(r, asked[q].plugin)' => Changing(r, asked[q].plugin)
      BY <1>1, <2>2, <2>6, <3>1 DEF Changing, Governs, Selections!Governing
    <3>2. QED BY <1>1, <3>1 DEF GovernanceInvariant, ChangesHold, Selections!Governing
  <2>11. CreationsClean'
    <3>1. \A q \in Request : asked'[q].op = "create" =>
              asked'[q] = asked[q] /\ asked[q].by \in Process \ {x}
      BY <1>1, <2>6, AskedKinds
    <3>2. QED BY <2>3, <3>1 DEF GovernanceInvariant, CreationsClean
  <2>12. JobsClean' BY <1>1 DEF GovernanceInvariant, JobsClean
  <2>13. QED BY <2>7, <2>8, <2>9, <2>10, <2>11, <2>12 DEF GovernanceInvariant
<1>7. QED BY <1>4, <1>5, <1>6

\* What a step does to the request that creates a job.
LEMMA CreationKeeps ==
    ASSUME GovernanceInvariant, NEW q \in Request, asked[q].op \notin Selections!Governing,
           NEW e, asked' = [asked EXCEPT ![q] = e], UNCHANGED <<override, process, told, barred>>, JobsClean',
           \/ e = Selections!Idle
           \/ /\ Creates(e) /\ e.by \in Process /\ Chooses(e.input)
              /\ IF e.phase = "asked" THEN e.barred \subseteq barred[e.by]
                 ELSE e.input.plugins \cap e.barred = {}
    PROVE  GovernanceInvariant'
<1>1. e.op \notin Selections!Governing
  BY DEF Selections!Idle, Creates, Selections!Governing
<1>2. /\ asked' = [r \in Request |-> asked'[r]] /\ asked'[q] = e
      /\ \A r \in Request \ {q} : asked'[r] = asked[r]
  <2>1. asked = [r \in Request |-> asked[r]] BY DEF GovernanceInvariant, GovernanceTypes
  <2>2. QED BY <2>1
<1>3. GovernanceTypes' BY <1>2 DEF GovernanceInvariant, GovernanceTypes
<1>4. \A r \in Request : asked'[r].op \in Selections!Governing => asked'[r] = asked[r]
  BY <1>1, <1>2
<1>5. ToldStored' BY <1>4 DEF GovernanceInvariant, ToldStored, Changing
<1>6. BarredHeld' BY DEF GovernanceInvariant, BarredHeld
<1>7. ChangesHold' BY <1>4 DEF GovernanceInvariant, ChangesHold, Changing
<1>8. CreationsClean'
  <2>1. e.op = "create" => Creates(e)
    BY DEF Selections!Idle
  <2>2. QED BY <1>2, <2>1 DEF GovernanceInvariant, CreationsClean, Selections!Idle
<1>9. QED BY <1>3, <1>5, <1>6, <1>7, <1>8 DEF GovernanceInvariant

LEMMA AskedCreationKeeps ==
    ASSUME GovernanceInvariant, NEW q \in Request, NEW x \in Process, NEW i, Chooses(i),
           Selections!Create(q, x, i)
    PROVE  GovernanceInvariant'
<1>. DEFINE e == [op |-> "create", phase |-> "asked", by |-> x, barred |-> barred[x],
                  input |-> i, versions |-> <<>>]
<1>1. /\ asked[q] = Selections!Idle /\ asked' = [asked EXCEPT ![q] = e]
      /\ UNCHANGED <<override, process, selected, told, barred>>
  BY DEF Selections!Create
<1>2. asked[q].op \notin Selections!Governing BY <1>1 DEF Selections!Idle, Selections!Governing
<1>3. PICK n : n = e OBVIOUS
<1>4. Creates(n) /\ n.by = x /\ n.input = i /\ n.phase = "asked" /\ n.barred = barred[x]
  BY <1>3 DEF Creates
<1>5. JobsClean' BY <1>1 DEF GovernanceInvariant, JobsClean
<1>6. asked' = [asked EXCEPT ![q] = n] BY <1>1, <1>3
<1>. HIDE DEF e
<1>7. QED BY <1>1, <1>2, <1>4, <1>5, <1>6, CreationKeeps

\* The snapshot of the capabilities, the packs and the job itself.
LEMMA ResolutionKeeps ==
    ASSUME GovernanceInvariant, NEW q \in Request,
           \/ Selections!resolveCapabilitySnapshot(q) \/ Selections!resolveDesignTemplatePacksForJob(q)
    PROVE  GovernanceInvariant'
<1>1. PICK a : a = asked[q] OBVIOUS
<1>2. /\ GovernanceTypes /\ a.op = "create" /\ UNCHANGED <<override, process, selected, told, barred>>
      /\ asked[q].op \notin Selections!Governing
  BY <1>1 DEF GovernanceInvariant, Selections!resolveCapabilitySnapshot,
         Selections!resolveDesignTemplatePacksForJob, Selections!Governing
<1>3. Creates(a) /\ a.by \in Process /\ Chooses(a.input) BY <1>1, <1>2, AskedKinds
<1>4. JobsClean' BY <1>2 DEF GovernanceInvariant, JobsClean
<1>5. asked = [r \in Request |-> asked[r]] BY <1>2 DEF GovernanceTypes
<1>6. CASE Selections!resolveCapabilitySnapshot(q)
  <2>1. /\ a.phase = "asked" /\ process[a.by].state = "ready"
        /\ asked' = [asked EXCEPT ![q] =
               IF Selections!resolvePluginSnapshot(a.by, a.input.plugins)
               THEN [a EXCEPT !.phase = "governed"] ELSE Selections!Idle]
    BY <1>1, <1>5, <1>6 DEF Selections!resolveCapabilitySnapshot, Selections!capabilityGovernanceReady
  <2>2. CASE Selections!resolvePluginSnapshot(a.by, a.input.plugins)
    <3>1. PICK n : n = [a EXCEPT !.phase = "governed"] OBVIOUS
    <3>2. Creates(n) /\ n.by = a.by /\ n.input = a.input /\ n.phase = "governed" /\ n.barred = a.barred
      BY <1>3, <3>1 DEF Creates
    <3>3. a.barred \subseteq process[a.by].disabled /\ process[a.by].disabled \subseteq Plugin
      BY <1>1, <1>2, <1>3, <2>1 DEF GovernanceInvariant, GovernanceTypes, CreationsClean, BarredHeld
    <3>4. a.input.plugins \cap a.barred = {}
      BY <2>2, <3>3 DEF Selections!resolvePluginSnapshot, Selections!listCapabilities
    <3>5. asked' = [asked EXCEPT ![q] = n] BY <2>1, <2>2, <3>1
    <3>6. QED BY <1>2, <1>3, <1>4, <3>2, <3>4, <3>5, CreationKeeps
  <2>3. CASE ~Selections!resolvePluginSnapshot(a.by, a.input.plugins)
    <3>1. asked' = [asked EXCEPT ![q] = Selections!Idle] BY <2>1, <2>3
    <3>2. QED BY <1>2, <1>4, <3>1, CreationKeeps
  <2>4. QED BY <2>2, <2>3
<1>7. CASE Selections!resolveDesignTemplatePacksForJob(q)
  <2>. DEFINE packs == Selections!resolvePacks(a.input)
              found == [p \in Selections!ToSet(packs) |-> version[p]]
              there == \A p \in Selections!ToSet(a.input.packs) : Selections!getDesignTemplatePackById(p)
  <2>1. /\ a.phase = "governed"
        /\ asked' = [asked EXCEPT ![q] =
               IF ~there THEN Selections!Idle
               ELSE [a EXCEPT !.phase = "resolved", !.input.packs = packs, !.versions = found]]
    BY <1>1, <1>5, <1>7 DEF Selections!resolveDesignTemplatePacksForJob
  <2>. HIDE DEF packs, found, there
  <2>2. CASE there
    <3>7. PICK i : i = [a.input EXCEPT !.packs = packs] OBVIOUS
    <3>1. PICK n : n = [a EXCEPT !.phase = "resolved", !.input = i, !.versions = found] OBVIOUS
    <3>9. n = [op |-> "create", phase |-> "resolved", by |-> a.by, barred |-> a.barred,
               input |-> i, versions |-> found]
      <4>1. a = [op |-> "create", phase |-> a.phase, by |-> a.by, barred |-> a.barred,
                 input |-> a.input, versions |-> a.versions]
        BY <1>3 DEF Creates
      <4>2. PICK o, h, b, r, t, w :
                a = [op |-> o, phase |-> h, by |-> b, barred |-> r, input |-> t, versions |-> w] /\ o = "create"
        BY <4>1
      <4>3. QED BY <3>1, <4>2
    <3>2. Creates(n) /\ n.by = a.by /\ n.phase = "resolved" /\ n.barred = a.barred /\ n.input = i
      BY <3>9 DEF Creates
    <3>8. Chooses(i) /\ i.plugins = a.input.plugins BY <1>3, <3>7 DEF Chooses
    <3>3. Chooses(n.input) /\ n.input.plugins = a.input.plugins BY <3>2, <3>8
    <3>4. a.input.plugins \cap a.barred = {}
      BY <1>1, <1>2, <2>1 DEF GovernanceInvariant, CreationsClean
    <3>5. asked' = [asked EXCEPT ![q] = n] BY <2>1, <2>2, <3>1, <3>7
    <3>6. QED BY <1>2, <1>3, <1>4, <3>2, <3>3, <3>4, <3>5, CreationKeeps
  <2>3. CASE ~there
    <3>1. asked' = [asked EXCEPT ![q] = Selections!Idle] BY <2>1, <2>3
    <3>2. QED BY <1>2, <1>4, <3>1, CreationKeeps
  <2>4. QED BY <2>2, <2>3
<1>8. QED BY <1>6, <1>7

LEMMA CreatedKeeps ==
    ASSUME GovernanceInvariant, NEW q \in Request, Selections!createJob(q)
    PROVE  GovernanceInvariant'
<1>1. PICK a : a = asked[q] OBVIOUS
<1>2. PICK given : given =
          Selections!assignDesignTemplatePacks(a.input.count, a.input.packs, a.input.plan) OBVIOUS
<1>3. PICK j : j = [plugins |-> a.input.plugins, barred |-> a.barred, packs |-> a.input.packs,
                    versions |-> a.versions, assigned |-> given, plan |-> a.input.plan,
                    count |-> a.input.count, source |-> a.input.source,
                    of |-> a.input.of, variation |-> a.input.variation] OBVIOUS
<1>4. /\ a.op = "create" /\ a.phase = "resolved" /\ selected' = Append(selected, j)
      /\ asked' = [asked EXCEPT ![q] = Selections!Idle] /\ UNCHANGED <<override, process, told, barred>>
  BY <1>1, <1>2, <1>3 DEF Selections!createJob
<1>5. a.input.plugins \cap a.barred = {}
  BY <1>1, <1>4 DEF GovernanceInvariant, CreationsClean
<1>6. j.plugins \cap j.barred = {} BY <1>3, <1>5
<1>7. JobsClean'
  <2>1. IsSeq(selected) /\ \A k \in DOMAIN selected : selected[k].plugins \cap selected[k].barred = {}
    BY DEF GovernanceInvariant, JobsClean
  <2>2. /\ IsSeq(selected') /\ Len(selected) \in Nat /\ DOMAIN selected = 1 .. Len(selected)
        /\ DOMAIN selected' = 1 .. Len(selected) + 1 /\ \A k \in DOMAIN selected : selected'[k] = selected[k]
        /\ selected'[Len(selected) + 1] = j
    BY <1>4, <2>1, Appended
  <2>3. ASSUME NEW k \in DOMAIN selected' PROVE selected'[k].plugins \cap selected'[k].barred = {}
    <3>1. k \in DOMAIN selected \/ k = Len(selected) + 1 BY <2>2
    <3>2. QED BY <1>6, <2>1, <2>2, <3>1
  <2>4. QED BY <2>2, <2>3 DEF JobsClean, IsSeq
<1>8. asked[q].op \notin Selections!Governing BY <1>1, <1>4 DEF Selections!Governing
<1>9. QED BY <1>4, <1>7, <1>8, CreationKeeps

LEMMA InitGovernance == Selections!Init => GovernanceInvariant
<1>1. SUFFICES ASSUME Selections!Init PROVE GovernanceInvariant OBVIOUS
<1>2. Selections!Idle.op = "none" BY DEF Selections!Idle
<1>3. \A q \in Request : asked[q] = Selections!Idle BY <1>1 DEF Selections!Init
<1>4. GovernanceTypes BY <1>1 DEF Selections!Init, GovernanceTypes, Selections!Starting
<1>5. ToldStored BY <1>1 DEF Selections!Init, ToldStored
<1>6. BarredHeld BY <1>1 DEF Selections!Init, BarredHeld
<1>7. ChangesHold BY <1>2, <1>3 DEF ChangesHold, Selections!Governing
<1>8. CreationsClean BY <1>2, <1>3 DEF CreationsClean
<1>9. JobsClean
  <2>1. selected = <<>> /\ <<>> \in Seq({}) BY <1>1 DEF Selections!Init
  <2>2. QED BY <2>1 DEF JobsClean, IsSeq
<1>10. QED BY <1>4, <1>5, <1>6, <1>7, <1>8, <1>9 DEF GovernanceInvariant

LEMMA StepGovernance == GovernanceInvariant /\ [Selections!Next]_(Selections!selectionVars) => GovernanceInvariant'
<1>1. SUFFICES ASSUME GovernanceInvariant, [Selections!Next]_(Selections!selectionVars)
               PROVE  GovernanceInvariant'
  OBVIOUS
<1>2. CASE UNCHANGED <<override, process, selected, asked, told, barred>>
  BY <1>1, <1>2 DEF GovernanceInvariant, GovernanceTypes, ToldStored, BarredHeld, ChangesHold,
         CreationsClean, JobsClean, Changing
<1>3. ASSUME NEW p \in Pack, Selections!saveDesignTemplatePack(p)
      PROVE  UNCHANGED <<override, process, selected, asked, told, barred>>
  BY <1>3 DEF Selections!saveDesignTemplatePack
<1>4. ASSUME NEW q \in Request, NEW x \in Process, NEW i \in Selection, Selections!createDesignJob(q, x, i)
      PROVE  GovernanceInvariant'
  <2>1. PICK n : n =
            [plugins |-> i.plugins, packs |-> i.packs, auto |-> i.auto, count |-> i.count,
             plan |-> IF i.planned THEN [v \in 1 .. i.count |-> v] ELSE <<>>,
             source |-> i.source, of |-> 0, variation |-> 0]
    OBVIOUS
  <2>2. Chooses(n) BY <2>1 DEF Chooses
  <2>3. Selections!Create(q, x, n) BY <1>4, <2>1 DEF Selections!createDesignJob
  <2>4. QED BY <1>1, <2>2, <2>3, AskedCreationKeeps
<1>5. ASSUME NEW q \in Request, NEW x \in Process, NEW j, NEW v, NEW count, NEW plan,
             Selections!Create(q, x, Selections!Retry(j, v, count, plan))
      PROVE  GovernanceInvariant'
  <2>1. PICK n : n = Selections!Retry(j, v, count, plan) OBVIOUS
  <2>2. Chooses(n) BY <2>1 DEF Chooses, Selections!Retry
  <2>3. QED BY <1>1, <1>5, <2>1, <2>2, AskedCreationKeeps
<1>6. ASSUME NEW q \in Request, NEW x \in Process, NEW j, Selections!retryJobAsAdmin(q, x, j)
      PROVE  GovernanceInvariant'
  <2>1. PICK count, plan : count = selected[j].count /\ plan = Selections!normalizeTemplateRequirements(j).plan
    OBVIOUS
  <2>2. QED BY <1>5, <1>6, <2>1 DEF Selections!retryJobAsAdmin
<1>7. ASSUME NEW q \in Request, NEW x \in Process, NEW j, NEW v, Selections!retryVariationAsAdmin(q, x, j, v)
      PROVE  GovernanceInvariant'
  <2>1. PICK plan : plan = Selections!deriveVariationRetryExplorationSnapshot(j, v) OBVIOUS
  <2>2. QED BY <1>5, <1>7, <2>1 DEF Selections!retryVariationAsAdmin
<1>8. QED
  BY <1>1, <1>2, <1>3, <1>4, <1>6, <1>7, AskKeeps, ChangeKeeps, AnswerKeeps, ProcessKeeps,
     ResolutionKeeps, CreatedKeeps
  DEF Selections!Next, Selections!selectionVars

\* Once an operator is told that a plugin is disabled, no job asked for later
\* uses it, at the process that answered and at one that starts afterwards.
THEOREM DisabledPluginsStayOut == Selections!Spec => []Selections!DisabledStaysOut
<1>1. GovernanceInvariant => Selections!DisabledStaysOut
  BY DEF GovernanceInvariant, JobsClean, Selections!DisabledStaysOut
<1>2. QED BY <1>1, InitGovernance, StepGovernance, PTL DEF Selections!Spec

\* What a job or a request for one shares with the job it repeats, of the jobs in s.
Repeats(s, i, n) ==
    /\ i.count \in Nat \ {0} /\ i.of \in 0 .. n
    /\ i.of # 0 =>
        /\ i.plan = IF i.variation = 0 \/ s[i.of].plan = <<>> THEN s[i.of].plan
                    ELSE <<s[i.of].plan[i.variation]>>
        /\ i.variation = 0 =>
            /\ i.count = s[i.of].count
            /\ s[i.of].packs # <<>> => i.packs = s[i.of].packs

CreationsRepeat == \A q \in Request : asked[q].op = "create" =>
    /\ Repeats(selected, asked[q].input, Len(selected))
    /\ asked[q].input.of # 0 => asked[q].input.auto = "absent"

JobsRepeat == \A j \in DOMAIN selected :
    /\ Repeats(selected, selected[j], j - 1)
    /\ selected[j].assigned =
           Selections!assignDesignTemplatePacks(selected[j].count, selected[j].packs, selected[j].plan)

RetryInvariant == CreationsRepeat /\ JobsRepeat

\* A step that leaves the jobs alone and asks for none.
LEMMA RetriesLeft ==
    ASSUME RetryInvariant, selected' = selected,
           \A r \in Request : asked'[r].op = "create" =>
               asked[r].op = "create" /\ asked'[r].input = asked[r].input
    PROVE  RetryInvariant'
BY DEF RetryInvariant, CreationsRepeat, JobsRepeat

LEMMA AskedCreations ==
    ASSUME GovernanceTypes, NEW q \in Request, NEW x \in Process, NEW p \in Plugin,
           NEW kind \in Selections!Governing, Selections!askGovernance(q, x, p, kind),
           NEW r \in Request, asked'[r].op = "create"
    PROVE  asked[r].op = "create" /\ asked'[r].input = asked[r].input
<1>. DEFINE others == {t \in Selections!Busy(Selections!Governing) : asked[t].plugin = p}
            new == [op |-> kind, phase |-> "asked", by |-> x, plugin |-> p, alone |-> others = {}]
<1>1. asked' = [t \in Request |->
            IF t = q THEN new
            ELSE IF t \in others THEN [asked[t] EXCEPT !.alone = FALSE]
            ELSE IF asked[t].op = "create" /\ kind = "enable"
                 THEN [asked[t] EXCEPT !.barred = @ \ {p}] ELSE asked[t]]
  BY DEF Selections!askGovernance
<1>2. new.op # "create" BY DEF Selections!Governing
<1>3. r \in others => Governs(asked[r]) BY AskedKinds DEF Selections!Busy
<1>4. asked[r].op = "create" <=> Creates(asked[r]) BY AskedKinds
<1>. HIDE DEF new, others
<1>5. asked'[r] = IF r = q THEN new
                  ELSE IF r \in others THEN [asked[r] EXCEPT !.alone = FALSE]
                  ELSE IF asked[r].op = "create" /\ kind = "enable"
                       THEN [asked[r] EXCEPT !.barred = @ \ {p}] ELSE asked[r]
  BY <1>1
<1>6. r # q BY <1>2, <1>5
<1>7. r \notin others
  <2>1. SUFFICES ASSUME r \in others PROVE FALSE OBVIOUS
  <2>2. asked'[r] = [asked[r] EXCEPT !.alone = FALSE] /\ Governs(asked[r]) BY <1>3, <1>5, <1>6, <2>1
  <2>3. asked'[r].op \in Selections!Governing BY <2>2 DEF Governs
  <2>4. QED BY <2>3 DEF Selections!Governing
<1>8. CASE asked[r].op = "create" /\ kind = "enable"
  <2>. DEFINE e == asked[r].barred \ {p}
  <2>1. asked'[r] = [asked[r] EXCEPT !.barred = e] /\ Creates(asked[r]) BY <1>4, <1>5, <1>6, <1>7, <1>8
  <2>. HIDE DEF e
  <2>2. asked'[r].input = asked[r].input BY <2>1 DEF Creates
  <2>3. QED BY <1>8, <2>2
<1>9. CASE ~(asked[r].op = "create" /\ kind = "enable") BY <1>5, <1>6, <1>7, <1>9
<1>10. QED BY <1>8, <1>9

\* A request for a job is made, resolved or given up.
LEMMA CreationRepeats ==
    ASSUME RetryInvariant, GovernanceTypes, selected' = selected, NEW q \in Request, NEW e,
           asked' = [asked EXCEPT ![q] = e],
           e.op = "create" =>
               /\ Repeats(selected, e.input, Len(selected))
               /\ e.input.of # 0 => e.input.auto = "absent"
    PROVE  RetryInvariant'
<1>1. asked'[q] = e /\ \A r \in Request \ {q} : asked'[r] = asked[r]
  <2>1. asked = [r \in Request |-> asked[r]] BY DEF GovernanceTypes
  <2>2. QED BY <2>1
<1>2. CreationsRepeat' BY <1>1 DEF RetryInvariant, CreationsRepeat
<1>3. JobsRepeat' BY DEF RetryInvariant, JobsRepeat
<1>4. QED BY <1>2, <1>3 DEF RetryInvariant

LEMMA AskedRetryRepeats ==
    ASSUME RetryInvariant, GovernanceTypes, NEW q \in Request, NEW x \in Process, NEW i,
           Selections!Create(q, x, i),
           Repeats(selected, i, Len(selected)), i.of # 0 => i.auto = "absent"
    PROVE  RetryInvariant'
<1>1. PICK n : n = [op |-> "create", phase |-> "asked", by |-> x, barred |-> barred[x],
                    input |-> i, versions |-> <<>>]
  OBVIOUS
<1>2. asked' = [asked EXCEPT ![q] = n] /\ selected' = selected BY <1>1 DEF Selections!Create
<1>3. n.input = i BY <1>1
<1>4. QED BY <1>2, <1>3, CreationRepeats

LEMMA RetryAsked ==
    ASSUME RetryInvariant, IsSeq(selected), NEW j \in DOMAIN selected, NEW v \in Nat,
           NEW count \in Nat \ {0}, v = 0 => count = selected[j].count, NEW plan,
           plan = IF v = 0 \/ selected[j].plan = <<>> THEN selected[j].plan ELSE <<selected[j].plan[v]>>,
           NEW i, i = Selections!Retry(j, v, count, plan)
    PROVE  /\ Repeats(selected, i, Len(selected)) /\ i.auto = "absent"
<1>1. Len(selected) \in Nat /\ DOMAIN selected = 1 .. Len(selected) BY Appended
<1>2. /\ i.count = count /\ i.plan = plan /\ i.of = j /\ i.variation = v /\ i.auto = "absent"
      /\ i.packs = selected[j].packs
  BY DEF Selections!Retry, Selections!normalizeTemplateRequirements
<1>3. i.count \in Nat \ {0} /\ i.of \in 0 .. Len(selected) BY <1>1, <1>2
<1>4. i.plan = IF i.variation = 0 \/ selected[i.of].plan = <<>> THEN selected[i.of].plan
               ELSE <<selected[i.of].plan[i.variation]>>
  BY <1>2
<1>5. i.variation = 0 => i.count = selected[i.of].count /\ i.packs = selected[i.of].packs BY <1>2
<1>6. QED BY <1>2, <1>3, <1>4, <1>5 DEF Repeats

LEMMA ResolutionRepeats ==
    ASSUME RetryInvariant, GovernanceTypes, NEW q \in Request,
           \/ Selections!resolveCapabilitySnapshot(q) \/ Selections!resolveDesignTemplatePacksForJob(q)
    PROVE  RetryInvariant'
<1>1. PICK a : a = asked[q] OBVIOUS
<1>2. a.op = "create" /\ selected' = selected
  BY <1>1 DEF Selections!resolveCapabilitySnapshot, Selections!resolveDesignTemplatePacksForJob
<1>3. Creates(a) /\ a.by \in Process /\ Chooses(a.input) BY <1>1, <1>2, AskedKinds
<1>4. asked = [r \in Request |-> asked[r]] BY DEF GovernanceTypes
<1>5. Repeats(selected, a.input, Len(selected)) /\ (a.input.of # 0 => a.input.auto = "absent")
  BY <1>1, <1>2 DEF RetryInvariant, CreationsRepeat
<1>6. Selections!Idle.op # "create" BY DEF Selections!Idle
<1>7. CASE Selections!resolveCapabilitySnapshot(q)
  <2>1. PICK n : n = IF Selections!resolvePluginSnapshot(a.by, a.input.plugins)
                     THEN [a EXCEPT !.phase = "governed"] ELSE Selections!Idle
    OBVIOUS
  <2>2. asked' = [asked EXCEPT ![q] = n]
    BY <1>1, <1>4, <1>7, <2>1 DEF Selections!resolveCapabilitySnapshot
  <2>3. n.op = "create" => n.input = a.input BY <1>3, <1>6, <2>1 DEF Creates
  <2>4. QED BY <1>2, <1>5, <2>2, <2>3, CreationRepeats
<1>8. CASE Selections!resolveDesignTemplatePacksForJob(q)
  <2>. DEFINE found == [p \in Selections!ToSet(Selections!resolvePacks(a.input)) |-> version[p]]
              there == \A p \in Selections!ToSet(a.input.packs) : Selections!getDesignTemplatePackById(p)
  <2>1. PICK packs : packs = Selections!resolvePacks(a.input) OBVIOUS
  <2>2. PICK i : i = [a.input EXCEPT !.packs = packs] OBVIOUS
  <2>3. PICK n : n = IF ~there THEN Selections!Idle
                     ELSE [a EXCEPT !.phase = "resolved", !.input = i, !.versions = found]
    OBVIOUS
  <2>4. asked' = [asked EXCEPT ![q] = n]
    BY <1>1, <1>4, <1>8, <2>1, <2>2, <2>3 DEF Selections!resolveDesignTemplatePacksForJob
  <2>. HIDE DEF found, there
  <2>5. n.op = "create" => n.input = i
    <3>1. PICK o, h, b, r, t, w :
              a = [op |-> o, phase |-> h, by |-> b, barred |-> r, input |-> t, versions |-> w]
      BY <1>3 DEF Creates
    <3>2. QED BY <1>6, <2>3, <3>1
  <2>6. /\ i.of = a.input.of /\ i.auto = a.input.auto /\ i.count = a.input.count
        /\ i.plan = a.input.plan /\ i.variation = a.input.variation /\ i.packs = packs
    BY <1>3, <2>2 DEF Chooses
  <2>7. a.input.of # 0 /\ a.input.packs # <<>> => packs = a.input.packs
    BY <1>5, <2>1 DEF Selections!resolvePacks, Selections!shouldAutoDistribute
  <2>8. Repeats(selected, i, Len(selected)) BY <1>5, <2>6, <2>7 DEF Repeats
  <2>9. QED BY <1>2, <1>5, <2>4, <2>5, <2>6, <2>8, CreationRepeats
<1>9. QED BY <1>7, <1>8

LEMMA CreatedRepeats ==
    ASSUME RetryInvariant, GovernanceTypes, IsSeq(selected), NEW q \in Request, Selections!createJob(q)
    PROVE  RetryInvariant'
<1>1. PICK a : a = asked[q] OBVIOUS
<1>2. PICK given : given =
          Selections!assignDesignTemplatePacks(a.input.count, a.input.packs, a.input.plan) OBVIOUS
<1>3. PICK j : j = [plugins |-> a.input.plugins, barred |-> a.barred, packs |-> a.input.packs,
                    versions |-> a.versions, assigned |-> given, plan |-> a.input.plan,
                    count |-> a.input.count, source |-> a.input.source,
                    of |-> a.input.of, variation |-> a.input.variation] OBVIOUS
<1>4. /\ a.op = "create" /\ selected' = Append(selected, j)
      /\ asked' = [asked EXCEPT ![q] = Selections!Idle]
  BY <1>1, <1>2, <1>3 DEF Selections!createJob
<1>5. Repeats(selected, a.input, Len(selected))
  BY <1>1, <1>4 DEF RetryInvariant, CreationsRepeat
<1>6. /\ j.packs = a.input.packs /\ j.plan = a.input.plan /\ j.count = a.input.count
      /\ j.of = a.input.of /\ j.variation = a.input.variation /\ j.assigned = given
  BY <1>3
<1>7. PICK n : n = Len(selected) OBVIOUS
<1>8. /\ n \in Nat /\ DOMAIN selected = 1 .. n /\ DOMAIN selected' = 1 .. n + 1
      /\ \A k \in 1 .. n : selected'[k] = selected[k]
      /\ selected'[n + 1] = j /\ IsSeq(selected')
  BY <1>4, <1>7, Appended
<1>9. Len(selected') = n + 1
  <2>1. DOMAIN selected' = 1 .. Len(selected') /\ Len(selected') \in Nat BY <1>8, Appended
  <2>2. QED BY <1>8, <2>1
<1>10. \A i, m : m \in 0 .. n /\ Repeats(selected, i, m) => Repeats(selected', i, m)
  BY <1>8 DEF Repeats
<1>11. \A i : Repeats(selected, i, n) => Repeats(selected', i, n + 1)
  BY <1>8 DEF Repeats
<1>12. CreationsRepeat'
  <2>1. asked'[q] = Selections!Idle /\ \A r \in Request \ {q} : asked'[r] = asked[r]
    <3>1. asked = [r \in Request |-> asked[r]] BY DEF GovernanceTypes
    <3>2. QED BY <1>4, <3>1
  <2>2. Selections!Idle.op # "create" BY DEF Selections!Idle
  <2>3. QED BY <1>7, <1>9, <1>11, <2>1, <2>2 DEF RetryInvariant, CreationsRepeat
<1>13. JobsRepeat'
  <2>1. ASSUME NEW k \in DOMAIN selected'
        PROVE  /\ Repeats(selected', selected'[k], k - 1)
               /\ selected'[k].assigned = Selections!assignDesignTemplatePacks(
                      selected'[k].count, selected'[k].packs, selected'[k].plan)
    <3>1. CASE k \in 1 .. n
      <4>1. k - 1 \in 0 .. n /\ selected'[k] = selected[k] /\ k \in DOMAIN selected BY <1>8, <3>1
      <4>2. QED BY <1>10, <4>1 DEF RetryInvariant, JobsRepeat
    <3>2. CASE k = n + 1
      <4>1. Repeats(selected, j, n) BY <1>5, <1>6, <1>7 DEF Repeats
      <4>2. Repeats(selected', j, n) BY <1>8, <1>10, <4>1
      <4>3. k - 1 = n BY <1>8, <3>2
      <4>4. QED BY <1>2, <1>6, <1>8, <3>2, <4>2, <4>3
    <3>3. QED BY <1>8, <2>1, <3>1, <3>2
  <2>2. QED BY <2>1 DEF JobsRepeat
<1>14. QED BY <1>12, <1>13 DEF RetryInvariant

LEMMA InitRetries == Selections!Init => RetryInvariant
<1>1. SUFFICES ASSUME Selections!Init PROVE RetryInvariant OBVIOUS
<1>2. Selections!Idle.op # "create" BY DEF Selections!Idle
<1>3. selected = <<>> /\ \A q \in Request : asked[q] = Selections!Idle BY <1>1 DEF Selections!Init
<1>4. QED BY <1>2, <1>3 DEF RetryInvariant, CreationsRepeat, JobsRepeat

LEMMA StepRetries ==
    ASSUME Selections!Assumptions, GovernanceInvariant, RetryInvariant,
           [Selections!Next]_(Selections!selectionVars)
    PROVE  RetryInvariant'
<1>1. GovernanceTypes /\ IsSeq(selected) BY DEF GovernanceInvariant, JobsClean
<1>2. CASE UNCHANGED <<selected, asked>> BY <1>2, RetriesLeft
<1>3. ASSUME NEW p \in Pack, Selections!saveDesignTemplatePack(p) PROVE UNCHANGED <<selected, asked>>
  BY <1>3 DEF Selections!saveDesignTemplatePack
<1>4. ASSUME NEW x \in Process, \/ Selections!listCapabilityGovernanceOverrides(x)
                                \/ Selections!loadCapabilityGovernanceOverrides(x)
      PROVE  UNCHANGED <<selected, asked>>
  BY <1>4 DEF Selections!listCapabilityGovernanceOverrides, Selections!loadCapabilityGovernanceOverrides
<1>5. Selections!Idle.op # "create" BY DEF Selections!Idle
<1>6. ASSUME NEW x \in Process, Selections!restart(x) PROVE RetryInvariant'
  <2>1. /\ selected' = selected
        /\ asked' = [q \in Request |-> IF asked[q] # Selections!Idle /\ asked[q].by = x
                                       THEN Selections!Idle ELSE asked[q]]
    BY <1>6 DEF Selections!restart
  <2>2. \A r \in Request : asked'[r].op = "create" => asked'[r] = asked[r] BY <1>5, <2>1
  <2>3. QED BY <2>1, <2>2, RetriesLeft
<1>7. ASSUME NEW q \in Request, NEW x \in Process, NEW p \in Plugin, NEW kind \in Selections!Governing,
             Selections!askGovernance(q, x, p, kind)
      PROVE  RetryInvariant'
  <2>1. selected' = selected BY <1>7 DEF Selections!askGovernance
  <2>2. QED BY <1>1, <1>7, <2>1, AskedCreations, RetriesLeft
<1>8. ASSUME NEW q \in Request, \/ Selections!upsertCapabilityGovernanceOverride(q)
                                \/ Selections!setCapabilityPluginDisabled(q)
      PROVE  RetryInvariant'
  <2>1. /\ asked[q].op \in Selections!Governing /\ selected' = selected
        /\ asked' = [asked EXCEPT ![q].phase = "saved"] \/ asked' = [asked EXCEPT ![q].phase = "auditing"]
    BY <1>8 DEF Selections!upsertCapabilityGovernanceOverride, Selections!setCapabilityPluginDisabled
  <2>2. asked'[q].op = asked[q].op /\ \A r \in Request \ {q} : asked'[r] = asked[r]
    BY <1>1, <2>1, ChangeMoves
  <2>3. QED BY <2>1, <2>2, RetriesLeft DEF Selections!Governing
<1>9. ASSUME NEW q \in Request, Selections!updateAdminCapabilityPluginGovernance(q) PROVE RetryInvariant'
  <2>1. asked' = [asked EXCEPT ![q] = Selections!Idle] /\ selected' = selected
    BY <1>9 DEF Selections!updateAdminCapabilityPluginGovernance
  <2>2. QED BY <1>1, <1>5, <2>1, CreationRepeats
<1>10. ASSUME NEW q \in Request, NEW x \in Process, NEW i \in Selection, Selections!createDesignJob(q, x, i)
       PROVE  RetryInvariant'
  <2>1. PICK n : n =
            [plugins |-> i.plugins, packs |-> i.packs, auto |-> i.auto, count |-> i.count,
             plan |-> IF i.planned THEN [v \in 1 .. i.count |-> v] ELSE <<>>,
             source |-> i.source, of |-> 0, variation |-> 0]
    OBVIOUS
  <2>2. Selections!Create(q, x, n) BY <1>10, <2>1 DEF Selections!createDesignJob
  <2>3. n.count \in Nat \ {0} /\ n.of = 0 BY <2>1 DEF Selections!Assumptions
  <2>4. Len(selected) \in Nat BY <1>1, Appended
  <2>5. Repeats(selected, n, Len(selected)) BY <2>3, <2>4 DEF Repeats
  <2>6. QED BY <1>1, <2>2, <2>3, <2>5, AskedRetryRepeats
<1>11. \A j \in DOMAIN selected : selected[j].count \in Nat \ {0}
  BY DEF RetryInvariant, JobsRepeat, Repeats
<1>12. ASSUME NEW q \in Request, NEW x \in Process, NEW j \in DOMAIN selected, Selections!retryJobAsAdmin(q, x, j)
       PROVE  RetryInvariant'
  <2>1. PICK count, plan : count = selected[j].count /\ plan = selected[j].plan OBVIOUS
  <2>2. PICK n : n = Selections!Retry(j, 0, count, plan) OBVIOUS
  <2>3. Selections!Create(q, x, n)
    BY <1>12, <2>1, <2>2 DEF Selections!retryJobAsAdmin, Selections!normalizeTemplateRequirements
  <2>4. Repeats(selected, n, Len(selected)) /\ n.auto = "absent"
    BY <1>1, <1>11, <2>1, <2>2, RetryAsked
  <2>5. QED BY <1>1, <2>3, <2>4, AskedRetryRepeats
<1>13. ASSUME NEW q \in Request, NEW x \in Process, NEW j \in DOMAIN selected,
              NEW v \in 1 .. selected[j].count, Selections!retryVariationAsAdmin(q, x, j, v)
       PROVE  RetryInvariant'
  <2>1. PICK plan : plan = IF selected[j].plan = <<>> THEN selected[j].plan ELSE <<selected[j].plan[v]>> OBVIOUS
  <2>2. PICK n, one : one = 1 /\ n = Selections!Retry(j, v, one, plan) OBVIOUS
  <2>3. Selections!Create(q, x, n)
    BY <1>13, <2>1, <2>2 DEF Selections!retryVariationAsAdmin,
           Selections!deriveVariationRetryExplorationSnapshot, Selections!normalizeTemplateRequirements
  <2>4. v \in Nat /\ v # 0 /\ one \in Nat \ {0} BY <1>11, <2>2
  <2>5. Repeats(selected, n, Len(selected)) /\ n.auto = "absent"
    BY <1>1, <2>1, <2>2, <2>4, RetryAsked
  <2>6. QED BY <1>1, <2>3, <2>5, AskedRetryRepeats
<1>14. QED
  BY <1>1, <1>2, <1>3, <1>4, <1>6, <1>7, <1>8, <1>9, <1>10, <1>12, <1>13,
     ResolutionRepeats, CreatedRepeats
  DEF Selections!Next, Selections!selectionVars

\* A retry, and a retry of a retry, has the plan of its original, or of its
\* variation, and a retried job the same packs on the same variations.
THEOREM RetriesRepeat == Selections!Assumptions => (Selections!Spec => []Selections!RetryRepeats)
<1>1. SUFFICES ASSUME Selections!Assumptions PROVE Selections!Spec => []Selections!RetryRepeats OBVIOUS
<1>2. GovernanceInvariant /\ RetryInvariant => Selections!RetryRepeats
  <2>1. SUFFICES ASSUME GovernanceInvariant, RetryInvariant, NEW j \in DOMAIN selected, selected[j].of # 0
                 PROVE  /\ selected[j].plan =
                               IF selected[j].variation = 0 \/ selected[selected[j].of].plan = <<>>
                               THEN selected[selected[j].of].plan
                               ELSE <<selected[selected[j].of].plan[selected[j].variation]>>
                        /\ selected[j].variation = 0 /\ selected[selected[j].of].packs # <<>>
                               => selected[j].assigned = selected[selected[j].of].assigned
    BY DEF Selections!RetryRepeats
  <2>2. PICK o, J : o = selected[selected[j].of] /\ J = selected[j] OBVIOUS
  <2>3. DOMAIN selected = 1 .. Len(selected) /\ Len(selected) \in Nat
    BY <2>1, Appended DEF GovernanceInvariant, JobsClean
  <2>4. Repeats(selected, J, j - 1) BY <2>1, <2>2 DEF RetryInvariant, JobsRepeat
  <2>5. J.of \in DOMAIN selected BY <2>1, <2>2, <2>3, <2>4 DEF Repeats
  <2>6. /\ J.assigned = Selections!assignDesignTemplatePacks(J.count, J.packs, J.plan)
        /\ o.assigned = Selections!assignDesignTemplatePacks(o.count, o.packs, o.plan)
    BY <2>1, <2>2, <2>5 DEF RetryInvariant, JobsRepeat
  <2>7. /\ J.plan = IF J.variation = 0 \/ o.plan = <<>> THEN o.plan ELSE <<o.plan[J.variation]>>
        /\ J.variation = 0 /\ o.packs # <<>> => J.count = o.count /\ J.packs = o.packs
    BY <2>1, <2>2, <2>4 DEF Repeats
  <2>8. QED BY <2>2, <2>6, <2>7
<1>3. Selections!Init => GovernanceInvariant /\ RetryInvariant BY InitGovernance, InitRetries
<1>4. GovernanceInvariant /\ RetryInvariant /\ [Selections!Next]_(Selections!selectionVars)
      => (GovernanceInvariant /\ RetryInvariant)'
  BY <1>1, StepGovernance, StepRetries
<1>5. QED BY <1>2, <1>3, <1>4, PTL DEF Selections!Spec

-----------------------------------------------------------------------------
(* Model services.                                                         *)

ModelRow == [stored : BOOLEAN, enabled : BOOLEAN, default : BOOLEAN]

ModelOp(o) ==
    /\ o.op \in {"idle", "reading", "merging", "marking", "clearing", "setting", "granting", "listing"}
    /\ o.op = "idle" <=> o = Models!Idle
    /\ o.op = "reading" => o.left \subseteq Found
    /\ o.op = "merging" => o.left \subseteq Found /\ o.model \in Found /\ o.read \in ModelRow
    /\ o.op = "marking" =>
           DOMAIN o.stale \subseteq Found /\ \A m \in DOMAIN o.stale : o.stale[m] \in ModelRow
    /\ o.op \in {"clearing", "setting"} =>
           o \in [op : {"clearing", "setting"}, model : Models!Model, read : ModelRow,
                  enabled : Models!Switch, default : Models!Switch]
    /\ o.op = "granting" => o.enabled \in {"on", "off"}

RowTypes ==
    /\ models \in [Models!Model -> ModelRow] /\ known \in [Models!Model -> ModelRow]
    /\ modelsDecided \in [Models!Model -> ModelRow]
    /\ access \in {"none", "on", "off"} /\ modelGranted \in {"on", "off"} /\ approved \subseteq Found
    /\ bounds \in [changes : Nat, overlaps : Nat, starts : Nat]

\* A model that was reported is enabled only where an operator once enabled it.
Allowed(row, m) == row.enabled /\ m \in Found => m \in approved
ReadAllowed(o) == o.op \in {"merging", "clearing", "setting"} => Allowed(o.read, o.model)

\* The rows that no start of a process has written.
Sure == IF bounds.starts = 0 THEN Models!Model ELSE Found

\* Where the request in progress is with the rows: what it read is what they
\* are, and only between the two writes of a new default are they not what was
\* decided.
Agreeing(o) ==
    /\ o.op \in {"merging", "clearing", "setting"} => o.read = models[o.model]
    /\ o.op = "marking" => \A m \in DOMAIN o.stale : o.stale[m] = models[m]
    /\ o.op = "clearing" => o.default = "on"
    /\ o.op = "listing" => access = "none"
    /\ o.op = "setting" /\ o.default = "on" => \A n \in Models!Model \ {o.model} : ~models[n].default
    /\ \A m \in Sure :
        models[m] = IF o.op = "setting" /\ o.default = "on" /\ m # o.model
                    THEN [modelsDecided[m] EXCEPT !.default = FALSE] ELSE modelsDecided[m]

Settles(o) ==
    /\ \A m, n \in Models!Model : models[m].default /\ models[n].default => m = n
    /\ \A m \in Sure : known[m] = models[m]
    /\ access = modelGranted \/ (access = "none" /\ modelGranted = "on")
    /\ Agreeing(o)

OneRequest ==
    /\ \A q, r \in Request : modelOps[q] # Models!Idle /\ modelOps[r] # Models!Idle => q = r
    /\ ~Models!Busy => Settles(Models!Idle)
    /\ \A q \in Request : modelOps[q] # Models!Idle => Settles(modelOps[q])

CatalogueInvariant ==
    /\ RowTypes /\ modelOps = [q \in Request |-> modelOps[q]]
    /\ \A m \in Models!Model : Allowed(models[m], m)
    /\ \A q \in Request : ModelOp(modelOps[q]) /\ ReadAllowed(modelOps[q])
    /\ bounds.overlaps = 0 => OneRequest

LEMMA ModelBegins ==
    ASSUME CatalogueInvariant, NEW q \in Request, NEW o, Models!Begin(q, o), ModelOp(o), ReadAllowed(o),
           UNCHANGED <<models, known, access, modelsDecided, approved, modelGranted>>,
           Settles(Models!Idle) => Agreeing(o)
    PROVE  CatalogueInvariant'
<1>1. /\ modelOps[q] = Models!Idle /\ modelOps' = [modelOps EXCEPT ![q] = o]
      /\ bounds' = [bounds EXCEPT !.changes = @ + 1, !.overlaps = IF Models!Busy THEN @ + 1 ELSE @]
  BY DEF Models!Begin, Models!Goto
<1>2. /\ bounds' \in [changes : Nat, overlaps : Nat, starts : Nat] /\ bounds'.starts = bounds.starts
      /\ bounds'.overlaps = 0 => bounds.overlaps = 0 /\ ~Models!Busy
  <2>1. PICK n : n = IF Models!Busy THEN bounds.overlaps + 1 ELSE bounds.overlaps OBVIOUS
  <2>2. bounds \in [changes : Nat, overlaps : Nat, starts : Nat] BY DEF CatalogueInvariant, RowTypes
  <2>3. n \in Nat /\ (n = 0 => bounds.overlaps = 0 /\ ~Models!Busy) BY <2>1, <2>2
  <2>4. bounds' = [bounds EXCEPT !.changes = bounds.changes + 1, !.overlaps = n] BY <1>1, <2>1
  <2>5. bounds' = [changes |-> bounds.changes + 1, overlaps |-> n, starts |-> bounds.starts] BY <2>2, <2>4
  <2>6. bounds.changes + 1 \in Nat /\ bounds.starts \in Nat BY <2>2
  <2>7. QED BY <2>3, <2>5, <2>6
<1>3. /\ modelOps' = [r \in Request |-> modelOps'[r]] /\ modelOps'[q] = o
      /\ \A r \in Request \ {q} : modelOps'[r] = modelOps[r]
  <2>1. modelOps = [r \in Request |-> modelOps[r]] BY DEF CatalogueInvariant
  <2>2. QED BY <1>1, <2>1
<1>4. RowTypes' BY <1>2 DEF CatalogueInvariant, RowTypes
<1>5. \A m \in Models!Model : Allowed(models[m], m)' BY DEF CatalogueInvariant, Allowed
<1>6. ASSUME NEW r \in Request PROVE ModelOp(modelOps'[r]) /\ ReadAllowed(modelOps[r])'
  BY <1>3 DEF CatalogueInvariant, ReadAllowed, Allowed
<1>7. ASSUME bounds'.overlaps = 0 PROVE OneRequest'
  <2>1. Settles(Models!Idle) /\ \A r \in Request : modelOps[r] = Models!Idle
    BY <1>2, <1>7 DEF CatalogueInvariant, OneRequest, Models!Busy
  <2>2. Settles(o)' BY <1>2, <2>1 DEF Settles, Agreeing, Sure
  <2>3. \A r \in Request \ {q} : modelOps'[r] = Models!Idle BY <1>3, <2>1
  <2>4. Models!Idle # o => Models!Busy' BY <1>3 DEF Models!Busy
  <2>5. Settles(modelOps[q])' BY <1>3, <2>2
  <2>6. ~Models!Busy' => Settles(Models!Idle)' BY <2>2, <2>4
  <2>7. QED BY <2>3, <2>5, <2>6 DEF OneRequest
<1>8. QED BY <1>3, <1>4, <1>5, <1>6, <1>7 DEF CatalogueInvariant

LEMMA ModelGoesOn ==
    ASSUME CatalogueInvariant, NEW q \in Request, modelOps[q] # Models!Idle,
           NEW o, Models!Goto(q, o), ModelOp(o), ReadAllowed(o)', UNCHANGED bounds,
           RowTypes', approved \subseteq approved', \A m \in Models!Model : Allowed(models[m], m)',
           Settles(modelOps[q]) => Settles(o)'
    PROVE  CatalogueInvariant'
<1>1. /\ modelOps' = [r \in Request |-> modelOps'[r]] /\ modelOps'[q] = o
      /\ \A r \in Request \ {q} : modelOps'[r] = modelOps[r]
  <2>1. modelOps = [r \in Request |-> modelOps[r]] BY DEF CatalogueInvariant
  <2>2. modelOps' = [modelOps EXCEPT ![q] = o] BY DEF Models!Goto
  <2>3. QED BY <2>1, <2>2
<1>2. ASSUME NEW r \in Request PROVE ModelOp(modelOps'[r]) /\ ReadAllowed(modelOps[r])'
  <2>1. CASE r = q BY <1>1, <2>1
  <2>2. CASE r # q BY <1>1, <2>2 DEF CatalogueInvariant, ReadAllowed, Allowed
  <2>3. QED BY <2>1, <2>2
<1>3. ASSUME bounds'.overlaps = 0 PROVE OneRequest'
  <2>1. Settles(modelOps[q]) /\ \A r \in Request \ {q} : modelOps[r] = Models!Idle
    BY <1>3 DEF CatalogueInvariant, OneRequest
  <2>2. Settles(o)' BY <2>1
  <2>3. \A r \in Request \ {q} : modelOps'[r] = Models!Idle BY <1>1, <2>1
  <2>4. Models!Idle # o => Models!Busy' BY <1>1 DEF Models!Busy
  <2>5. Settles(modelOps[q])' BY <1>1, <2>2
  <2>6. ~Models!Busy' => Settles(Models!Idle)' BY <2>2, <2>4
  <2>7. QED BY <2>3, <2>5, <2>6 DEF OneRequest
<1>4. QED BY <1>1, <1>2, <1>3 DEF CatalogueInvariant

LEMMA MarkingIs ==
    ASSUME NEW heard, NEW copy \in [Models!Model -> ModelRow], NEW o, o = Models!Marking(heard, copy)
    PROVE  /\ ModelOp(o)
           /\ o.op \in {"idle", "marking"}
           /\ o.op = "marking" => \A m \in DOMAIN o.stale : m \in Found /\ o.stale[m] = copy[m]
<1>. DEFINE missing == {m \in Found \ heard : copy[m].stored}
<1>1. o = IF missing = {} THEN Models!Idle ELSE [op |-> "marking", stale |-> [m \in missing |-> copy[m]]]
  BY DEF Models!Marking
<1>2. missing \subseteq Found /\ \A m \in Found : copy[m] \in ModelRow BY DEF Models!Model
<1>. HIDE DEF missing
<1>3. CASE missing = {} BY <1>1, <1>3 DEF ModelOp, Models!Idle
<1>4. CASE missing # {}
  <2>1. o.op = "marking" /\ o.stale = [m \in missing |-> copy[m]] BY <1>1, <1>4
  <2>2. o # Models!Idle BY <2>1 DEF Models!Idle
  <2>3. QED BY <1>2, <2>1, <2>2 DEF ModelOp
<1>5. QED BY <1>3, <1>4

\* Synchronizations.
LEMMA SynchronizationKeeps ==
    ASSUME CatalogueInvariant, NEW q \in Request,
           \/ \E heard \in SUBSET Found : Models!syncAdminModels(q, heard)
           \/ Models!readReported(q) \/ Models!mergeReported(q) \/ Models!markMissing(q)
    PROVE  CatalogueInvariant'
<1>1. PICK a : a = modelOps[q] OBVIOUS
<1>2. /\ RowTypes /\ ModelOp(a) /\ ReadAllowed(a) /\ Found \subseteq Sure /\ Found \subseteq Models!Model
      /\ \A m \in Models!Model : Allowed(models[m], m)
  BY <1>1 DEF CatalogueInvariant, Sure, Models!Model
<1>3. ASSUME NEW heard \in SUBSET Found, Models!syncAdminModels(q, heard) PROVE CatalogueInvariant'
  <2>1. PICK o : o = IF heard = {} THEN Models!Marking({}, known)
                     ELSE [op |-> "reading", left |-> heard, reported |-> heard]
    OBVIOUS
  <2>2. Models!Begin(q, o) /\ UNCHANGED <<models, known, access, modelsDecided, approved, modelGranted>>
    BY <1>3, <2>1 DEF Models!syncAdminModels
  <2>3. CASE heard = {}
    <3>1. /\ ModelOp(o) /\ o.op \in {"idle", "marking"}
          /\ o.op = "marking" => \A m \in DOMAIN o.stale : m \in Found /\ o.stale[m] = known[m]
      BY <1>2, <2>1, <2>3, MarkingIs DEF RowTypes
    <3>2. ReadAllowed(o) BY <3>1 DEF ReadAllowed
    <3>3. Settles(Models!Idle) => Agreeing(o) BY <1>2, <3>1 DEF Settles, Agreeing, Models!Idle
    <3>4. QED BY <2>2, <3>1, <3>2, <3>3, ModelBegins
  <2>4. CASE heard # {}
    <3>1. o.op = "reading" /\ o.left = heard /\ o # Models!Idle BY <2>1, <2>4 DEF Models!Idle
    <3>2. ModelOp(o) /\ ReadAllowed(o) BY <3>1 DEF ModelOp, ReadAllowed
    <3>3. Settles(Models!Idle) => Agreeing(o) BY <3>1 DEF Settles, Agreeing, Models!Idle
    <3>4. QED BY <2>2, <3>2, <3>3, ModelBegins
  <2>5. QED BY <2>3, <2>4
<1>4. CASE Models!readReported(q)
  <2>1. PICK m \in a.left : \E o :
            /\ o = [op |-> "merging", left |-> a.left, reported |-> a.reported, model |-> m, read |-> models[m]]
            /\ Models!Goto(q, o)
    BY <1>1, <1>4 DEF Models!readReported
  <2>10. PICK o :
            /\ o = [op |-> "merging", left |-> a.left, reported |-> a.reported, model |-> m, read |-> models[m]]
            /\ Models!Goto(q, o)
    BY <2>1
  <2>2. /\ a.op = "reading" /\ a # Models!Idle
        /\ UNCHANGED <<models, known, access, modelsDecided, approved, modelGranted, bounds>>
    BY <1>1, <1>4 DEF Models!readReported, Models!Idle
  <2>3. /\ o.op = "merging" /\ o.left = a.left /\ o.model = m /\ o.read = models[m] /\ o # Models!Idle
    BY <2>10 DEF Models!Idle
  <2>4. m \in Found /\ models[m] \in ModelRow BY <1>2, <2>2 DEF ModelOp, RowTypes
  <2>5. ModelOp(o) BY <1>2, <2>2, <2>3, <2>4 DEF ModelOp
  <2>6. ReadAllowed(o)' BY <1>2, <2>2, <2>3, <2>4 DEF ReadAllowed, Allowed
  <2>7. Settles(a) => Settles(o)' BY <2>2, <2>3 DEF Settles, Agreeing, Sure
  <2>8. RowTypes' /\ \A n \in Models!Model : Allowed(models[n], n)' BY <1>2, <2>2 DEF RowTypes, Allowed
  <2>9. QED BY <1>1, <2>2, <2>5, <2>6, <2>7, <2>8, <2>10, ModelGoesOn
<1>5. CASE Models!mergeReported(q)
  <2>1. PICK row : row = Models!Merged(a.read) OBVIOUS
  <2>2. PICK m : m = a.model OBVIOUS
  <2>3. /\ a.op = "merging" /\ a # Models!Idle /\ m \in Found /\ a.read \in ModelRow /\ a.left \subseteq Found
        /\ UNCHANGED <<access, approved, modelGranted, bounds>>
    BY <1>1, <1>2, <1>5, <2>2 DEF Models!mergeReported, Models!Idle, ModelOp
  <2>4. /\ row \in ModelRow /\ Allowed(row, m)
        /\ IF a.read.stored THEN row = a.read ELSE row = Models!Discovered
    BY <1>2, <2>1, <2>2, <2>3
    DEF Models!Merged, Models!Discovered, Models!Row, ModelRow, Allowed, ReadAllowed
  <2>5. CASE Models!Clashes(m, row)
    <3>1. Models!Goto(q, Models!Idle) /\ UNCHANGED <<models, known, modelsDecided>>
      BY <1>1, <1>5, <2>1, <2>2, <2>5 DEF Models!mergeReported
    <3>2. ModelOp(Models!Idle) /\ ReadAllowed(Models!Idle)' BY DEF ModelOp, Models!Idle, ReadAllowed
    <3>3. Settles(a) => Settles(Models!Idle)'
      BY <2>3, <3>1 DEF Settles, Agreeing, Sure, Models!Idle
    <3>4. RowTypes' /\ \A n \in Models!Model : Allowed(models[n], n)' BY <1>2, <2>3, <3>1 DEF RowTypes, Allowed
    <3>5. QED BY <1>1, <2>3, <3>1, <3>2, <3>3, <3>4, ModelGoesOn
  <2>6. CASE ~Models!Clashes(m, row)
    <3>1. PICK o : o = IF a.left = {m} THEN Models!Marking(a.reported, known')
                       ELSE [op |-> "reading", left |-> a.left \ {m}, reported |-> a.reported]
      OBVIOUS
    <3>2. /\ models' = [models EXCEPT ![m] = row] /\ known' = [known EXCEPT ![m] = row]
          /\ modelsDecided' = IF a.read.stored THEN modelsDecided
                              ELSE [modelsDecided EXCEPT ![m] = Models!Discovered]
          /\ Models!Goto(q, o)
      BY <1>1, <1>5, <2>1, <2>2, <2>6, <3>1 DEF Models!mergeReported, Models!Persist
    <3>3. Models!Discovered \in ModelRow /\ ~Models!Discovered.default
      BY DEF Models!Discovered, Models!Row, ModelRow
    <3>4. /\ RowTypes' /\ models'[m] = row /\ known'[m] = row
          /\ \A n \in Models!Model \ {m} :
                 models'[n] = models[n] /\ known'[n] = known[n] /\ modelsDecided'[n] = modelsDecided[n]
          /\ modelsDecided'[m] = IF a.read.stored THEN modelsDecided[m] ELSE row
      BY <1>2, <2>3, <2>4, <3>2, <3>3 DEF RowTypes
    <3>5. \A n \in Models!Model : Allowed(models[n], n)' BY <1>2, <2>3, <2>4, <3>4 DEF Allowed
    <3>6. /\ ModelOp(o) /\ o.op \in {"idle", "marking", "reading"}
          /\ o.op = "marking" => \A n \in DOMAIN o.stale : n \in Found /\ o.stale[n] = known'[n]
      <4>1. CASE a.left = {m} BY <3>1, <3>4, <4>1, MarkingIs DEF RowTypes
      <4>2. CASE a.left # {m}
        <5>1. o.op = "reading" /\ o.left = a.left \ {m} BY <3>1, <4>2
        <5>2. o # Models!Idle BY <5>1 DEF Models!Idle
        <5>3. QED BY <2>3, <5>1, <5>2 DEF ModelOp
      <4>3. QED BY <4>1, <4>2
    <3>7. ReadAllowed(o)' BY <3>6 DEF ReadAllowed
    <3>8. ASSUME Settles(a) PROVE Settles(o)'
      <4>1. a.read = models[m] /\ modelsDecided[m] = models[m] /\ known[m] = models[m]
        BY <1>2, <2>2, <2>3, <3>8 DEF Settles, Agreeing
      <4>2. models'[m] = modelsDecided'[m] BY <2>4, <3>4, <4>1
      <4>3. \A n \in Sure : models'[n] = modelsDecided'[n] /\ known'[n] = models'[n]
        BY <2>3, <3>4, <3>8, <4>2 DEF Settles, Agreeing, Sure, Models!Model
      <4>4. \A n \in Models!Model : models'[n].default => models[n].default
        BY <2>4, <3>3, <3>4, <4>1
      <4>5. \A n, k \in Models!Model : models'[n].default /\ models'[k].default => n = k
        BY <3>8, <4>4 DEF Settles
      <4>6. Sure' = Sure BY <2>3 DEF Sure
      <4>7. Agreeing(o)' BY <1>2, <3>6, <4>3, <4>6 DEF Agreeing
      <4>8. QED BY <2>3, <3>8, <4>3, <4>5, <4>6, <4>7 DEF Settles
    <3>9. QED BY <1>1, <2>3, <3>2, <3>4, <3>5, <3>6, <3>7, <3>8, ModelGoesOn
  <2>7. QED BY <2>5, <2>6
<1>6. CASE Models!markMissing(q)
  <2>0. PICK m \in DOMAIN modelOps[q].stale :
            IF Models!Clashes(m, [modelOps[q].stale[m] EXCEPT !.enabled = FALSE])
            THEN Models!Goto(q, Models!Idle) /\ UNCHANGED <<models, known, modelsDecided>>
            ELSE /\ Models!Persist(m, [modelOps[q].stale[m] EXCEPT !.enabled = FALSE])
                 /\ modelsDecided' = [modelsDecided EXCEPT ![m].enabled = FALSE]
                 /\ Models!Goto(q, IF DOMAIN modelOps[q].stale \ {m} = {} THEN Models!Idle
                                   ELSE [op |-> "marking", stale |->
                                            [n \in DOMAIN modelOps[q].stale \ {m} |-> modelOps[q].stale[n]]])
    BY <1>6, Zenon DEF Models!markMissing
  <2>01. PICK row, rest : row = [a.stale[m] EXCEPT !.enabled = FALSE] /\ rest = DOMAIN a.stale \ {m} OBVIOUS
  <2>1. /\ m \in DOMAIN a.stale
        /\ row = [a.stale[m] EXCEPT !.enabled = FALSE] /\ rest = DOMAIN a.stale \ {m}
        /\ IF Models!Clashes(m, row)
           THEN Models!Goto(q, Models!Idle) /\ UNCHANGED <<models, known, modelsDecided>>
           ELSE /\ Models!Persist(m, row)
                /\ modelsDecided' = [modelsDecided EXCEPT ![m].enabled = FALSE]
                /\ Models!Goto(q, IF rest = {} THEN Models!Idle
                                  ELSE [op |-> "marking", stale |-> [n \in rest |-> a.stale[n]]])
    BY <1>1, <2>0, <2>01
  <2>2. /\ a.op = "marking" /\ a # Models!Idle /\ UNCHANGED <<access, approved, modelGranted, bounds>>
    BY <1>1, <1>6 DEF Models!markMissing, Models!Idle
  <2>3. m \in Found /\ a.stale[m] \in ModelRow /\ rest \subseteq Found BY <1>2, <2>1, <2>2 DEF ModelOp
  <2>4. row \in ModelRow /\ ~row.enabled /\ row.default = a.stale[m].default /\ row.stored = a.stale[m].stored
    BY <2>1, <2>3 DEF ModelRow
  <2>5. CASE Models!Clashes(m, row)
    <3>1. Models!Goto(q, Models!Idle) /\ UNCHANGED <<models, known, modelsDecided>> BY <2>1, <2>5
    <3>2. ModelOp(Models!Idle) /\ ReadAllowed(Models!Idle)' BY DEF ModelOp, Models!Idle, ReadAllowed
    <3>3. Settles(a) => Settles(Models!Idle)'
      BY <2>2, <3>1 DEF Settles, Agreeing, Sure, Models!Idle
    <3>4. RowTypes' /\ \A n \in Models!Model : Allowed(models[n], n)' BY <1>2, <2>2, <3>1 DEF RowTypes, Allowed
    <3>5. QED BY <1>1, <2>2, <3>1, <3>2, <3>3, <3>4, ModelGoesOn
  <2>6. CASE ~Models!Clashes(m, row)
    <3>1. PICK o : o = IF rest = {} THEN Models!Idle
                       ELSE [op |-> "marking", stale |-> [n \in rest |-> a.stale[n]]]
      OBVIOUS
    <3>2. /\ models' = [models EXCEPT ![m] = row] /\ known' = [known EXCEPT ![m] = row]
          /\ modelsDecided' = [modelsDecided EXCEPT ![m].enabled = FALSE] /\ Models!Goto(q, o)
      BY <2>1, <2>6, <3>1 DEF Models!Persist
    <3>3. /\ RowTypes' /\ models'[m] = row /\ known'[m] = row
          /\ \A n \in Models!Model \ {m} :
                 models'[n] = models[n] /\ known'[n] = known[n] /\ modelsDecided'[n] = modelsDecided[n]
          /\ modelsDecided'[m] = [modelsDecided[m] EXCEPT !.enabled = FALSE]
      <4>1. modelsDecided[m] \in ModelRow BY <1>2, <2>3 DEF RowTypes
      <4>2. [modelsDecided[m] EXCEPT !.enabled = FALSE] \in ModelRow BY <4>1 DEF ModelRow
      <4>3. modelsDecided' = [modelsDecided EXCEPT ![m] = [modelsDecided[m] EXCEPT !.enabled = FALSE]]
        BY <3>2
      <4>4. QED BY <1>2, <2>2, <2>3, <2>4, <3>2, <4>2, <4>3 DEF RowTypes
    <3>4. \A n \in Models!Model : Allowed(models[n], n)' BY <1>2, <2>2, <2>4, <3>3 DEF Allowed
    <3>5. /\ ModelOp(o) /\ o.op \in {"idle", "marking"}
          /\ o.op = "marking" => \A n \in DOMAIN o.stale : n \in rest /\ o.stale[n] = a.stale[n]
      <4>1. CASE rest = {} BY <3>1, <4>1 DEF ModelOp, Models!Idle
      <4>2. CASE rest # {}
        <5>1. o.op = "marking" /\ o.stale = [n \in rest |-> a.stale[n]] BY <3>1, <4>2
        <5>2. o # Models!Idle BY <5>1 DEF Models!Idle
        <5>3. \A n \in rest : a.stale[n] \in ModelRow BY <1>2, <2>1, <2>2 DEF ModelOp
        <5>4. QED BY <2>3, <5>1, <5>2, <5>3 DEF ModelOp
      <4>3. QED BY <4>1, <4>2
    <3>6. ReadAllowed(o)' BY <3>5 DEF ReadAllowed
    <3>7. ASSUME Settles(a) PROVE Settles(o)'
      <4>1. a.stale[m] = models[m] /\ modelsDecided[m] = models[m] /\ known[m] = models[m]
        BY <1>2, <2>1, <2>2, <2>3, <3>7 DEF Settles, Agreeing
      <4>2. models'[m] = modelsDecided'[m] /\ models'[m].default = models[m].default
        BY <2>1, <2>4, <3>3, <4>1
      <4>3. \A n \in Sure : models'[n] = modelsDecided'[n] /\ known'[n] = models'[n]
        BY <2>2, <3>3, <3>7, <4>2 DEF Settles, Agreeing, Sure, Models!Model
      <4>4. \A n \in Models!Model : models'[n].default = models[n].default
        BY <3>3, <4>2
      <4>5. \A n, k \in Models!Model : models'[n].default /\ models'[k].default => n = k
        BY <3>7, <4>4 DEF Settles
      <4>6. Sure' = Sure BY <2>2 DEF Sure
      <4>7. o.op = "marking" => \A n \in DOMAIN o.stale : o.stale[n] = models'[n]
        BY <1>2, <2>1, <2>2, <2>3, <3>3, <3>5, <3>7 DEF Settles, Agreeing
      <4>8. Agreeing(o)' BY <3>5, <4>3, <4>6, <4>7 DEF Agreeing
      <4>9. QED BY <2>2, <3>7, <4>3, <4>5, <4>6, <4>8 DEF Settles
    <3>8. QED BY <1>1, <2>2, <3>2, <3>3, <3>4, <3>5, <3>6, <3>7, ModelGoesOn
  <2>7. QED BY <2>5, <2>6
<1>7. QED BY <1>3, <1>4, <1>5, <1>6

\* Operators' switches.
LEMMA SwitchKeeps ==
    ASSUME CatalogueInvariant, NEW q \in Request,
           \/ \E m \in Models!Model, enabled, default \in Models!Switch :
                  Models!updateAdminModel(q, m, enabled, default)
           \/ Models!clearDefault(q) \/ Models!saveModel(q)
    PROVE  CatalogueInvariant'
<1>1. PICK a : a = modelOps[q] OBVIOUS
<1>2. /\ RowTypes /\ ModelOp(a) /\ ReadAllowed(a) /\ Sure \subseteq Models!Model
      /\ \A m \in Models!Model : Allowed(models[m], m)
  BY <1>1 DEF CatalogueInvariant, Sure, Models!Model
<1>3. ASSUME NEW m \in Models!Model, NEW enabled \in Models!Switch, NEW default \in Models!Switch,
             Models!updateAdminModel(q, m, enabled, default)
      PROVE  CatalogueInvariant'
  <2>1. PICK o : o = [op |-> IF default = "on" THEN "clearing" ELSE "setting",
                      model |-> m, read |-> models[m], enabled |-> enabled, default |-> default]
    OBVIOUS
  <2>2. Models!Begin(q, o) /\ UNCHANGED <<models, known, access, modelsDecided, approved, modelGranted>>
    BY <1>3, <2>1 DEF Models!updateAdminModel
  <2>3. /\ o.op = (IF default = "on" THEN "clearing" ELSE "setting") /\ o.model = m /\ o.read = models[m]
        /\ o.enabled = enabled /\ o.default = default /\ o # Models!Idle
        /\ models[m] \in ModelRow
    BY <1>2, <2>1 DEF Models!Idle, RowTypes
  <2>4. o \in [op : {"clearing", "setting"}, model : Models!Model, read : ModelRow,
               enabled : Models!Switch, default : Models!Switch]
    BY <2>1, <2>3
  <2>5. ModelOp(o) BY <2>3, <2>4 DEF ModelOp
  <2>6. ReadAllowed(o) BY <1>2, <2>3 DEF ReadAllowed
  <2>7. Settles(Models!Idle) => Agreeing(o) BY <2>3 DEF Settles, Agreeing, Models!Idle
  <2>8. QED BY <2>2, <2>5, <2>6, <2>7, ModelBegins
<1>4. CASE Models!clearDefault(q)
  <2>1. PICK o : o = [a EXCEPT !.op = "setting"] OBVIOUS
  <2>2. PICK m : m = a.model OBVIOUS
  <2>3. /\ a.op = "clearing" /\ a # Models!Idle
        /\ models' = [n \in Models!Model |-> IF n = m THEN models[n] ELSE [models[n] EXCEPT !.default = FALSE]]
        /\ known' = [n \in Models!Model |-> IF n = m THEN known[n] ELSE [known[n] EXCEPT !.default = FALSE]]
        /\ Models!Goto(q, o) /\ UNCHANGED <<access, modelsDecided, approved, modelGranted, bounds>>
    BY <1>1, <1>4, <2>1, <2>2 DEF Models!clearDefault, Models!Idle
  <2>4. /\ a \in [op : {"clearing", "setting"}, model : Models!Model, read : ModelRow,
                  enabled : Models!Switch, default : Models!Switch]
        /\ m \in Models!Model
    BY <1>2, <2>2, <2>3 DEF ModelOp
  <2>5. /\ o \in [op : {"clearing", "setting"}, model : Models!Model, read : ModelRow,
                  enabled : Models!Switch, default : Models!Switch]
        /\ o.op = "setting" /\ o.model = m /\ o.read = a.read /\ o.default = a.default
    BY <2>1, <2>2, <2>4
  <2>6. ModelOp(o) BY <2>5 DEF ModelOp, Models!Idle
  <2>7. \A r \in ModelRow : /\ [r EXCEPT !.default = FALSE] \in ModelRow
                            /\ [r EXCEPT !.default = FALSE].enabled = r.enabled
                            /\ ~[r EXCEPT !.default = FALSE].default
    BY DEF ModelRow
  <2>8. /\ RowTypes' /\ models'[m] = models[m] /\ known'[m] = known[m]
        /\ \A n \in Models!Model \ {m} : models'[n] = [models[n] EXCEPT !.default = FALSE]
                                         /\ known'[n] = [known[n] EXCEPT !.default = FALSE]
        /\ \A n \in Models!Model \ {m} : models'[n].enabled = models[n].enabled /\ ~models'[n].default
    BY <1>2, <2>3, <2>4, <2>7 DEF RowTypes
  <2>9. \A n \in Models!Model : Allowed(models[n], n)'
    BY <1>2, <2>3, <2>4, <2>8 DEF Allowed
  <2>10. ReadAllowed(o)' BY <1>2, <2>2, <2>3, <2>5 DEF ReadAllowed, Allowed
  <2>11. ASSUME Settles(a) PROVE Settles(o)'
    <3>1. /\ a.read = models[m] /\ a.default = "on"
          /\ \A n \in Sure : models[n] = modelsDecided[n] /\ known[n] = models[n]
      BY <2>2, <2>3, <2>11 DEF Settles, Agreeing
    <3>2. Sure' = Sure BY <2>3 DEF Sure
    <3>3. Agreeing(o)'
      <4>1. o.read = models'[m] BY <2>5, <2>8, <3>1
      <4>2. \A n \in Sure : models'[n] = IF n # m THEN [modelsDecided[n] EXCEPT !.default = FALSE] ELSE modelsDecided[n]
        BY <1>2, <2>8, <3>1
      <4>3. \A n \in Models!Model \ {m} : ~models'[n].default BY <2>8
      <4>4. modelsDecided' = modelsDecided BY <2>3
      <4>5. o.op = "setting" /\ o.model = m /\ o.default = "on" BY <2>5, <3>1
      <4>6. \A n \in Sure' : models'[n] = IF o.op = "setting" /\ o.default = "on" /\ n # o.model
                             THEN [modelsDecided'[n] EXCEPT !.default = FALSE] ELSE modelsDecided'[n]
        BY <3>2, <4>2, <4>4, <4>5
      <4>7. QED BY <4>1, <4>3, <4>5, <4>6 DEF Agreeing
    <3>4. \A n, k \in Models!Model : models'[n].default /\ models'[k].default => n = k
      BY <2>8
    <3>5. ASSUME NEW n \in Sure PROVE known'[n] = models'[n]
      <4>1. known[n] = models[n] /\ n \in Models!Model BY <1>2, <3>1
      <4>2. CASE n = m BY <2>8, <4>1, <4>2
      <4>3. CASE n # m
        <5>1. /\ models'[n] = [models[n] EXCEPT !.default = FALSE]
              /\ known'[n] = [known[n] EXCEPT !.default = FALSE]
          BY <2>8, <4>1, <4>3
        <5>2. QED BY <4>1, <5>1
      <4>4. QED BY <4>2, <4>3
    <3>6. QED BY <2>3, <2>11, <3>2, <3>3, <3>4, <3>5 DEF Settles
  <2>12. QED BY <1>1, <2>3, <2>6, <2>8, <2>9, <2>10, <2>11, ModelGoesOn
<1>5. CASE Models!saveModel(q)
  <2>1. PICK m : m = a.model OBVIOUS
  <2>2. PICK row : row = Models!Updated(a) OBVIOUS
  <2>3. /\ a.op = "setting" /\ a # Models!Idle /\ Models!Goto(q, Models!Idle)
        /\ UNCHANGED <<access, modelGranted, bounds>>
    BY <1>1, <1>5 DEF Models!saveModel, Models!Idle
  <2>4. /\ a \in [op : {"clearing", "setting"}, model : Models!Model, read : ModelRow,
                  enabled : Models!Switch, default : Models!Switch]
        /\ m \in Models!Model /\ a.read \in ModelRow
    BY <1>2, <2>1, <2>3 DEF ModelOp
  <2>5. /\ row = [stored |-> TRUE, enabled |-> Models!Switched(a.enabled, a.read.enabled),
                  default |-> Models!Switched(a.default, a.read.default)]
        /\ row \in ModelRow
    BY <2>2, <2>4 DEF Models!Updated, Models!Row, Models!Switched, ModelRow
  <2>6. ModelOp(Models!Idle) /\ ReadAllowed(Models!Idle)' BY DEF ModelOp, Models!Idle, ReadAllowed
  <2>7. CASE Models!Clashes(m, row)
    <3>1. UNCHANGED <<models, known, modelsDecided, approved>>
      BY <1>1, <1>5, <2>1, <2>2, <2>7 DEF Models!saveModel
    <3>2. RowTypes' /\ \A n \in Models!Model : Allowed(models[n], n)' BY <1>2, <2>3, <3>1 DEF RowTypes, Allowed
    <3>3. ASSUME Settles(a) PROVE a.default # "on"
      BY <2>1, <2>3, <2>7, <3>3 DEF Settles, Agreeing, Models!Clashes
    <3>4. Settles(a) => Settles(Models!Idle)'
      BY <2>3, <3>1, <3>3 DEF Settles, Agreeing, Sure, Models!Idle
    <3>5. QED BY <1>1, <2>3, <2>6, <3>1, <3>2, <3>4, ModelGoesOn
  <2>8. CASE ~Models!Clashes(m, row)
    <3>1. /\ models' = [models EXCEPT ![m] = row] /\ known' = [known EXCEPT ![m] = row]
          /\ modelsDecided' = Models!Decide(a)
          /\ approved' = IF a.enabled = "on" THEN approved \cup ({m} \cap Found) ELSE approved
      BY <1>1, <1>5, <2>1, <2>2, <2>8 DEF Models!saveModel, Models!Persist
    <3>2. modelsDecided' = [n \in Models!Model |->
             IF n = m THEN [stored |-> TRUE, enabled |-> Models!Switched(a.enabled, modelsDecided[n].enabled),
                            default |-> Models!Switched(a.default, modelsDecided[n].default)]
             ELSE [modelsDecided[n] EXCEPT !.default = @ /\ a.default # "on"]]
      BY <2>1, <3>1 DEF Models!Decide, Models!Row
    <3>3. PICK new : new = [stored |-> TRUE, enabled |-> Models!Switched(a.enabled, modelsDecided[m].enabled),
                            default |-> Models!Switched(a.default, modelsDecided[m].default)]
      OBVIOUS
    <3>4. new \in ModelRow BY <1>2, <2>4, <3>3 DEF RowTypes, Models!Switched, ModelRow
    <3>5. \A r \in ModelRow : /\ [r EXCEPT !.default = FALSE] \in ModelRow
                              /\ [r EXCEPT !.default = @ /\ a.default # "on"] =
                                     IF a.default = "on" THEN [r EXCEPT !.default = FALSE] ELSE r
      BY DEF ModelRow
    <3>6. \A n \in Models!Model \ {m} : modelsDecided'[n] =
              IF a.default = "on" THEN [modelsDecided[n] EXCEPT !.default = FALSE] ELSE modelsDecided[n]
      <4>1. ASSUME NEW n \in Models!Model \ {m}
            PROVE  modelsDecided'[n] =
                       IF a.default = "on" THEN [modelsDecided[n] EXCEPT !.default = FALSE] ELSE modelsDecided[n]
        <5>1. modelsDecided[n] \in ModelRow BY <1>2 DEF RowTypes
        <5>2. modelsDecided'[n] = [modelsDecided[n] EXCEPT !.default = @ /\ a.default # "on"] BY <3>2
        <5>3. QED BY <3>5, <5>1, <5>2
      <4>2. QED BY <4>1
    <3>7. modelsDecided'[m] = new BY <2>4, <3>2, <3>3
    <3>8. modelsDecided' \in [Models!Model -> ModelRow]
      <4>1. modelsDecided' = [n \in Models!Model |-> modelsDecided'[n]] BY <3>2
      <4>2. ASSUME NEW n \in Models!Model PROVE modelsDecided'[n] \in ModelRow
        <5>1. CASE n = m BY <3>4, <3>7, <5>1
        <5>2. CASE n # m
          <6>1. PICK r \in ModelRow : r = modelsDecided[n] BY <1>2 DEF RowTypes
          <6>2. modelsDecided'[n] = IF a.default = "on" THEN [r EXCEPT !.default = FALSE] ELSE r
            BY <3>6, <5>2, <6>1
          <6>3. QED BY <3>5, <6>1, <6>2
        <5>3. QED BY <5>1, <5>2
      <4>3. QED BY <4>1, <4>2
    <3>9. /\ RowTypes' /\ models'[m] = row /\ known'[m] = row /\ approved \subseteq approved'
          /\ \A n \in Models!Model \ {m} : models'[n] = models[n] /\ known'[n] = known[n]
      BY <1>2, <2>3, <2>4, <2>5, <3>1, <3>8 DEF RowTypes
    <3>10. row.enabled /\ m \in Found => m \in approved'
      <4>1. row.enabled => a.enabled = "on" \/ a.read.enabled BY <2>5 DEF Models!Switched
      <4>2. a.read.enabled /\ m \in Found => m \in approved
        BY <1>2, <2>1, <2>3 DEF ReadAllowed, Allowed
      <4>3. QED BY <3>1, <3>9, <4>1, <4>2
    <3>11. \A n \in Models!Model : Allowed(models[n], n)'
      BY <1>2, <3>9, <3>10 DEF Allowed
    <3>12. ASSUME Settles(a) PROVE Settles(Models!Idle)'
      <4>1. /\ a.read = models[m] /\ \A n \in Models!Model, k \in Models!Model : models[n].default /\ models[k].default => n = k
            /\ a.default = "on" => \A n \in Models!Model \ {m} : ~models[n].default
            /\ \A n \in Sure : known[n] = models[n]
            /\ \A n \in Sure : models[n] = IF a.default = "on" /\ n # m
                                           THEN [modelsDecided[n] EXCEPT !.default = FALSE] ELSE modelsDecided[n]
        BY <2>1, <2>3, <3>12 DEF Settles, Agreeing
      <4>2. m \in Sure => models[m] = modelsDecided[m] BY <4>1
      <4>3. m \in Sure => models'[m] = modelsDecided'[m]
        <5>1. m \in Sure => row = new BY <2>5, <3>3, <4>1, <4>2
        <5>2. QED BY <3>7, <3>9, <5>1
      <4>4. \A n \in Sure : models'[n] = modelsDecided'[n] /\ known'[n] = models'[n]
        BY <1>2, <3>6, <3>9, <4>1, <4>3
      <4>5. \A n, k \in Models!Model : models'[n].default /\ models'[k].default => n = k
        BY <2>8, <3>9, <4>1 DEF Models!Clashes
      <4>6. Sure' = Sure BY <2>3 DEF Sure
      <4>7. Agreeing(Models!Idle)' BY <4>4, <4>6 DEF Agreeing, Models!Idle
      <4>8. QED BY <2>3, <3>12, <4>4, <4>5, <4>6, <4>7 DEF Settles
    <3>13. QED BY <1>1, <2>3, <2>6, <3>9, <3>11, <3>12, ModelGoesOn
  <2>9. QED BY <2>7, <2>8
<1>6. QED BY <1>3, <1>4, <1>5

\* The user's access.
LEMMA AccessKeeps ==
    ASSUME CatalogueInvariant, NEW q \in Request,
           \/ \E enabled \in {"on", "off"} : Models!updateUserModelAccess(q, enabled)
           \/ Models!saveAccess(q) \/ Models!getAdminUserModelAccess(q) \/ Models!ensureAccess(q)
    PROVE  CatalogueInvariant'
<1>1. PICK a : a = modelOps[q] OBVIOUS
<1>2. /\ RowTypes /\ ModelOp(a) /\ ReadAllowed(a)
      /\ \A m \in Models!Model : Allowed(models[m], m)
  BY <1>1 DEF CatalogueInvariant
<1>3. ASSUME NEW enabled \in {"on", "off"}, Models!updateUserModelAccess(q, enabled) PROVE CatalogueInvariant'
  <2>1. PICK o : o = [op |-> "granting", enabled |-> enabled] OBVIOUS
  <2>2. Models!Begin(q, o) /\ UNCHANGED <<models, known, access, modelsDecided, approved, modelGranted>>
    BY <1>3, <2>1 DEF Models!updateUserModelAccess
  <2>3. o.op = "granting" /\ o.enabled = enabled /\ o # Models!Idle BY <2>1 DEF Models!Idle
  <2>4. ModelOp(o) /\ ReadAllowed(o) BY <2>3 DEF ModelOp, ReadAllowed
  <2>5. Settles(Models!Idle) => Agreeing(o) BY <2>3 DEF Settles, Agreeing, Models!Idle
  <2>6. QED BY <2>2, <2>4, <2>5, ModelBegins
<1>4. CASE Models!getAdminUserModelAccess(q)
  <2>1. PICK o : o = [op |-> "listing"] OBVIOUS
  <2>2. /\ Models!Begin(q, o) /\ UNCHANGED <<models, known, access, modelsDecided, approved, modelGranted>>
        /\ access = "none"
    BY <1>4, <2>1 DEF Models!getAdminUserModelAccess
  <2>3. o.op = "listing" /\ o # Models!Idle BY <2>1 DEF Models!Idle
  <2>4. ModelOp(o) /\ ReadAllowed(o) BY <2>3 DEF ModelOp, ReadAllowed
  <2>5. Settles(Models!Idle) => Agreeing(o) BY <2>2, <2>3 DEF Settles, Agreeing, Models!Idle
  <2>6. QED BY <2>2, <2>4, <2>5, ModelBegins
<1>5. ModelOp(Models!Idle) /\ ReadAllowed(Models!Idle)' BY DEF ModelOp, Models!Idle, ReadAllowed
<1>6. CASE Models!saveAccess(q) \/ Models!ensureAccess(q)
  <2>1. /\ a.op \in {"granting", "listing"} /\ a # Models!Idle /\ Models!Goto(q, Models!Idle)
        /\ UNCHANGED <<models, known, modelsDecided, approved, bounds>>
        /\ a.op = "granting" => access' = a.enabled /\ modelGranted' = a.enabled
        /\ a.op = "listing" => access' = "on" /\ UNCHANGED modelGranted
    BY <1>1, <1>6 DEF Models!saveAccess, Models!ensureAccess, Models!Idle
  <2>2. RowTypes' /\ \A n \in Models!Model : Allowed(models[n], n)'
    BY <1>2, <2>1 DEF RowTypes, Allowed, ModelOp
  <2>3. ASSUME Settles(a) PROVE Settles(Models!Idle)'
    <3>1. access' = modelGranted'
      BY <1>2, <2>1, <2>3 DEF Settles, Agreeing, RowTypes
    <3>2. QED BY <2>1, <2>3, <3>1 DEF Settles, Agreeing, Sure, Models!Idle
  <2>4. QED BY <1>1, <1>5, <2>1, <2>2, <2>3, ModelGoesOn
<1>7. QED BY <1>3, <1>4, <1>6

\* A process starts; what was not decided of the seeded model, it decides.
LEMMA StartKeeps ==
    ASSUME CatalogueInvariant, Seeded \notin Found, NEW isApi \in BOOLEAN, Models!start(isApi)
    PROVE  CatalogueInvariant'
<1>1. /\ UNCHANGED <<access, modelsDecided, approved, modelGranted>>
      /\ bounds' = [bounds EXCEPT !.starts = @ + 1, !.overlaps = IF Models!Busy THEN @ + 1 ELSE @]
      /\ models' = IF Models!Clashes(Seeded, Models!SeedRow) THEN models
                   ELSE [models EXCEPT ![Seeded] = Models!SeedRow]
      /\ (modelOps' = [q \in Request |-> Models!Idle] /\ known' = models') \/ UNCHANGED <<modelOps, known>>
  BY DEF Models!start
<1>2. RowTypes /\ modelOps = [q \in Request |-> modelOps[q]] BY DEF CatalogueInvariant
<1>3. /\ bounds' \in [changes : Nat, overlaps : Nat, starts : Nat] /\ bounds'.starts # 0
      /\ bounds'.overlaps = 0 => bounds.overlaps = 0 /\ ~Models!Busy
  <2>1. PICK n : n = IF Models!Busy THEN bounds.overlaps + 1 ELSE bounds.overlaps OBVIOUS
  <2>2. bounds \in [changes : Nat, overlaps : Nat, starts : Nat] BY <1>2 DEF RowTypes
  <2>3. n \in Nat /\ (n = 0 => bounds.overlaps = 0 /\ ~Models!Busy) BY <2>1, <2>2
  <2>4. bounds' = [bounds EXCEPT !.starts = bounds.starts + 1, !.overlaps = n] BY <1>1, <2>1
  <2>5. bounds' = [changes |-> bounds.changes, overlaps |-> n, starts |-> bounds.starts + 1] BY <2>2, <2>4
  <2>6. bounds.changes \in Nat /\ bounds.starts + 1 \in Nat /\ bounds.starts + 1 # 0 BY <2>2
  <2>7. QED BY <2>3, <2>5, <2>6
<1>4. Models!SeedRow \in ModelRow BY DEF Models!SeedRow, Models!Row, ModelRow
<1>5. /\ RowTypes' /\ \A m \in Models!Model \ {Seeded} : models'[m] = models[m]
      /\ models'[Seeded] = models[Seeded] \/ (models'[Seeded] = Models!SeedRow /\ ~Models!Clashes(Seeded, Models!SeedRow))
  <2>1. Seeded \in Models!Model BY DEF Models!Model
  <2>2. models' \in [Models!Model -> ModelRow] BY <1>1, <1>2, <1>4, <2>1 DEF RowTypes
  <2>3. QED BY <1>1, <1>2, <1>3, <1>4, <2>1, <2>2 DEF RowTypes
<1>6. \A m \in Models!Model : Allowed(models[m], m)'
  BY <1>1, <1>5 DEF CatalogueInvariant, Allowed
<1>7. /\ modelOps' = [q \in Request |-> modelOps'[q]]
      /\ \A q \in Request : modelOps'[q] = Models!Idle \/ modelOps'[q] = modelOps[q]
  BY <1>1, <1>2
<1>8. ASSUME NEW q \in Request PROVE ModelOp(modelOps'[q]) /\ ReadAllowed(modelOps[q])'
  <2>1. CASE modelOps'[q] = Models!Idle BY <2>1 DEF ModelOp, ReadAllowed, Models!Idle
  <2>2. CASE modelOps'[q] = modelOps[q] BY <1>1, <2>2 DEF CatalogueInvariant, ReadAllowed, Allowed
  <2>3. QED BY <1>7, <2>1, <2>2
<1>9. ASSUME bounds'.overlaps = 0 PROVE OneRequest'
  <2>1. Settles(Models!Idle) /\ \A q \in Request : modelOps[q] = Models!Idle
    BY <1>3, <1>9 DEF CatalogueInvariant, OneRequest, Models!Busy
  <2>2. \A q \in Request : modelOps'[q] = Models!Idle BY <1>7, <2>1
  <2>3. Sure' = Found /\ Found \subseteq Sure /\ Found \subseteq Models!Model \ {Seeded}
    BY <1>3 DEF Sure, Models!Model
  <2>4. \A m \in Found : models'[m] = models[m] /\ known'[m] = models'[m] /\ models[m] = modelsDecided[m]
    BY <1>1, <1>5, <2>1, <2>3 DEF Settles, Agreeing, Models!Idle
  <2>5. Agreeing(Models!Idle)' BY <1>1, <2>3, <2>4 DEF Agreeing, Models!Idle
  <2>6. ASSUME NEW m \in Models!Model, NEW n \in Models!Model, models'[m].default, models'[n].default
        PROVE  m = n
    <3>1. Models!SeedRow.default BY DEF Models!SeedRow, Models!Row
    <3>2. CASE models'[Seeded] = models[Seeded] BY <1>5, <2>1, <2>6, <3>2 DEF Settles
    <3>3. CASE models'[Seeded] = Models!SeedRow /\ ~Models!Clashes(Seeded, Models!SeedRow)
      BY <1>5, <2>6, <3>1, <3>3 DEF Models!Clashes
    <3>4. QED BY <1>5, <3>2, <3>3
  <2>7. Settles(Models!Idle)' BY <1>1, <2>1, <2>3, <2>4, <2>5, <2>6 DEF Settles
  <2>8. QED BY <2>2, <2>7 DEF OneRequest
<1>10. QED BY <1>5, <1>6, <1>7, <1>8, <1>9 DEF CatalogueInvariant

LEMMA CatalogueFromTheStart == Models!Assumptions /\ Models!Init => CatalogueInvariant
<1>. SUFFICES ASSUME Models!Assumptions, Models!Init PROVE CatalogueInvariant OBVIOUS
<1>1. /\ models = [m \in Models!Model |-> IF m = Seeded THEN Models!SeedRow ELSE Models!NoRow]
      /\ known = models /\ modelsDecided = models
      /\ access = "none" /\ modelGranted = "on" /\ approved = {}
      /\ modelOps = [q \in Request |-> Models!Idle]
      /\ bounds = [changes |-> 0, overlaps |-> 0, starts |-> 0] /\ Seeded \notin Found
  BY DEF Models!Init, Models!Assumptions
<1>2. /\ Models!SeedRow \in ModelRow /\ Models!NoRow \in ModelRow
      /\ ~Models!NoRow.enabled /\ ~Models!NoRow.default
  BY DEF Models!SeedRow, Models!Row, Models!NoRow, ModelRow
<1>3. RowTypes BY <1>1, <1>2 DEF RowTypes
<1>4. \A m \in Models!Model : Allowed(models[m], m) BY <1>1, <1>2 DEF Allowed
<1>5. \A q \in Request : ModelOp(modelOps[q]) /\ ReadAllowed(modelOps[q])
  <2>1. ModelOp(Models!Idle) /\ ReadAllowed(Models!Idle) BY DEF ModelOp, ReadAllowed, Models!Idle
  <2>2. QED BY <1>1, <2>1
<1>6. Settles(Models!Idle)
  <2>1. Agreeing(Models!Idle) BY <1>1 DEF Agreeing, Models!Idle, Sure
  <2>2. QED BY <1>1, <1>2, <2>1 DEF Settles, Sure
<1>7. OneRequest BY <1>1, <1>6 DEF OneRequest
<1>8. QED BY <1>1, <1>3, <1>4, <1>5, <1>7 DEF CatalogueInvariant

LEMMA CatalogueStays ==
    Models!Assumptions /\ CatalogueInvariant /\ [Models!Next]_(Models!vars) => CatalogueInvariant'
<1>. SUFFICES ASSUME Models!Assumptions, CatalogueInvariant, [Models!Next]_(Models!vars)
              PROVE  CatalogueInvariant'
  OBVIOUS
<1>1. Seeded \notin Found BY DEF Models!Assumptions
<1>2. CASE UNCHANGED Models!vars
  BY <1>2 DEF Models!vars, CatalogueInvariant, RowTypes, ReadAllowed, Allowed, OneRequest, Models!Busy,
              Settles, Agreeing, Sure
<1>3. CASE \E isApi \in BOOLEAN : Models!start(isApi) BY <1>1, <1>3, StartKeeps
<1>4. CASE \E q \in Request :
        \/ \E heard \in SUBSET Found : Models!syncAdminModels(q, heard)
        \/ Models!readReported(q) \/ Models!mergeReported(q) \/ Models!markMissing(q)
  BY <1>4, SynchronizationKeeps
<1>5. CASE \E q \in Request :
        \/ \E m \in Models!Model, enabled, default \in Models!Switch : Models!updateAdminModel(q, m, enabled, default)
        \/ Models!clearDefault(q) \/ Models!saveModel(q)
  BY <1>5, SwitchKeeps
<1>6. CASE \E q \in Request :
        \/ \E enabled \in {"on", "off"} : Models!updateUserModelAccess(q, enabled)
        \/ Models!saveAccess(q) \/ Models!getAdminUserModelAccess(q) \/ Models!ensureAccess(q)
  BY <1>6, AccessKeeps
<1>7. QED BY <1>2, <1>3, <1>4, <1>5, <1>6 DEF Models!Next

LEMMA CatalogueTells == Models!Assumptions /\ CatalogueInvariant => Models!OperatorsDecide
<1>. SUFFICES ASSUME Models!Assumptions, CatalogueInvariant PROVE Models!OperatorsDecide OBVIOUS
<1>1. Models!Options \cap Found \subseteq approved
  BY DEF CatalogueInvariant, Allowed, Models!Options
<1>2. ASSUME bounds.overlaps = 0, ~Models!Busy PROVE \A m \in Found : models[m] = modelsDecided[m]
  BY <1>2 DEF CatalogueInvariant, OneRequest, Settles, Agreeing, Sure, Models!Model, Models!Idle
<1>3. ASSUME bounds.overlaps = 0, ~Models!Busy, bounds.starts = 0
      PROVE  /\ models = modelsDecided /\ known = models
             /\ Seeded \in Models!Options <=> modelsDecided[Seeded].enabled /\ modelGranted = "on"
  <2>1. RowTypes /\ Settles(Models!Idle) /\ Sure = Models!Model /\ Seeded \in Models!Model
    BY <1>3 DEF CatalogueInvariant, OneRequest, Sure, Models!Model
  <2>2. \A m \in Models!Model : models[m] = modelsDecided[m] /\ known[m] = models[m]
    BY <2>1 DEF Settles, Agreeing, Models!Idle
  <2>3. models = modelsDecided /\ known = models BY <2>1, <2>2 DEF RowTypes
  <2>4. access # "off" <=> modelGranted = "on" BY <2>1 DEF Settles, RowTypes
  <2>5. QED BY <2>1, <2>3, <2>4 DEF Models!Options
<1>4. QED BY <1>1, <1>2, <1>3 DEF Models!OperatorsDecide

\* The catalogue, for any models, requests and starts: a model that the runtime
\* reported is offered only if an operator once enabled it, and when requests
\* did not overlap the catalogue is what was decided (updateAdminModel,
\* syncAdminModels, upsertDiscoveredModelServices, seedModelServices).
THEOREM CatalogueAsDecided ==
    Models!Assumptions => (Models!Spec => []Models!OperatorsDecide)
<1>1. SUFFICES ASSUME Models!Assumptions PROVE Models!Spec => []Models!OperatorsDecide OBVIOUS
<1>2. Models!Init => CatalogueInvariant BY <1>1, CatalogueFromTheStart
<1>3. CatalogueInvariant /\ [Models!Next]_(Models!vars) => CatalogueInvariant' BY <1>1, CatalogueStays
<1>4. CatalogueInvariant => Models!OperatorsDecide BY <1>1, CatalogueTells
<1>5. QED BY <1>2, <1>3, <1>4, PTL DEF Models!Spec

-----------------------------------------------------------------------------
(* Contexts.                                                               *)

\* The ids among the first 0 .. N, each once.
NamedWith(seen, id) == IF Contexts!Contains(seen, id) THEN seen ELSE Append(seen, id)
IsNaming(f, N, ids) == f = [n \in 0 .. N |-> IF n = 0 THEN <<>> ELSE NamedWith(f[n - 1], ids[n])]
Unrepeated(s) == \A m, n \in 1 .. Len(s) : s[m] = s[n] => m = n

LEMMA NamingSteps ==
    ASSUME NEW N \in Nat, NEW ids, NEW f, IsNaming(f, N, ids)
    PROVE  f[0] = <<>> /\ \A n \in Nat : n + 1 <= N => f[n + 1] = NamedWith(f[n], ids[n + 1])
<1>1. \A n \in 0 .. N : f[n] = IF n = 0 THEN <<>> ELSE NamedWith(f[n - 1], ids[n])
  BY DEF IsNaming
<1>2. ASSUME NEW n \in Nat, n + 1 <= N PROVE f[n + 1] = NamedWith(f[n], ids[n + 1])
  <2>1. n + 1 \in 0 .. N /\ n + 1 # 0 /\ (n + 1) - 1 = n BY <1>2
  <2>2. QED BY <1>1, <2>1
<1>3. QED BY <1>1, <1>2

LEMMA NamingExists ==
    ASSUME NEW ids
    PROVE  \A N \in Nat : \E f : IsNaming(f, N, ids)
<1> DEFINE S == {N \in Nat : \E f : IsNaming(f, N, ids)}
<1> DEFINE After(seen, n) == NamedWith(seen, ids[n])
<1>1. 0 \in S
  <2>1. [n \in 0 .. 0 |-> <<>>] =
          [n \in 0 .. 0 |-> IF n = 0 THEN <<>> ELSE After([k \in 0 .. 0 |-> <<>>][n - 1], n)]
    OBVIOUS
  <2>2. IsNaming([n \in 0 .. 0 |-> <<>>], 0, ids) BY <2>1 DEF IsNaming
  <2>3. QED BY <2>2
<1>2. ASSUME NEW N \in Nat, N \in S PROVE N + 1 \in S
  <2>1. PICK f : IsNaming(f, N, ids) BY <1>2
  <2> DEFINE g == [n \in 0 .. N + 1 |-> IF n = N + 1 THEN After(f[N], n) ELSE f[n]]
  <2>2. \A n \in 0 .. N : g[n] = f[n] OBVIOUS
  <2>3. g[N + 1] = After(f[N], N + 1) OBVIOUS
  <2>4. f[0] = <<>> /\ \A n \in Nat : n + 1 <= N => f[n + 1] = After(f[n], n + 1)
    BY <2>1, NamingSteps
  <2> HIDE DEF g
  <2> HIDE DEF After
  <2>6. ASSUME NEW n \in 0 .. N + 1 PROVE g[n] = IF n = 0 THEN <<>> ELSE After(g[n - 1], n)
    <3>1. CASE n = 0 BY <2>2, <2>4, <3>1
    <3>2. CASE n = N + 1
      <4>1. g[n - 1] = f[N] /\ n # 0 BY <2>2, <3>2
      <4>2. QED BY <2>3, <3>2, <4>1
    <3>3. CASE n # 0 /\ n # N + 1
      <4>1. n - 1 \in Nat /\ (n - 1) + 1 <= N /\ (n - 1) + 1 = n /\ n \in 0 .. N /\ n - 1 \in 0 .. N
        BY <3>3
      <4>2. f[(n - 1) + 1] = After(f[n - 1], (n - 1) + 1) BY <2>4, <4>1
      <4>3. f[n] = After(f[n - 1], n) BY <4>1, <4>2
      <4>4. QED BY <2>2, <3>3, <4>1, <4>3
    <3>4. QED BY <3>1, <3>2, <3>3
  <2>7. IsNaming(g, N + 1, ids)
    <3>1. g = [n \in 0 .. N + 1 |-> g[n]] BY DEF g
    <3>2. [n \in 0 .. N + 1 |-> g[n]] =
            [n \in 0 .. N + 1 |-> IF n = 0 THEN <<>> ELSE After(g[n - 1], n)]
      BY <2>6
    <3>3. QED BY <3>1, <3>2 DEF IsNaming, After
  <2>8. QED BY <2>7
<1>3. \A n \in Nat : n \in S => n + 1 \in S BY <1>2
<1>4. \A n \in Nat : n \in S BY <1>1, <1>3, SetInduction
<1>5. QED BY <1>4

\* One step of it.
LEMMA NamedOnce ==
    ASSUME NEW F, NEW seen \in Seq(F), NEW id \in F, Unrepeated(seen)
    PROVE  NamedWith(seen, id) \in Seq(F) /\ Unrepeated(NamedWith(seen, id))
<1>1. CASE Contexts!Contains(seen, id) BY <1>1 DEF NamedWith
<1>2. CASE ~Contexts!Contains(seen, id)
  <2>1. \A n \in 1 .. Len(seen) : seen[n] # id BY <1>2 DEF Contexts!Contains
  <2>2. PICK new : new = Append(seen, id) OBVIOUS
  <2>3. new \in Seq(F) /\ Len(new) = Len(seen) + 1 /\ new[Len(seen) + 1] = id
        /\ \A n \in 1 .. Len(seen) : new[n] = seen[n]
    BY <2>2
  <2>4. Unrepeated(new) BY <2>1, <2>3 DEF Unrepeated
  <2>5. QED BY <1>2, <2>2, <2>3, <2>4 DEF NamedWith
<1>3. QED BY <1>1, <1>2

LEMMA SequencesAgree ==
    ASSUME NEW F, NEW s \in Seq(F), NEW t \in Seq(F), Len(s) = Len(t),
           \A n \in 1 .. Len(s) : s[n] = t[n]
    PROVE  s = t
<1>1. DOMAIN s = 1 .. Len(s) /\ DOMAIN t = 1 .. Len(t) OBVIOUS
<1>2. s = [n \in 1 .. Len(s) |-> s[n]] /\ t = [n \in 1 .. Len(t) |-> t[n]] OBVIOUS
<1>3. [n \in 1 .. Len(s) |-> s[n]] = [n \in 1 .. Len(t) |-> t[n]] OBVIOUS
<1>4. QED BY <1>2, <1>3

\* What is resolved is each id once; naming all of them twice changes nothing.
LEMMA ResolvedOnce ==
    ASSUME NEW F, NEW ids \in Seq(F)
    PROVE  \E named \in Seq(F) :
              /\ Contexts!resolveResearchContexts(ids) =
                    [n \in DOMAIN named |-> Contexts!resolveResearchContext(named[n])]
              /\ Unrepeated(named)
              /\ \A s \in Seq(F) : ids = s \o s /\ Unrepeated(s) => named = s
<1> DEFINE N == Len(ids)
<1> DEFINE Naming(f) == IsNaming(f, N, ids)
<1> DEFINE once == CHOOSE f : Naming(f)
<1>1. N \in Nat OBVIOUS
<1>2. \E f : Naming(f) BY <1>1, NamingExists
<1>3. Naming(once) BY <1>2, Zenon
<1>4. Contexts!resolveResearchContexts(ids) =
        [n \in DOMAIN once[N] |-> Contexts!resolveResearchContext(once[N][n])]
  BY DEF Contexts!resolveResearchContexts, IsNaming, NamedWith
<1>5. once[0] = <<>> /\ \A n \in Nat : n + 1 <= N => once[n + 1] = NamedWith(once[n], ids[n + 1])
  BY <1>1, <1>3, NamingSteps
<1> HIDE DEF once
<1> DEFINE S == {n \in Nat : n <= N => once[n] \in Seq(F) /\ Unrepeated(once[n])}
<1>6. 0 \in S
  <2>1. <<>> \in Seq(F) /\ Unrepeated(<<>>) BY DEF Unrepeated
  <2>2. once[0] \in Seq(F) /\ Unrepeated(once[0]) BY <1>5, <2>1
  <2>3. QED BY <2>2
<1>7. ASSUME NEW n \in Nat, n \in S PROVE n + 1 \in S
  <2>1. SUFFICES ASSUME n + 1 <= N PROVE once[n + 1] \in Seq(F) /\ Unrepeated(once[n + 1]) OBVIOUS
  <2>2. once[n] \in Seq(F) /\ Unrepeated(once[n]) /\ n + 1 \in 1 .. N BY <1>7, <2>1
  <2>3. ids[n + 1] \in F BY <2>2
  <2>4. NamedWith(once[n], ids[n + 1]) \in Seq(F) /\ Unrepeated(NamedWith(once[n], ids[n + 1]))
    BY <2>2, <2>3, NamedOnce
  <2>5. QED BY <1>5, <2>1, <2>4
<1>8. \A n \in Nat : n \in S BY <1>6, <1>7, SetInduction
<1>9. once[N] \in Seq(F) /\ Unrepeated(once[N])
  <2>1. N \in S /\ N <= N BY <1>1, <1>8
  <2>2. QED BY <2>1
<1>10. ASSUME NEW s \in Seq(F), ids = s \o s, Unrepeated(s) PROVE once[N] = s
  <2> DEFINE M == Len(s)
  <2>1. M \in Nat /\ N = M + M /\ \A n \in 1 .. M : ids[n] = s[n] /\ ids[M + n] = s[n] BY <1>10
  <2> DEFINE P == {n \in Nat : /\ n <= M => once[n] \in Seq(F) /\ Len(once[n]) = n
                                            /\ \A i \in 1 .. n : once[n][i] = s[i]
                               /\ M <= n /\ n <= N => once[n] = s}
  <2>2. 0 \in P
    <3>1. once[0] = <<>> /\ <<>> \in Seq(F) BY <1>5
    <3>2. 0 \in Nat /\ once[0] \in Seq(F) /\ Len(once[0]) = 0 BY <3>1
    <3>3. ASSUME M = 0 PROVE s = <<>>
      <4>1. <<>> \in Seq(F) /\ Len(<<>>) = 0 OBVIOUS
      <4>2. \A n \in 1 .. Len(s) : s[n] = <<>>[n] BY <3>3
      <4>3. QED BY <3>3, <4>1, <4>2, SequencesAgree
    <3>4. M <= 0 => once[0] = s BY <2>1, <3>1, <3>3
    <3>5. \A i \in 1 .. 0 : once[0][i] = s[i] OBVIOUS
    <3>6. QED BY <3>2, <3>4, <3>5
  <2>3. ASSUME NEW n \in Nat, n \in P PROVE n + 1 \in P
    <3> DEFINE new == NamedWith(once[n], ids[n + 1])
    <3>1. CASE n + 1 <= M
      <4>1. once[n] \in Seq(F) /\ Len(once[n]) = n /\ \A i \in 1 .. n : once[n][i] = s[i]
        BY <2>3, <3>1
      <4>2. n + 1 \in 1 .. M /\ ids[n + 1] = s[n + 1] /\ s[n + 1] \in F BY <2>1, <3>1
      <4>3. \A i \in 1 .. n : once[n][i] # s[n + 1]
        BY <1>10, <2>1, <4>1, <4>2 DEF Unrepeated
      <4>4. new = Append(once[n], s[n + 1])
        BY <4>1, <4>2, <4>3 DEF NamedWith, Contexts!Contains
      <4>5. new \in Seq(F) /\ Len(new) = n + 1 /\ \A i \in 1 .. n + 1 : new[i] = s[i]
        <5>1. PICK t : t = Append(once[n], s[n + 1]) OBVIOUS
        <5>2. t \in Seq(F) /\ Len(t) = n + 1 /\ t[n + 1] = s[n + 1]
              /\ \A i \in 1 .. n : t[i] = once[n][i]
          BY <4>1, <4>2, <5>1
        <5>3. \A i \in 1 .. n + 1 : t[i] = s[i] BY <4>1, <5>2
        <5>4. QED BY <4>4, <5>1, <5>2, <5>3
      <4>6. once[n + 1] = new BY <1>5, <2>1, <3>1
      <4> HIDE DEF new
      <4>7. M = n + 1 => new = s BY <4>5, <2>1, SequencesAgree
      <4>8. QED BY <3>1, <4>5, <4>6, <4>7
    <3>2. CASE M <= n /\ n + 1 <= N
      <4>1. once[n] = s BY <2>3, <3>2
      <4>2. n + 1 - M \in 1 .. M /\ M + (n + 1 - M) = n + 1 BY <2>1, <3>2
      <4>3. ids[n + 1] = s[n + 1 - M] BY <2>1, <4>2
      <4>4. new = s BY <4>1, <4>2, <4>3 DEF NamedWith, Contexts!Contains
      <4>5. once[n + 1] = new BY <1>5, <3>2
      <4>6. QED BY <3>2, <4>4, <4>5, <2>1
    <3>3. CASE ~(n + 1 <= M) /\ ~(M <= n /\ n + 1 <= N) BY <2>1, <3>3
    <3>4. QED BY <3>1, <3>2, <3>3
  <2>4. \A n \in Nat : n \in P BY <2>2, <2>3, SetInduction
  <2>5. N \in P /\ M <= N /\ N <= N BY <1>1, <2>1, <2>4
  <2>6. QED BY <2>5
<1>11. QED BY <1>4, <1>9, <1>10

\* What holds of the artifacts, the jobs and what the runtime was told.
IsASequence(s) == \E S : s \in Seq(S)

\* The research of a workspace that a job may name.
FoundIn(ws) == {id \in DOMAIN artifactStore : Contexts!found(ws, id, "research_context")}
ResearchOf(ws) == {Contexts!resolveResearchContext(id) : id \in FoundIn(ws)}

\* The images that answers reported in it.
ImagesOf(ws) == {r.reference : r \in {s \in reported :
                    s.workspace = ws /\ s.reference.kind = "image_generation"}}

IdsDiffer(references) ==
    \A m, n \in 1 .. Len(references) : references[m].id = references[n].id => m = n

\* Whatever is stored was reported as a reference says that is made of it.
AllReported == \A id \in DOMAIN artifactStore :
    [workspace |-> artifactStore[id].workspace,
     reference |-> Contexts!reference(id, artifactStore[id].content)] \in reported

\* A job has references of its own workspace, and a retry those of its original.
JobHas(j) ==
    /\ contextJobs[j].research \in Seq(ResearchOf(contextJobs[j].workspace))
    /\ IdsDiffer(contextJobs[j].research)
    /\ contextJobs[j].images \in Seq(ImagesOf(contextJobs[j].workspace))
    /\ contextJobs[j].of # 0 =>
        /\ contextJobs[j].of \in DOMAIN contextJobs
        /\ contextJobs[contextJobs[j].of].research = contextJobs[j].research
        /\ contextJobs[contextJobs[j].of].images = contextJobs[j].images

ContextInvariant ==
    /\ IsASequence(artifactStore) /\ IsASequence(contextJobs) /\ IsASequence(prompts)
    /\ Len(prompts) = Len(contextJobs)
    /\ AllReported
    /\ \A j \in DOMAIN contextJobs :
        /\ JobHas(j)
        /\ prompts[j] \in {Contexts!NoPrompt, Contexts!capabilityArtifactPromptBlock(contextJobs[j])}

IsAppended(new, s, e) ==
    /\ IsASequence(new) /\ Len(s) \in Nat /\ Len(new) = Len(s) + 1
    /\ DOMAIN s = 1 .. Len(s) /\ DOMAIN new = 1 .. Len(new)
    /\ \A n \in 1 .. Len(s) : new[n] = s[n]
    /\ new[Len(s) + 1] = e

LEMMA SequenceGrows ==
    ASSUME NEW s, IsASequence(s), NEW e
    PROVE  IsAppended(Append(s, e), s, e)
<1>1. PICK S : s \in Seq(S) BY DEF IsASequence
<1>2. s \in Seq(S \cup {e}) BY <1>1
<1>3. PICK new : new = Append(s, e) OBVIOUS
<1>4. new \in Seq(S \cup {e}) /\ Len(new) = Len(s) + 1 /\ new[Len(s) + 1] = e
      /\ \A n \in 1 .. Len(s) : new[n] = s[n]
  BY <1>2, <1>3
<1>5. IsAppended(new, s, e) BY <1>2, <1>4 DEF IsASequence, IsAppended
<1>6. QED BY <1>3, <1>5

\* What a reference of stored research says.
LEMMA ResolvesTo ==
    ASSUME NEW ws, NEW id \in FoundIn(ws), NEW r, r = Contexts!resolveResearchContext(id)
    PROVE  /\ r.id = id /\ r.provenance = "none"
           /\ LET said == Contexts!reference(id, artifactStore[id].content)
              IN  said.id = id /\ said.review = r.review /\ said.sources = r.sources
<1> DEFINE content == artifactStore[id].content
<1>2. content.kind = "research_context" BY DEF FoundIn, Contexts!found
<1>3. Contexts!reference(id, content) =
        [id |-> id, kind |-> content.kind, review |-> content.review,
         sources |-> content.sources, provenance |-> Contexts!provenance(content)]
  BY <1>2 DEF Contexts!reference
<1>4. PICK none : none = "none" OBVIOUS
<1>5. PICK said : said = Contexts!reference(id, content) OBVIOUS
<1>6. r = [said EXCEPT !.provenance = none]
  BY <1>4, <1>5 DEF Contexts!resolveResearchContext, Contexts!None
<1>7. r.id = id /\ r.review = said.review /\ r.sources = said.sources /\ r.provenance = none /\ said.id = id
  BY <1>3, <1>5, <1>6
<1>8. QED BY <1>4, <1>5, <1>7

LEMMA ResearchIs ==
    ASSUME NEW ws, NEW r \in ResearchOf(ws)
    PROVE  /\ r.id \in FoundIn(ws) /\ r = Contexts!resolveResearchContext(r.id)
           /\ r.provenance = "none"
           /\ LET said == Contexts!reference(r.id, artifactStore[r.id].content)
              IN  said.id = r.id /\ said.review = r.review /\ said.sources = r.sources
<1>1. PICK id \in FoundIn(ws) : r = Contexts!resolveResearchContext(id) BY DEF ResearchOf
<1>2. /\ r.id = id /\ r.provenance = "none"
      /\ LET said == Contexts!reference(id, artifactStore[id].content)
         IN  said.id = id /\ said.review = r.review /\ said.sources = r.sources
  BY <1>1, ResolvesTo
<1>3. QED BY <1>1, <1>2

\* The lines of a prompt are as reported.
LEMMA ResearchLines ==
    ASSUME AllReported, NEW ws, NEW r \in ResearchOf(ws)
    PROVE  /\ Contexts!researchLine(r).id = r.id
           /\ \E report \in {s \in reported : s.workspace = ws} :
                Contexts!AsReported(Contexts!researchLine(r), report)
<1>1. /\ r.id \in FoundIn(ws) /\ r.provenance = "none"
      /\ LET said == Contexts!reference(r.id, artifactStore[r.id].content)
         IN  said.id = r.id /\ said.review = r.review /\ said.sources = r.sources
  BY ResearchIs
<1>2. PICK said : said = Contexts!reference(r.id, artifactStore[r.id].content) OBVIOUS
<1>3. [workspace |-> ws, reference |-> said] \in reported
  BY <1>1, <1>2 DEF AllReported, FoundIn, Contexts!found
<1>4. Contexts!researchLine(r) =
        [id |-> r.id, says |-> "cited", review |-> r.review, sources |-> r.sources]
  BY <1>1 DEF Contexts!researchLine
<1>5. Contexts!AsReported(Contexts!researchLine(r), [workspace |-> ws, reference |-> said])
  BY <1>1, <1>2, <1>4 DEF Contexts!AsReported
<1>6. QED BY <1>3, <1>4, <1>5

LEMMA ImageLines ==
    ASSUME NEW ws, NEW asset \in ImagesOf(ws)
    PROVE  \E report \in {s \in reported : s.workspace = ws} :
                Contexts!AsReported(Contexts!imageLine(asset), report)
<1>1. PICK report \in reported : report.workspace = ws /\ report.reference = asset BY DEF ImagesOf
<1>2. CASE asset.provider = "mock"
  <2>1. Contexts!imageLine(asset) = [id |-> asset.id, says |-> "placeholder"]
    BY <1>2 DEF Contexts!imageLine
  <2>2. Contexts!AsReported(Contexts!imageLine(asset), report) BY <1>1, <2>1 DEF Contexts!AsReported
  <2>3. QED BY <1>1, <2>2
<1>3. CASE asset.provider # "mock"
  <2>1. Contexts!imageLine(asset) =
          [id |-> asset.id, says |-> "available", provider |-> asset.provider, safety |-> asset.safety]
    BY <1>3 DEF Contexts!imageLine
  <2>2. Contexts!AsReported(Contexts!imageLine(asset), report) BY <1>1, <2>1 DEF Contexts!AsReported
  <2>3. QED BY <1>1, <2>2
<1>4. QED BY <1>2, <1>3

\* Three references at most are told, the first ones.
LEMMA ToldIs ==
    ASSUME NEW F, NEW s \in Seq(F)
    PROVE  /\ Contexts!Told(s) \in Seq(F) /\ Len(Contexts!Told(s)) <= Len(s)
           /\ DOMAIN Contexts!Told(s) = 1 .. Len(Contexts!Told(s))
           /\ \A n \in 1 .. Len(Contexts!Told(s)) : Contexts!Told(s)[n] = s[n]
<1>0. Len(s) \in Nat OBVIOUS
<1>1. PICK k \in Nat : k = (IF Len(s) < 3 THEN Len(s) ELSE 3) /\ k <= Len(s)
  <2>1. CASE Len(s) < 3 BY <1>0, <2>1
  <2>2. CASE ~(Len(s) < 3) BY <1>0, <2>2
  <2>3. QED BY <2>1, <2>2
<1>2. PICK t : t = SubSeq(s, 1, k) OBVIOUS
<1>3. Contexts!Told(s) = t BY <1>1, <1>2 DEF Contexts!Told
<1>4. t \in Seq(F) /\ Len(t) = k /\ \A n \in 1 .. k : t[n] = s[n] BY <1>0, <1>1, <1>2
<1>5. DOMAIN t = 1 .. Len(t) BY <1>4
<1>6. QED BY <1>1, <1>3, <1>4, <1>5

LEMMA ContextsTrue == ContextInvariant => Contexts!ContextsAsReported
<1> SUFFICES ASSUME ContextInvariant, NEW j \in DOMAIN prompts, prompts[j] # Contexts!NoPrompt
             PROVE  LET job == contextJobs[j]
                        own == {r \in reported : r.workspace = job.workspace}
                        lines == prompts[j].research
                    IN /\ \A line \in Contexts!ToSet(lines) \cup Contexts!ToSet(prompts[j].images) :
                            \E report \in own : Contexts!AsReported(line, report)
                       /\ \A m, n \in DOMAIN lines : lines[m].id = lines[n].id => m = n
                       /\ job.of # 0 => prompts[job.of] \in {Contexts!NoPrompt, prompts[j]}
  BY DEF Contexts!ContextsAsReported
<1>1. DOMAIN prompts = DOMAIN contextJobs
  <2>1. PICK S : prompts \in Seq(S) BY DEF ContextInvariant, IsASequence
  <2>2. PICK T : contextJobs \in Seq(T) BY DEF ContextInvariant, IsASequence
  <2>3. QED BY <2>1, <2>2 DEF ContextInvariant
<1>2. JobHas(j) /\ prompts[j] = Contexts!capabilityArtifactPromptBlock(contextJobs[j])
  BY <1>1 DEF ContextInvariant
<1> DEFINE ws == contextJobs[j].workspace
<1>3. PICK research \in Seq(ResearchOf(ws)) : research = contextJobs[j].research BY <1>2 DEF JobHas
<1>4. PICK images \in Seq(ImagesOf(ws)) : images = contextJobs[j].images BY <1>2 DEF JobHas
<1>5. PICK cited \in Seq(ResearchOf(ws)) :
        /\ cited = Contexts!Told(research) /\ DOMAIN cited = 1 .. Len(cited) /\ Len(cited) <= Len(research)
        /\ \A n \in 1 .. Len(cited) : cited[n] = research[n]
  BY ToldIs
<1>6. PICK shown \in Seq(ImagesOf(ws)) :
        shown = Contexts!Told(images) /\ DOMAIN shown = 1 .. Len(shown)
  BY ToldIs
<1>7. prompts[j] = [research |-> [n \in DOMAIN cited |-> Contexts!researchLine(cited[n])],
                    images |-> [n \in DOMAIN shown |-> Contexts!imageLine(shown[n])]]
  BY <1>2, <1>3, <1>4, <1>5, <1>6 DEF Contexts!capabilityArtifactPromptBlock
<1> DEFINE own == {r \in reported : r.workspace = ws}
<1>8. ASSUME NEW line \in Contexts!ToSet(prompts[j].research)
      PROVE  \E report \in own : Contexts!AsReported(line, report)
  <2>1. PICK n \in DOMAIN cited : line = Contexts!researchLine(cited[n]) BY <1>7 DEF Contexts!ToSet
  <2>2. cited[n] \in ResearchOf(ws) BY <1>5
  <2>3. QED BY <2>1, <2>2, ResearchLines DEF ContextInvariant
<1>9. ASSUME NEW line \in Contexts!ToSet(prompts[j].images)
      PROVE  \E report \in own : Contexts!AsReported(line, report)
  <2>1. PICK n \in DOMAIN shown : line = Contexts!imageLine(shown[n]) BY <1>7 DEF Contexts!ToSet
  <2>2. shown[n] \in ImagesOf(ws) BY <1>6
  <2>3. QED BY <2>1, <2>2, ImageLines
<1>10. ASSUME NEW m \in DOMAIN prompts[j].research, NEW n \in DOMAIN prompts[j].research,
              prompts[j].research[m].id = prompts[j].research[n].id
       PROVE  m = n
  <2>1. m \in DOMAIN cited /\ n \in DOMAIN cited BY <1>7
  <2>2. cited[m] \in ResearchOf(ws) /\ cited[n] \in ResearchOf(ws) BY <1>5, <2>1
  <2>3. /\ prompts[j].research[m] = Contexts!researchLine(cited[m])
        /\ prompts[j].research[n] = Contexts!researchLine(cited[n])
    BY <1>7, <2>1
  <2>4. prompts[j].research[m].id = cited[m].id /\ prompts[j].research[n].id = cited[n].id
    <3>1. AllReported BY DEF ContextInvariant
    <3>2. \A r \in ResearchOf(ws) : Contexts!researchLine(r).id = r.id BY <3>1, ResearchLines
    <3>3. QED BY <2>3, <2>2, <3>2
  <2>5. /\ Len(cited) \in Nat /\ Len(research) \in Nat
        /\ m \in 1 .. Len(cited) /\ n \in 1 .. Len(cited)
    BY <1>5, <2>1
  <2>6. cited[m] = research[m] /\ cited[n] = research[n] BY <1>5, <2>5
  <2>7. cited[m].id = cited[n].id BY <1>10, <2>4
  <2>8. research[m].id = research[n].id BY <2>6, <2>7
  <2>9. m \in 1 .. Len(research) /\ n \in 1 .. Len(research) BY <1>5, <2>5
  <2>10. QED BY <1>2, <1>3, <2>9, <2>8 DEF JobHas, IdsDiffer
<1>11. ASSUME contextJobs[j].of # 0 PROVE prompts[contextJobs[j].of] \in {Contexts!NoPrompt, prompts[j]}
  <2> DEFINE o == contextJobs[j].of
  <2>1. /\ o \in DOMAIN contextJobs /\ contextJobs[o].research = contextJobs[j].research
        /\ contextJobs[o].images = contextJobs[j].images
    BY <1>2, <1>11 DEF JobHas
  <2>2. Contexts!capabilityArtifactPromptBlock(contextJobs[o]) =
          Contexts!capabilityArtifactPromptBlock(contextJobs[j])
    BY <2>1 DEF Contexts!capabilityArtifactPromptBlock
  <2>3. QED BY <1>2, <2>1, <2>2 DEF ContextInvariant
<1>12. QED BY <1>8, <1>9, <1>10, <1>11

\* Storing an artifact takes nothing back.
LEMMA MoreStored ==
    ASSUME ContextInvariant, NEW ws, NEW content, Contexts!put(ws, content)
    PROVE  ContextInvariant'
<1> DEFINE artifact == [workspace |-> ws, content |-> content]
<1>1. /\ artifactStore' = Append(artifactStore, artifact)
      /\ reported' = reported \cup
            {[workspace |-> ws, reference |-> Contexts!reference(Len(artifactStore'), content)]}
      /\ UNCHANGED <<executor, contextJobs, prompts>>
  BY DEF Contexts!put
<1>2. PICK item : item = artifact OBVIOUS
<1>3. PICK store : store = artifactStore' /\ store = Append(artifactStore, item) BY <1>1, <1>2
<1>4. IsASequence(artifactStore) BY DEF ContextInvariant
<1>5. /\ IsASequence(store) /\ Len(artifactStore) \in Nat /\ Len(store) = Len(artifactStore) + 1
      /\ DOMAIN artifactStore = 1 .. Len(artifactStore) /\ DOMAIN store = 1 .. Len(store)
      /\ \A n \in 1 .. Len(artifactStore) : store[n] = artifactStore[n]
      /\ store[Len(artifactStore) + 1] = item
  <2>1. IsAppended(store, artifactStore, item) BY <1>3, <1>4, SequenceGrows
  <2>2. QED BY <2>1 DEF IsAppended
<1>6. IsASequence(artifactStore)' /\ IsASequence(contextJobs)' /\ IsASequence(prompts)'
  BY <1>1, <1>3, <1>5 DEF ContextInvariant, IsASequence
<1>7. AllReported'
  <2>1. ASSUME NEW id \in DOMAIN store
        PROVE  [workspace |-> store[id].workspace, reference |-> Contexts!reference(id, store[id].content)]
                  \in reported'
    <3>1. CASE id \in 1 .. Len(artifactStore)
      <4>1. store[id] = artifactStore[id] /\ id \in DOMAIN artifactStore BY <1>5, <3>1
      <4>2. [workspace |-> artifactStore[id].workspace,
             reference |-> Contexts!reference(id, artifactStore[id].content)] \in reported
        BY <4>1 DEF ContextInvariant, AllReported
      <4>3. QED BY <1>1, <4>1, <4>2
    <3>2. CASE id = Len(store) BY <1>1, <1>3, <1>5, <1>2, <3>2
    <3>3. QED BY <1>5, <3>1, <3>2
  <2>2. QED BY <1>3, <2>1 DEF AllReported
<1>8. ASSUME NEW w PROVE ResearchOf(w) \subseteq ResearchOf(w)' /\ ImagesOf(w) \subseteq ImagesOf(w)'
  <2>1. ASSUME NEW id \in FoundIn(w)
        PROVE  id \in FoundIn(w)'
               /\ Contexts!resolveResearchContext(id)' = Contexts!resolveResearchContext(id)
    <3>1. id \in DOMAIN artifactStore /\ id \in DOMAIN store /\ store[id] = artifactStore[id]
      BY <1>5 DEF FoundIn
    <3>2. id \in FoundIn(w)' BY <1>3, <3>1 DEF FoundIn, Contexts!found
    <3>3. artifactStore'[id].content = artifactStore[id].content BY <1>3, <3>1
    <3>4. QED BY <3>2, <3>3 DEF Contexts!resolveResearchContext
  <2>2. ResearchOf(w) \subseteq ResearchOf(w)'
    <3>1. ASSUME NEW r \in ResearchOf(w) PROVE r \in ResearchOf(w)'
      <4>1. PICK id \in FoundIn(w) : r = Contexts!resolveResearchContext(id) BY DEF ResearchOf
      <4>2. QED BY <2>1, <4>1 DEF ResearchOf
    <3>2. QED BY <3>1
  <2>3. ImagesOf(w) \subseteq ImagesOf(w)' BY <1>1 DEF ImagesOf
  <2>4. QED BY <2>2, <2>3
<1>9. ASSUME NEW j \in DOMAIN contextJobs PROVE JobHas(j)'
  <2>1. PICK job : job = contextJobs[j] OBVIOUS
  <2>2. JobHas(j) /\ contextJobs' = contextJobs BY <1>1 DEF ContextInvariant
  <2>3. job.research \in Seq(ResearchOf(job.workspace)) /\ job.images \in Seq(ImagesOf(job.workspace))
    BY <2>1, <2>2 DEF JobHas
  <2>4. ResearchOf(job.workspace) \subseteq ResearchOf(job.workspace)'
        /\ ImagesOf(job.workspace) \subseteq ImagesOf(job.workspace)'
    BY <1>8
  <2>5. \A S, T : S \subseteq T => Seq(S) \subseteq Seq(T) OBVIOUS
  <2>6. job.research \in Seq(ResearchOf(job.workspace)') /\ job.images \in Seq(ImagesOf(job.workspace)')
    BY <2>3, <2>4, <2>5
  <2>7. QED BY <2>1, <2>2, <2>6 DEF JobHas
<1>10. QED BY <1>1, <1>6, <1>7, <1>9 DEF ContextInvariant

LEMMA MappedSequence ==
    ASSUME NEW F, NEW s \in Seq(F), NEW T, NEW t \in [DOMAIN s -> T]
    PROVE  t \in Seq(T) /\ Len(t) = Len(s)
<1>1. DOMAIN s = 1 .. Len(s) /\ Len(s) \in Nat OBVIOUS
<1>2. t \in [1 .. Len(s) -> T] BY <1>1
<1>3. QED BY <1>1, <1>2

\* A job is created: its research is resolved, each context once.
LEMMA MoreJobs ==
    ASSUME ContextInvariant, NEW ws, NEW ids \in Seq(FoundIn(ws)), NEW images \in Seq(ImagesOf(ws)),
           NEW intake, NEW original, Contexts!createJob(ws, ids, images, intake, original),
           original # 0 =>
              /\ original \in DOMAIN contextJobs /\ contextJobs[original].workspace = ws
              /\ ids = Contexts!Ids(contextJobs[original].research)
                          \o Contexts!Ids(contextJobs[original].research)
              /\ images = contextJobs[original].images
    PROVE  ContextInvariant'
<1> DEFINE resolve(id) == Contexts!resolveResearchContext(id)
<1>1. PICK named \in Seq(FoundIn(ws)) :
        /\ Contexts!resolveResearchContexts(ids) = [n \in DOMAIN named |-> resolve(named[n])]
        /\ Unrepeated(named)
        /\ \A s \in Seq(FoundIn(ws)) : ids = s \o s /\ Unrepeated(s) => named = s
  BY ResolvedOnce
<1>2. PICK research : research = Contexts!resolveResearchContexts(ids) OBVIOUS
<1>3. \A id \in FoundIn(ws) : resolve(id) \in ResearchOf(ws) BY DEF ResearchOf
<1>4. /\ research \in Seq(ResearchOf(ws)) /\ Len(research) = Len(named)
      /\ \A n \in 1 .. Len(named) : research[n] = resolve(named[n])
  <2>1. DOMAIN named = 1 .. Len(named) /\ \A n \in 1 .. Len(named) : named[n] \in FoundIn(ws) OBVIOUS
  <2>2. research = [n \in DOMAIN named |-> resolve(named[n])] BY <1>1, <1>2
  <2> HIDE DEF resolve
  <2>3. research \in [DOMAIN named -> ResearchOf(ws)] BY <1>3, <2>1, <2>2
  <2>4. research \in Seq(ResearchOf(ws)) /\ Len(research) = Len(named) BY <2>3, MappedSequence
  <2>5. QED BY <2>1, <2>2, <2>4
<1>5. IdsDiffer(research)
  <2>1. ASSUME NEW n \in 1 .. Len(research) PROVE research[n].id = named[n]
    <3>1. named[n] \in FoundIn(ws) /\ research[n] = resolve(named[n]) BY <1>4
    <3>2. QED BY <3>1, ResolvesTo
  <2>2. ASSUME NEW m \in 1 .. Len(research), NEW n \in 1 .. Len(research),
               research[m].id = research[n].id
        PROVE  m = n
    <3>1. named[m] = named[n] BY <2>1, <2>2
    <3>2. QED BY <1>1, <1>4, <3>1 DEF Unrepeated
  <2>3. QED BY <2>2 DEF IdsDiffer
<1>6. ASSUME original # 0 PROVE research = contextJobs[original].research
  <2> DEFINE had == contextJobs[original].research
  <2>1. JobHas(original) /\ contextJobs[original].workspace = ws BY <1>6 DEF ContextInvariant
  <2>2. had \in Seq(ResearchOf(ws)) /\ IdsDiffer(had) BY <2>1 DEF JobHas
  <2>3. \A r \in ResearchOf(ws) : r.id \in FoundIn(ws) /\ r = resolve(r.id) BY ResearchIs
  <2> HIDE DEF had
  <2>4. PICK s : s = Contexts!Ids(had) OBVIOUS
  <2>5. s \in Seq(FoundIn(ws)) /\ Len(s) = Len(had) /\ \A n \in 1 .. Len(had) : s[n] = had[n].id
    <3>1. DOMAIN had = 1 .. Len(had) /\ \A n \in 1 .. Len(had) : had[n] \in ResearchOf(ws) BY <2>2
    <3>2. s = [n \in DOMAIN had |-> had[n].id] BY <2>4 DEF Contexts!Ids
    <3>3. s \in [DOMAIN had -> FoundIn(ws)] BY <2>3, <3>1, <3>2
    <3>4. s \in Seq(FoundIn(ws)) /\ Len(s) = Len(had) BY <2>2, <3>3, MappedSequence
    <3>5. QED BY <3>1, <3>2, <3>4
  <2>6. Unrepeated(s) BY <2>2, <2>5 DEF Unrepeated, IdsDiffer
  <2>7. ids = s \o s BY <1>6, <2>4 DEF had
  <2>8. named = s BY <1>1, <2>5, <2>6, <2>7
  <2>9. \A n \in 1 .. Len(research) : research[n] = had[n]
    <3>1. ASSUME NEW n \in 1 .. Len(research) PROVE research[n] = had[n]
      <4>1. n \in 1 .. Len(had) /\ research[n] = resolve(had[n].id) BY <1>4, <2>5, <2>8
      <4>2. had[n] \in ResearchOf(ws) BY <2>2, <4>1
      <4>3. QED BY <2>3, <4>1, <4>2
    <3>2. QED BY <3>1
  <2>10. Len(research) = Len(had) BY <1>4, <2>5, <2>8
  <2>11. research = had BY <1>4, <2>2, <2>9, <2>10, SequencesAgree
  <2>12. QED BY <2>11 DEF had
<1>7. PICK analysed :
        analysed = [n \in DOMAIN intake |->
                      Contexts!reference(intake[n], artifactStore[intake[n]].content)]
  OBVIOUS
<1>8. PICK job : job = [workspace |-> ws, research |-> research, images |-> images,
                        intake |-> analysed, of |-> original]
  OBVIOUS
<1>9. /\ contextJobs' = Append(contextJobs, job)
      /\ prompts' = Append(prompts, Contexts!NoPrompt)
      /\ UNCHANGED <<executor, artifactStore, reported>>
  BY <1>2, <1>7, <1>8 DEF Contexts!createJob
<1>10. PICK given : given = contextJobs' /\ given = Append(contextJobs, job) BY <1>9
<1>11. PICK lines : lines = prompts' /\ lines = Append(prompts, Contexts!NoPrompt) BY <1>9
<1>12. IsAppended(given, contextJobs, job) BY <1>10, SequenceGrows DEF ContextInvariant
<1>13. IsAppended(lines, prompts, Contexts!NoPrompt) BY <1>11, SequenceGrows DEF ContextInvariant
<1>14. /\ IsASequence(artifactStore)' /\ IsASequence(contextJobs)' /\ IsASequence(prompts)'
       /\ Len(lines) = Len(given) /\ AllReported'
  BY <1>9, <1>10, <1>11, <1>12, <1>13 DEF ContextInvariant, IsAppended, IsASequence, AllReported
<1>15. \A w : ResearchOf(w)' = ResearchOf(w) /\ ImagesOf(w)' = ImagesOf(w)
  BY <1>9 DEF ResearchOf, ImagesOf, FoundIn, Contexts!found, Contexts!resolveResearchContext
<1>16. ASSUME NEW j \in DOMAIN contextJobs
       PROVE  /\ JobHas(j)'
              /\ lines[j] \in {Contexts!NoPrompt, Contexts!capabilityArtifactPromptBlock(given[j])}
  <2>1. /\ given[j] = contextJobs[j] /\ lines[j] = prompts[j]
        /\ \A o \in DOMAIN contextJobs : o \in DOMAIN given /\ given[o] = contextJobs[o]
    BY <1>12, <1>13 DEF IsAppended, ContextInvariant
  <2>2. JobHas(j)
        /\ prompts[j] \in {Contexts!NoPrompt, Contexts!capabilityArtifactPromptBlock(contextJobs[j])}
    BY DEF ContextInvariant
  <2>3. JobHas(j)' BY <1>10, <1>15, <2>1, <2>2 DEF JobHas
  <2>4. QED BY <2>1, <2>2, <2>3
<1>17. ASSUME NEW j, j = Len(contextJobs) + 1
       PROVE  JobHas(j)' /\ lines[j] = Contexts!NoPrompt
  <2>1. given[j] = job /\ lines[j] = Contexts!NoPrompt
        /\ \A o \in DOMAIN contextJobs : o \in DOMAIN given /\ given[o] = contextJobs[o]
    BY <1>12, <1>13, <1>17 DEF IsAppended, ContextInvariant
  <2>2. /\ job.workspace = ws /\ job.research = research /\ job.images = images /\ job.of = original
    BY <1>8
  <2>3. JobHas(j)' BY <1>4, <1>5, <1>6, <1>10, <1>15, <2>1, <2>2 DEF JobHas
  <2>4. QED BY <2>1, <2>3
<1>18. DOMAIN given = DOMAIN contextJobs \cup {Len(contextJobs) + 1} BY <1>12 DEF IsAppended
<1>19. \A j \in DOMAIN given :
         JobHas(j)' /\ lines[j] \in {Contexts!NoPrompt, Contexts!capabilityArtifactPromptBlock(given[j])}
  BY <1>16, <1>17, <1>18
<1>20. QED BY <1>10, <1>11, <1>14, <1>19 DEF ContextInvariant

\* The jobs while nothing is stored.
LEMMA JobsStill ==
    ASSUME ContextInvariant, UNCHANGED <<artifactStore, reported, contextJobs>>
    PROVE  /\ IsASequence(artifactStore)' /\ IsASequence(contextJobs)' /\ AllReported'
           /\ \A j \in DOMAIN contextJobs : JobHas(j)'
<1>1. IsASequence(artifactStore)' /\ IsASequence(contextJobs)'
  BY DEF ContextInvariant, IsASequence
<1>2. AllReported' BY DEF ContextInvariant, AllReported
<1>3. \A w : ResearchOf(w)' = ResearchOf(w) /\ ImagesOf(w)' = ImagesOf(w)
  BY DEF ResearchOf, ImagesOf, FoundIn, Contexts!found, Contexts!resolveResearchContext
<1>4. ASSUME NEW j \in DOMAIN contextJobs PROVE JobHas(j)'
  <2>1. JobHas(j) BY DEF ContextInvariant
  <2>2. QED BY <1>3, <2>1 DEF JobHas
<1>5. QED BY <1>1, <1>2, <1>4

LEMMA ContextsStep ==
    ASSUME ContextInvariant, [Contexts!Next]_(Contexts!vars)
    PROVE  ContextInvariant'
<1>1. CASE UNCHANGED Contexts!vars
  <2>1. UNCHANGED <<artifactStore, reported, contextJobs>> /\ prompts' = prompts
    BY <1>1 DEF Contexts!vars
  <2>2. IsASequence(prompts)' BY <2>1 DEF ContextInvariant, IsASequence
  <2>3. QED BY <2>1, <2>2, JobsStill DEF ContextInvariant
<1>2. CASE \E ws \in Request : Contexts!analyzeDataIntake(ws)
  <2>1. \E ws, content : Contexts!put(ws, content) BY <1>2 DEF Contexts!analyzeDataIntake
  <2>2. QED BY <2>1, MoreStored
<1>3. CASE \E ws \in Request : Contexts!executeMcpInvocation(ws)
  <2>1. \E ws, content : Contexts!put(ws, content) BY <1>3 DEF Contexts!executeMcpInvocation
  <2>2. QED BY <2>1, MoreStored
<1>4. ASSUME NEW ws \in Request, Contexts!createDesignJob(ws) PROVE ContextInvariant'
  <2>1. PICK ids \in {<<>>} \cup {<<i>> : i \in Contexts!Id}
                       \cup {<<i, k>> : i \in Contexts!Id, k \in Contexts!Id},
             images \in {<<>>} \cup {<<r.reference>> : r \in {s \in reported :
                                s.workspace = ws /\ s.reference.kind = "image_generation"}},
             intake \in {<<>>} \cup {<<i>> : i \in Contexts!Id} :
          Contexts!createJob(ws, ids, images, intake, 0)
    BY <1>4 DEF Contexts!createDesignJob
  <2>2. \A n \in DOMAIN ids : Contexts!found(ws, ids[n], "research_context")
    BY <2>1 DEF Contexts!createJob
  <2>3. \A n \in DOMAIN ids : ids[n] \in FoundIn(ws) BY <2>2 DEF FoundIn, Contexts!found
  <2>4. PICK F : ids \in Seq(F)
    <3>1. CASE ids = <<>> BY <3>1
    <3>2. ASSUME NEW i \in Contexts!Id, ids = <<i>> PROVE ids \in Seq(Contexts!Id) BY <3>2
    <3>3. ASSUME NEW i \in Contexts!Id, NEW k \in Contexts!Id, ids = <<i, k>>
          PROVE  ids \in Seq(Contexts!Id)
      BY <3>3
    <3>4. QED BY <2>1, <3>1, <3>2, <3>3
  <2>5. ids \in Seq(FoundIn(ws))
    <3>1. ids = [n \in DOMAIN ids |-> ids[n]] BY <2>4
    <3>2. ids \in [DOMAIN ids -> FoundIn(ws)] BY <2>3, <3>1
    <3>3. QED BY <2>4, <3>2, MappedSequence
  <2>6. images \in Seq(ImagesOf(ws))
    <3>1. CASE images = <<>> BY <3>1
    <3>2. ASSUME NEW r \in reported, r.workspace = ws, r.reference.kind = "image_generation",
                 images = <<r.reference>>
          PROVE  images \in Seq(ImagesOf(ws))
      <4>1. r.reference \in ImagesOf(ws) BY <3>2 DEF ImagesOf
      <4>2. QED BY <3>2, <4>1
    <3>3. QED BY <2>1, <3>1, <3>2
  <2>7. QED BY <2>1, <2>5, <2>6, MoreJobs
<1>5. ASSUME NEW j \in DOMAIN contextJobs, Contexts!retryJobAsAdmin(j) PROVE ContextInvariant'
  <2> DEFINE job == contextJobs[j]
  <2>1. JobHas(j) BY DEF ContextInvariant
  <2>2. PICK ids : ids = Contexts!Ids(job.research) \o Contexts!Ids(job.research) OBVIOUS
  <2>3. Contexts!createJob(job.workspace, ids, job.images, Contexts!Ids(job.intake), j)
    BY <1>5, <2>2 DEF Contexts!retryJobAsAdmin
  <2>4. ids \in Seq(FoundIn(job.workspace))
    <3>1. PICK research \in Seq(ResearchOf(job.workspace)) : research = job.research BY <2>1 DEF JobHas
    <3>2. DOMAIN research = 1 .. Len(research)
          /\ \A n \in 1 .. Len(research) : research[n] \in ResearchOf(job.workspace)
      BY <3>1
    <3>3. PICK s : s = Contexts!Ids(research) OBVIOUS
    <3>4. s = [n \in DOMAIN research |-> research[n].id] BY <3>3 DEF Contexts!Ids
    <3>5. \A r \in ResearchOf(job.workspace) : r.id \in FoundIn(job.workspace) BY ResearchIs
    <3>6. s \in [DOMAIN research -> FoundIn(job.workspace)] BY <3>2, <3>4, <3>5
    <3>7. s \in Seq(FoundIn(job.workspace)) BY <3>1, <3>6, MappedSequence
    <3>8. ids = s \o s BY <2>2, <3>1, <3>3
    <3>9. QED BY <3>7, <3>8
  <2>5. job.images \in Seq(ImagesOf(job.workspace)) BY <2>1 DEF JobHas
  <2>6. PICK intake : intake = Contexts!Ids(job.intake) OBVIOUS
  <2>7. QED BY <2>2, <2>3, <2>4, <2>5, <2>6, MoreJobs
<1>6. ASSUME NEW j \in DOMAIN contextJobs, Contexts!processQueuedDesignJob(j) PROVE ContextInvariant'
  <2>1. PICK block : block = Contexts!capabilityArtifactPromptBlock(contextJobs[j]) OBVIOUS
  <2>2. prompts' = [prompts EXCEPT ![j] = block]
        /\ UNCHANGED <<executor, artifactStore, reported, contextJobs>>
    BY <1>6, <2>1 DEF Contexts!processQueuedDesignJob
  <2>3. PICK S : prompts \in Seq(S) BY DEF ContextInvariant, IsASequence
  <2>4. PICK T : T = S \cup {block} OBVIOUS
  <2>5. prompts \in Seq(T) /\ block \in T BY <2>3, <2>4
  <2>6. prompts \in [DOMAIN prompts -> T] BY <2>5
  <2>7. prompts' \in [DOMAIN prompts -> T] BY <2>2, <2>5, <2>6
  <2>8. prompts' \in Seq(T) /\ Len(prompts') = Len(prompts) BY <2>5, <2>7, MappedSequence
  <2>9. \A k \in DOMAIN contextJobs : prompts'[k] = IF k = j THEN block ELSE prompts[k]
    <3>1. DOMAIN prompts = DOMAIN contextJobs
      <4>1. PICK J : contextJobs \in Seq(J) BY DEF ContextInvariant, IsASequence
      <4>2. QED BY <2>3, <4>1 DEF ContextInvariant
    <3>2. QED BY <2>2, <3>1
  <2>10. IsASequence(prompts)' BY <2>8 DEF IsASequence
  <2>11. IsASequence(artifactStore)' /\ IsASequence(contextJobs)' /\ AllReported'
        /\ \A k \in DOMAIN contextJobs : JobHas(k)'
    BY <2>2, JobsStill
  <2>12. QED BY <2>1, <2>2, <2>8, <2>9, <2>10, <2>11 DEF ContextInvariant
<1>7. QED BY <1>1, <1>2, <1>3, <1>4, <1>5, <1>6 DEF Contexts!Next

\* The runtime is told of a context what was reported of it in the job's own
\* workspace, once, and a retry is told what its original was, for any workspaces
\* and any number of artifacts and jobs (service.ts, babelOClient.ts).
THEOREM ContextsStay == Contexts!Spec => []Contexts!ContextsAsReported
<1>1. Contexts!Init => ContextInvariant
  <2>1. IsASequence(<<>>) BY DEF IsASequence
  <2>2. DOMAIN <<>> = {} /\ Len(<<>>) = 0 OBVIOUS
  <2>3. QED BY <2>1, <2>2 DEF Contexts!Init, ContextInvariant, AllReported
<1>2. ContextInvariant /\ [Contexts!Next]_(Contexts!vars) => ContextInvariant' BY ContextsStep
<1>3. QED BY <1>1, <1>2, ContextsTrue, PTL DEF Contexts!Spec

-----------------------------------------------------------------------------
(* The composition.                                                        *)

\* Whichever component takes steps, each implements its own specification.
LEMMA ServicesImplement ==
    ServicesSpec => /\ Cli!Spec /\ Account!Spec /\ Models!Spec /\ Sessions!Spec
                    /\ Selections!Spec /\ Editor!Spec /\ Planner!Spec /\ Stream!Spec
                    /\ Contexts!Spec
<1>1. ServicesInit => /\ Cli!Init /\ Account!Init /\ Models!Init /\ Sessions!Init
                      /\ Selections!Init /\ Editor!Init /\ Planner!Init /\ Stream!Init
                      /\ Contexts!Init
  BY DEF ServicesInit
<1>2. [ServicesNext]_servicesVars => [Cli!Next]_(Cli!vars)
  BY DEF ServicesNext, servicesVars, cliVars, Cli!vars
<1>3. [ServicesNext]_servicesVars => [Account!Next]_(Account!vars)
  BY DEF ServicesNext, servicesVars, accountVars, Account!vars
<1>4. [ServicesNext]_servicesVars => [Sessions!Next]_(Sessions!vars)
  BY DEF ServicesNext, servicesVars, sessionVars, Sessions!vars
<1>5. [ServicesNext]_servicesVars => [Selections!Next]_(Selections!selectionVars)
  BY DEF ServicesNext, servicesVars, selectionVars, Selections!selectionVars
<1>6. [ServicesNext]_servicesVars => [Models!Next]_(Models!vars)
  BY DEF ServicesNext, servicesVars, modelVars, Models!vars
<1>7. [ServicesNext]_servicesVars => [Editor!Next]_(Editor!editorVars)
  BY DEF ServicesNext, servicesVars, editorVars, Editor!editorVars, Editor!serverVars
<1>8. [ServicesNext]_servicesVars => [Planner!Next]_(Planner!plannerVars)
  BY DEF ServicesNext, servicesVars, plannerVars, Planner!plannerVars
<1>9. [ServicesNext]_servicesVars => [Stream!Next]_(Stream!transcriptVars)
  BY DEF ServicesNext, servicesVars, transcriptVars, Stream!transcriptVars
<1>10. [ServicesNext]_servicesVars => [Contexts!Next]_(Contexts!vars)
  BY DEF ServicesNext, servicesVars, contextVars, Contexts!vars
<1>11. QED
  BY <1>1, <1>2, <1>3, <1>4, <1>5, <1>6, <1>7, <1>8, <1>9, <1>10, PTL
  DEF ServicesSpec, Cli!Spec, Account!Spec, Models!Spec, Sessions!Spec, Selections!Spec,
      Editor!Spec, Planner!Spec, Stream!Spec, Contexts!Spec

\* However many variations a delivery has and however many requests cancel them:
\* a running process of a job can be found by a cancellation and has its timer
\* armed, if no job is delivered twice (cliAgentGateway.ts).
THEOREM ProcessesFound == OneDelivery => (ServicesSpec => []ProcessesWatched)
<1>1. SUFFICES ASSUME OneDelivery PROVE ServicesSpec => []ProcessesWatched OBVIOUS
<1>2. Cli!Spec => []Cli!ProcessesWatched BY <1>1, ServicesAssumption, ProcessesAreWatched
<1>3. Cli!ProcessesWatched => ProcessesWatched BY DEF ProcessesWatched
<1>4. QED BY <1>2, <1>3, ServicesImplement, PTL

\* Who was answered with a cookie can log in again the same way, for any number
\* of requests and OAuth providers (authApplicationService.ts).
THEOREM CookiesReturn == ServicesSpec => []AnsweredCanReturn
<1>1. Account!Spec => []Account!AnsweredCanReturn BY ServicesAssumption, AnsweredReturn
<1>2. Account!AnsweredCanReturn => AnsweredCanReturn BY DEF AnsweredCanReturn
<1>3. QED BY <1>1, <1>2, ServicesImplement, PTL

\* What users may choose is what operators decided, for any models that the
\* runtime reports and any requests and starts (postgresRepository.ts).
THEOREM CatalogueFollowsOperators == ServicesSpec => []OperatorsDecide
<1>1. Models!Spec => []Models!OperatorsDecide BY ServicesAssumption, CatalogueAsDecided
<1>2. Models!OperatorsDecide => OperatorsDecide BY DEF OperatorsDecide
<1>3. QED BY <1>1, <1>2, ServicesImplement, PTL

\* Without overlaps the row of a session is what the answers said, and the home
\* page shows it, for any titles and any number of jobs (service.ts, page.tsx).
THEOREM SessionsAsAnswered == ServicesSpec => []LastWordStands
<1>1. Sessions!Spec => []Sessions!LastWordStands BY ServicesAssumption, LastWordsStand
<1>2. Sessions!LastWordStands => LastWordStands BY DEF LastWordStands
<1>3. QED BY <1>1, <1>2, ServicesImplement, PTL

\* Once an operator is told that a plugin is disabled, no job asked for later
\* uses it, where it was told and in a process started later, for any number of
\* processes, requests and plugins (service.ts).
THEOREM DisabledStay == ServicesSpec => []DisabledStaysOut
<1>1. Selections!DisabledStaysOut => DisabledStaysOut BY DEF DisabledStaysOut
<1>2. QED BY <1>1, DisabledPluginsStayOut, ServicesImplement, PTL

\* A retry has the plan of its original and the same packs on the same
\* variations, also the retry of a retry, for any packs, however they suit the
\* variations and whatever is published in between (service.ts).
THEOREM RetriedAlike == ServicesSpec => []RetryRepeats
<1>1. Selections!Spec => []Selections!RetryRepeats BY ServicesAssumption, RetriesRepeat
<1>2. Selections!RetryRepeats => RetryRepeats BY DEF RetryRepeats
<1>3. QED BY <1>1, <1>2, ServicesImplement, PTL

\* When nothing is under way on the editor page, it does not show a refine as
\* running, unless a cancel went astray, for any refines, cancel calls, failed
\* calls and reloads (page.tsx).
THEOREM QuietPagesSettled == ServicesSpec => []QuietPageSettled
<1>1. Editor!Spec => [](Editor!QuietPageSettled /\ Editor!CancelledIsLeft)
  BY ServicesAssumption, PagesSettle
<1>2. Editor!QuietPageSettled => QuietPageSettled BY DEF QuietPageSettled
<1>3. QED BY <1>1, <1>2, ServicesImplement, PTL

\* A refine that the page has shown as cancelled is neither its active operation
\* nor its draft again, in whichever order the answers of the refine, of its
\* cancel and of the polls are handled (page.tsx).
THEOREM CancelledStays == ServicesSpec => []CancelledIsLeft
<1>1. Editor!Spec => [](Editor!QuietPageSettled /\ Editor!CancelledIsLeft)
  BY ServicesAssumption, PagesSettle
<1>2. Editor!CancelledIsLeft => CancelledIsLeft BY DEF CancelledIsLeft
<1>3. QED BY <1>1, <1>2, ServicesImplement, PTL

\* A request that its graph can serve gets a plan, however the hash breaks ties,
\* and a plan has the locked modules and is even, for any graphs, requests and
\* numbers of variations (explorationPlanner.ts).
THEOREM PlansServed == ServicesSpec => []RequestServed
<1>1. Planner!Spec => [](Planner!RequestServed /\ Planner!VariationsRetryable)
  BY ServicesAssumption, PlansServe
<1>2. Planner!RequestServed => RequestServed BY DEF RequestServed
<1>3. QED BY <1>1, <1>2, ServicesImplement, PTL

\* Each variation of a plan can be planned again as it is, if no module asks for
\* more than one variation (deriveVariationRetryExplorationSnapshot).
THEOREM PlansRetryable == ServicesSpec => []VariationsRetryable
<1>1. Planner!Spec => [](Planner!RequestServed /\ Planner!VariationsRetryable)
  BY ServicesAssumption, PlansServe
<1>2. Planner!VariationsRetryable => VariationsRetryable BY DEF VariationsRetryable
<1>3. QED BY <1>1, <1>2, ServicesImplement, PTL

\* A response that has ended has decided about its variation as the refine
\* operation says, and its page is the one of the run that succeeded, for any
\* lanes and any numbers of attempts and drafts (app.ts, handleStream).
THEOREM TranscriptsTruthful == ServicesSpec => []TranscriptTruthful
<1>1. Stream!Spec => []Stream!TranscriptTruthful BY ServicesAssumption, StreamsAreTruthful
<1>2. Stream!TranscriptTruthful => TranscriptTruthful BY DEF TranscriptTruthful
<1>3. QED BY <1>1, <1>2, ServicesImplement, PTL

\* The runtime is told of a context what was reported of it in the job's own
\* workspace, once per context, and of a retry what its original was told, for any
\* workspaces, artifacts and jobs (service.ts, babelOClient.ts).
THEOREM ContextsToldTruly == ServicesSpec => []ContextsAsReported
<1>1. Contexts!ContextsAsReported => ContextsAsReported BY DEF ContextsAsReported
<1>2. QED BY <1>1, ContextsStay, ServicesImplement, PTL
=============================================================================
