-------------------------- MODULE VariationEditor --------------------------
(***************************************************************************)
(* The editor page of a variation while the user refines it                *)
(* (apps/web/src/app/variations/[variationId]/page.tsx): the refine's POST *)
(* is open until the refine is over, a cancel is a second call that races  *)
(* it, and after a reload a poll follows the operation whose id the page   *)
(* left in the session storage.  Each answer is handled in one step, and   *)
(* a snapshot may be old when it is.                                       *)
(* The server is reduced to what its answers show; RefineOperations models *)
(* its inside, whose handlers write whole rows: a cancel can be answered   *)
(* before the refine's handler stores another outcome, and a refused       *)
(* cancel makes an ended operation run again until the reconciler ends it. *)
(***************************************************************************)
EXTENDS Naturals

CONSTANTS
    Request,        \* refines of this variation, in either kind
    Call,           \* cancel calls: the page makes as many, and may make them at once
    MaxUpsets       \* bound: calls that fail, reloads, and versions restored

VARIABLES
    op,         \* request -> status of its row
    handling,   \* requests that a handler or the reconciler works on
    latest,     \* the request whose row was created last
    post,       \* request -> its POST: not made, on its way, open, or its answer
    awaited,    \* requests whose POST's answer the page still handles
    calls,      \* cancel calls: their request, how far they are, whether the page listens
    page,       \* the page's state, refs and session storage
    poll,       \* the chain of polls: stage, request asked for, what it saw, the id kept
    loading,    \* getVariation is under way
    loaded,     \* the page has a detail to refine
    astray,     \* the page was left where no answer is to come
    upsets      \* failed calls, reloads and restored versions so far

serverVars == <<op, handling, latest>>
editorVars == <<serverVars, post, awaited, calls, page, poll, loading, loaded, astray, upsets>>

Nobody == "nobody"

\* What the module assumes of its constants; the module of a run asserts it.
Assumptions == MaxUpsets \in Nat /\ Nobody \notin Request

Someone == Request \cup {Nobody}
Ended == {"completed", "failed", "cancelled"}
OpStatus == Ended \cup {"absent", "running", "cancelling"}
Page == [status : {"loading", "idle", "refining", "cancelling", "cancelled", "error"},
         active : Someone,      \* activeRefineRequestId
         draft : Someone,       \* activeRefineDraftRef
         stored : Someone,      \* session storage
         marked : SUBSET Request,   \* cancelledRefineRequestIdsRef
         message : [Request -> {"none", "running", "done", "failed", "cancelled"}]]
NoCall == [req |-> Nobody, at |-> "idle", heard |-> FALSE]
CallOver == [NoCall EXCEPT !.at = "over"]
CallSet == [req : Request, at : {"sent", "working", "cancelled", "already_finished", "error"},
            heard : BOOLEAN]

TypeOK ==
    /\ op \in [Request -> OpStatus] /\ handling \subseteq Request /\ latest \in Someone
    /\ post \in [Request -> Ended \cup {"none", "sent", "open", "error", "over"}]
    /\ awaited \subseteq Request
    /\ calls \in [Call -> CallSet \cup {NoCall, CallOver}]
    /\ page \in Page
    /\ poll \in [stage : {"off", "asked", "answered"}, req : Someone,
                 seen : OpStatus, keep : Someone]
    /\ loading \in BOOLEAN /\ loaded \in BOOLEAN /\ astray \in BOOLEAN
    /\ upsets \in 0 .. MaxUpsets

\* The page opens: it loads the variation and polls for the stored request,
\* or for the variation's latest operation.
FreshPage(stored) ==
    [status |-> "loading", active |-> Nobody, draft |-> Nobody, stored |-> stored,
     marked |-> {}, message |-> [r \in Request |-> "none"]]
FirstPoll(stored) == [stage |-> "asked", req |-> stored, seen |-> "absent", keep |-> stored]

Init ==
    /\ op = [r \in Request |-> "absent"] /\ handling = {} /\ latest = Nobody
    /\ post = [r \in Request |-> "none"] /\ awaited = {}
    /\ calls = [c \in Call |-> NoCall]
    /\ page = FreshPage(Nobody) /\ poll = FirstPoll(Nobody)
    /\ loading = TRUE /\ loaded = FALSE /\ astray = FALSE
    /\ upsets = 0

-----------------------------------------------------------------------------
(* The server.                                                             *)

Upset == upsets < MaxUpsets /\ upsets' = upsets + 1

IsActive(r) == op[r] \in {"running", "cancelling"}

\* The POST reaches the server, which refuses it while another refine is active.
postArrives(r) ==
    /\ post[r] = "sent"
    /\ IF \E q \in Request : IsActive(q)
       THEN post' = [post EXCEPT ![r] = "error"] /\ UNCHANGED serverVars
       ELSE /\ post' = [post EXCEPT ![r] = "open"]
            /\ op' = [op EXCEPT ![r] = "running"]
            /\ handling' = handling \cup {r}
            /\ latest' = r
    /\ UNCHANGED <<awaited, calls, page, poll, loading, loaded, astray, upsets>>

\* The handler of a refine stores its outcome: cancelled if it finds the
\* cancel in the row when it looks for the last time.
handlerEnds(r, outcome) ==
    /\ r \in handling
    /\ outcome = "cancelled" => op[r] \in {"cancelling", "cancelled"}
    /\ op' = [op EXCEPT ![r] = outcome]
    /\ handling' = handling \ {r}
    /\ post' = IF post[r] = "open" THEN [post EXCEPT ![r] = outcome] ELSE post
    /\ UNCHANGED <<latest, awaited, calls, page, poll, loading, loaded, astray, upsets>>

To(c, at) == calls' = [calls EXCEPT ![c].at = at]

cancelArrives(c) ==
    /\ calls[c].at = "sent"
    /\ LET r == calls[c].req
       IN  CASE op[r] = "absent" -> To(c, "error") /\ UNCHANGED op
             [] op[r] = "cancelled" -> To(c, "cancelled") /\ UNCHANGED op
             [] op[r] \in {"completed", "failed"} -> To(c, "already_finished") /\ UNCHANGED op
             [] OTHER -> To(c, "working") /\ op' = [op EXCEPT ![r] = "cancelling"]
    /\ UNCHANGED <<handling, latest, post, awaited, page, poll, loading, loaded, astray, upsets>>

\* The runtime accepts the cancel or does not.
cancelDecided(c, accepted) ==
    /\ calls[c].at = "working"
    /\ LET r == calls[c].req
       IN  /\ op' = [op EXCEPT ![r] = IF accepted THEN "cancelled" ELSE "running"]
           /\ handling' = IF accepted THEN handling ELSE handling \cup {r}
    /\ To(c, IF accepted THEN "cancelled" ELSE "error")
    /\ UNCHANGED <<latest, post, awaited, page, poll, loading, loaded, astray, upsets>>

\* A call gets no answer; what it asked for goes on, unless it never arrived.
callFails ==
    /\ Upset
    /\ \/ /\ \E r \in Request :
              post[r] \in {"sent", "open"} /\ post' = [post EXCEPT ![r] = "error"]
          /\ UNCHANGED <<calls, poll, loading, page>>
       \/ /\ \E c \in Call :
              calls[c].at \in {"sent", "cancelled", "already_finished"} /\ To(c, "error")
          /\ UNCHANGED <<post, poll, loading, page>>
       \/ /\ loading /\ loading' = FALSE
          /\ page' = [page EXCEPT !.status = "error"]
          /\ UNCHANGED <<post, calls, poll>>
    /\ UNCHANGED <<serverVars, awaited, loaded, astray>>

-----------------------------------------------------------------------------
(* What the page's handlers share.                                         *)

Without(id, r) == IF id = r THEN Nobody ELSE id

clearActiveRefine(p, r) ==
    [p EXCEPT !.active = Without(@, r), !.draft = Without(@, r), !.stored = Without(@, r)]

\* updateRefineFeedback changes a message that is there.
updateRefineFeedback(p, r, status) ==
    [p EXCEPT !.message[r] = IF @ = "none" THEN @ ELSE status]

markRefineCancelled(p, r) ==
    clearActiveRefine(
        [updateRefineFeedback(p, r, "cancelled") EXCEPT
            !.marked = @ \cup {r}, !.status = "cancelled"], r)

-----------------------------------------------------------------------------
(* The page.                                                               *)

\* Whatever the page waits for, the answer of getVariation makes it idle.
variationLoaded ==
    /\ loading /\ loading' = FALSE
    /\ loaded' = TRUE
    /\ page' = [page EXCEPT !.status = "idle"]
    /\ UNCHANGED <<serverVars, post, awaited, calls, poll, astray, upsets>>

\* submitRefine and submitAnnotations; the button is another one while refining.
submitRefine(r) ==
    /\ loaded /\ page.status \notin {"refining", "cancelling"}
    /\ post[r] = "none"
    /\ post' = [post EXCEPT ![r] = "sent"]
    /\ awaited' = awaited \cup {r}
    /\ page' = [page EXCEPT !.status = "refining", !.active = r, !.draft = r, !.stored = r,
                            !.message[r] = "running"]
    /\ UNCHANGED <<serverVars, calls, poll, loading, loaded, astray, upsets>>

\* Mutant: whether the cancel was answered before the refine is not looked at.
submitAnsweredOnly(p, r, answer) ==
    CASE answer = "cancelled" -> markRefineCancelled(p, r)
      [] answer = "completed" ->
            clearActiveRefine([updateRefineFeedback(p, r, "done") EXCEPT !.status = "idle"], r)
      [] OTHER ->
            clearActiveRefine([updateRefineFeedback(p, r, "failed") EXCEPT !.status = "error"], r)

submitAnswered(p, r, answer) ==
    CASE answer = "cancelled" \/ r \in p.marked -> markRefineCancelled(p, r)
      [] answer = "completed" /\ r \notin p.marked ->
            clearActiveRefine([updateRefineFeedback(p, r, "done") EXCEPT !.status = "idle"], r)
      [] OTHER ->
            clearActiveRefine([updateRefineFeedback(p, r, "failed") EXCEPT !.status = "error"], r)

handleSubmit(r) ==
    /\ r \in awaited /\ post[r] \in Ended \cup {"error"}
    /\ awaited' = awaited \ {r}
    /\ post' = [post EXCEPT ![r] = "over"]
    /\ page' = submitAnswered(page, r, post[r])
    /\ loading' = (loading \/ page'.message[r] = "done")
    /\ UNCHANGED <<serverVars, calls, poll, loaded, astray, upsets>>

\* The button that stops a refine needs its id.
cancelActiveRefine(c) ==
    /\ page.status = "refining" /\ page.active # Nobody /\ page.draft # Nobody
    /\ calls[c] = NoCall
    /\ calls' = [calls EXCEPT ![c] = [req |-> page.draft, at |-> "sent", heard |-> TRUE]]
    /\ page' = [page EXCEPT !.status = "cancelling"]
    /\ UNCHANGED <<serverVars, post, awaited, poll, loading, loaded, astray, upsets>>

\* The page no longer waits for request r when a cancel of it comes to nothing.
NotWaiting(r) ==
    \/ page.active # r \/ r \in page.marked
    \/ awaited = {} /\ poll.stage = "off"

handleCancel(c) ==
    /\ calls[c].at \in {"cancelled", "already_finished", "error"}
    /\ calls' = [calls EXCEPT ![c] = CallOver]
    /\ LET r == calls[c].req
       IN  CASE ~calls[c].heard -> UNCHANGED <<page, astray>>
             [] calls[c].heard /\ calls[c].at = "cancelled" ->
                    page' = markRefineCancelled(page, r) /\ UNCHANGED astray
             [] OTHER ->
                    /\ page' = [IF calls[c].at = "error" THEN updateRefineFeedback(page, r, "running")
                                ELSE page EXCEPT !.status = "refining"]
                    /\ astray' = (astray \/ NotWaiting(r))
    /\ UNCHANGED <<serverVars, post, awaited, poll, loading, loaded, upsets>>

\* getVariationRefineOperation for an id, or for the variation's latest row.
\* A poll that waits for its timer has been asked, but not served yet.
pollServed ==
    /\ poll.stage = "asked"
    /\ LET r == IF poll.req = Nobody THEN latest ELSE poll.req
       IN  poll' = IF r = Nobody \/ op[r] = "absent"
                   THEN [poll EXCEPT !.stage = "answered", !.req = Nobody]
                   ELSE [poll EXCEPT !.stage = "answered", !.req = r, !.seen = op[r]]
    /\ UNCHANGED <<serverVars, post, awaited, calls, page, loading, loaded, astray, upsets>>

\* Without an id to keep asking for, a failed poll is the last one.
pollFails ==
    /\ poll.stage = "asked"
    /\ Upset
    /\ IF poll.keep = Nobody
       THEN /\ poll' = [poll EXCEPT !.stage = "off"]
            /\ astray' = (astray \/ page.active # Nobody)
       ELSE poll' = [poll EXCEPT !.req = poll.keep] /\ UNCHANGED astray
    /\ UNCHANGED <<serverVars, post, awaited, calls, page, loading, loaded>>

\* Mutant: an operation that is being cancelled is not active.
SeenActiveRunning == poll.seen = "running"

SeenActive == poll.seen \in {"running", "cancelling"}

\* restoreRefineOperation; a message that is there is not brought up to date.
restoreRefineOperation(p, r) ==
    LET shown == CASE poll.seen = "completed" -> "done"
                   [] poll.seen \in {"failed", "cancelled"} -> poll.seen
                   [] OTHER -> "running"
        q == [p EXCEPT !.message[r] = IF @ = "none" THEN shown ELSE @]
    IN  CASE SeenActive ->
                [q EXCEPT !.active = r, !.draft = r, !.stored = r,
                          !.status = IF poll.seen = "cancelling" THEN "cancelling" ELSE "refining"]
          [] poll.seen = "cancelled" -> markRefineCancelled([q EXCEPT !.draft = r], r)
          [] poll.seen = "failed" -> clearActiveRefine([q EXCEPT !.status = "error"], r)
          [] poll.seen = "completed" -> clearActiveRefine([q EXCEPT !.status = "idle"], r)
          [] OTHER -> q

Tracked(r) == r # Nobody /\ (SeenActive \/ r \in {poll.keep, page.draft})

handlePoll ==
    /\ poll.stage = "answered"
    /\ IF Tracked(poll.req)
       THEN /\ page' = restoreRefineOperation(page, poll.req)
            /\ poll' = [poll EXCEPT !.stage = IF SeenActive THEN "asked" ELSE "off", !.seen = "absent"]
            /\ loading' = (loading \/ poll.seen = "completed")
       ELSE poll' = [poll EXCEPT !.stage = "off", !.seen = "absent"] /\ UNCHANGED <<page, loading>>
    /\ UNCHANGED <<serverVars, post, awaited, calls, loaded, astray, upsets>>

\* restoreVersion and undoLastRefine are answered, and the page loads again;
\* neither is kept from the user while a refine runs.
restoreVersion ==
    /\ loaded
    /\ Upset
    /\ loading' = TRUE
    /\ UNCHANGED <<serverVars, post, awaited, calls, page, poll, loaded, astray>>

\* The page is left and opened again; the calls it made go on without it.
reload ==
    /\ Upset
    /\ page' = FreshPage(page.stored) /\ poll' = FirstPoll(page.stored)
    /\ loading' = TRUE /\ loaded' = FALSE /\ astray' = FALSE
    /\ awaited' = {}
    /\ calls' = [c \in Call |-> [calls[c] EXCEPT !.heard = FALSE]]
    /\ UNCHANGED <<serverVars, post>>

Next ==
    \/ \E r \in Request : postArrives(r) \/ submitRefine(r) \/ handleSubmit(r)
    \/ \E r \in Request, outcome \in Ended : handlerEnds(r, outcome)
    \/ \E c \in Call : cancelArrives(c) \/ cancelActiveRefine(c) \/ handleCancel(c)
    \/ \E c \in Call, accepted \in BOOLEAN : cancelDecided(c, accepted)
    \/ variationLoaded \/ pollServed \/ pollFails \/ handlePoll
    \/ callFails \/ restoreVersion \/ reload

Spec == Init /\ [][Next]_editorVars

-----------------------------------------------------------------------------
\* Nothing is under way any more, on the page or on the server.
Quiet ==
    /\ awaited = {} /\ poll.stage = "off" /\ ~loading
    /\ \A c \in Call : calls[c] \in {NoCall, CallOver}
    /\ \A r \in Request : ~IsActive(r)

\* When everything is over the page does not go on showing a refine, with no
\* button but one that stops it, unless a cancel came to nothing after the page
\* had stopped waiting, or a poll without a stored id failed (page.tsx).
QuietPageSettled ==
    Quiet /\ ~astray => page.status \notin {"loading", "refining", "cancelling"}

\* Once a refine was shown as cancelled its POST, polls and reloads of the
\* variation leave it so, whatever the server recorded in the end, and it is
\* not kept for another reload, unless a poll is about to settle it (page.tsx).
CancelledIsLeft ==
    \A r \in page.marked :
        /\ astray \/ page.message[r] = "cancelled"
        /\ page.stored = r => poll.stage # "off" \/ astray

\* Refuted: a call that fails late leaves the page refining for good.
EveryPageSettles == Quiet => page.status \notin {"loading", "refining", "cancelling"}

\* Refuted: restoring a version, or a finished refine, loads the variation, and
\* its answer takes the button away that stops the refine in progress.
StopIsOffered == \A r \in awaited : page.status \in {"refining", "cancelling"}

\* Refuted: the message of a refine that a reload found running stays so.
MessagesSettle == Quiet /\ ~astray => \A r \in Request : page.message[r] # "running"
=============================================================================
