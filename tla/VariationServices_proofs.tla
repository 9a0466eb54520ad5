----------------------- MODULE VariationServices_proofs ------------------------
(***************************************************************************)
(* Proofs about the components of Services that serve one variation: how   *)
(* it is planned, streamed, and shown on its editor page.                  *)
(* Exploration plans: a module that was placed is on the variations that   *)
(* were chosen for it, with all that the walk along dependencies reaches.  *)
(* Streams: what the watcher has shown are its last lines, and after the   *)
(* one run of a lane that succeeded nobody writes in its workspace.        *)
(* The editor page: whatever it shows as running, some answer, poll or     *)
(* cancel is still to come that settles it.                                *)
(***************************************************************************)
EXTENDS Services, FiniteSetTheorems, WellFoundedInduction, Sequences, TLAPS

-----------------------------------------------------------------------------
(* The editor page.                                                        *)

Pending(c) == calls[c].at \notin {"idle", "over"}

\* What a request's message, the page's draft or a cancel is about was submitted.
Submitted ==
    /\ \A r \in Request : op[r] # "absent" \/ r \in handling => post[r] # "none"
    /\ \A r \in awaited : post[r] # "none" /\ page.message[r] # "none"
    /\ page.draft # Editor!Nobody => post[page.draft] # "none" /\ page.message[page.draft] # "none"
    /\ \A c \in Call : Pending(c) =>
        post[calls[c].req] # "none" /\ (calls[c].heard => page.message[calls[c].req] # "none")
    /\ \A r \in page.marked : post[r] # "none" /\ page.message[r] # "none"

\* What a poll was answered is of a row that is there, and of the stored id.
Polled ==
    /\ poll.stage = "answered" /\ poll.req # Editor!Nobody => op[poll.req] # "absent" /\ poll.seen # "absent"
    /\ poll.stage # "off" /\ poll.keep # Editor!Nobody =>
         poll.req = poll.keep \/ (poll.stage = "answered" /\ poll.req = Editor!Nobody)

\* The chain of polls goes on until it has settled r.
Followed(r) ==
    /\ poll.stage # "off" /\ poll.req = r /\ page.draft = r /\ page.active = r
    /\ op[r] # "absent"

\* Somebody will answer for what the page shows.
Tended ==
    /\ page.active # Editor!Nobody => astray \/ page.active \in awaited \/ Followed(page.active)
    /\ page.status \in {"refining", "cancelling"} =>
        \/ astray \/ awaited # {} \/ \E c \in Call : Pending(c) /\ calls[c].heard
        \/ poll.stage # "off" /\ page.active # Editor!Nobody
    /\ page.status = "loading" => loading

\* A refine that was shown as cancelled.
Left == \A r \in page.marked :
    /\ astray \/ page.message[r] = "cancelled"
    /\ page.stored = r => astray \/ Followed(r)

EditorInvariant == Editor!TypeOK /\ Submitted /\ Polled /\ Tended /\ Left

\* What the handlers share.
IsCleared(q, p, r) ==
    /\ q \in Editor!Page /\ q.status = p.status /\ q.marked = p.marked /\ q.message = p.message
    /\ q.active = Editor!Without(p.active, r) /\ q.draft = Editor!Without(p.draft, r)
    /\ q.stored = Editor!Without(p.stored, r)

LEMMA ClearedPage ==
    ASSUME NEW p \in Editor!Page, NEW r \in Request, NEW q, q = Editor!clearActiveRefine(p, r)
    PROVE  IsCleared(q, p, r)
<1>1. PICK a, d, s : /\ a = Editor!Without(p.active, r) /\ d = Editor!Without(p.draft, r)
                     /\ s = Editor!Without(p.stored, r)
  OBVIOUS
<1>2. a \in Editor!Someone /\ d \in Editor!Someone /\ s \in Editor!Someone
  BY <1>1 DEF Editor!Page, Editor!Without, Editor!Someone
<1>3. q = [p EXCEPT !.active = a, !.draft = d, !.stored = s] BY <1>1 DEF Editor!clearActiveRefine
<1>4. QED BY <1>1, <1>2, <1>3 DEF Editor!Page, IsCleared

IsTold(q, p, r, status) ==
    /\ q \in Editor!Page /\ q.status = p.status /\ q.marked = p.marked /\ q.active = p.active
    /\ q.draft = p.draft /\ q.stored = p.stored
    /\ q.message[r] = IF p.message[r] = "none" THEN "none" ELSE status
    /\ \A n \in Request \ {r} : q.message[n] = p.message[n]

LEMMA ToldPage ==
    ASSUME NEW p \in Editor!Page, NEW r \in Request, NEW status \in {"running", "done", "failed", "cancelled"},
           NEW q, q = Editor!updateRefineFeedback(p, r, status)
    PROVE  IsTold(q, p, r, status)
<1>1. PICK m : m = IF p.message[r] = "none" THEN p.message[r] ELSE status OBVIOUS
<1>2. PICK ms : ms = [p.message EXCEPT ![r] = m] OBVIOUS
<1>3. q = [p EXCEPT !.message = ms] BY <1>1, <1>2 DEF Editor!updateRefineFeedback
<1>4. /\ p.message \in [Request -> {"none", "running", "done", "failed", "cancelled"}]
      /\ m \in {"none", "running", "done", "failed", "cancelled"}
  BY <1>1 DEF Editor!Page
<1>5. /\ ms \in [Request -> {"none", "running", "done", "failed", "cancelled"}] /\ ms[r] = m
      /\ \A n \in Request \ {r} : ms[n] = p.message[n]
  BY <1>2, <1>4
<1>6. QED BY <1>1, <1>3, <1>5 DEF Editor!Page, IsTold

\* The page after it was told how r ended; a message that is there may stay.
IsSettled(q, p, r) ==
    /\ q \in Editor!Page /\ q.status \in {"idle", "error", "cancelled"}
    /\ q.active = Editor!Without(p.active, r) /\ q.stored = Editor!Without(p.stored, r)
    /\ p.marked \subseteq q.marked /\ q.marked \subseteq p.marked \cup {r}
    /\ q.message[r] # "none"
    /\ r \in q.marked => q.message[r] = "cancelled" \/ (r \in p.marked /\ q.message[r] = p.message[r])
    /\ \A n \in Request \ {r} : q.message[n] = p.message[n]

LEMMA MarkedPage ==
    ASSUME NEW p \in Editor!Page, NEW r \in Request, NEW q, q = Editor!markRefineCancelled(p, r),
           p.message[r] # "none"
    PROVE  IsSettled(q, p, r) /\ q.draft = Editor!Without(p.draft, r) /\ q.message[r] = "cancelled"
<1>0. PICK c \in {"running", "done", "failed", "cancelled"} : c = "cancelled" OBVIOUS
<1>1. PICK u : u = Editor!updateRefineFeedback(p, r, c) OBVIOUS
<1>2. /\ u \in Editor!Page /\ u.status = p.status /\ u.marked = p.marked /\ u.active = p.active
      /\ u.draft = p.draft /\ u.stored = p.stored
      /\ u.message[r] = IF p.message[r] = "none" THEN "none" ELSE c
      /\ \A n \in Request \ {r} : u.message[n] = p.message[n]
  <2>1. IsTold(u, p, r, c) BY <1>1, ToldPage
  <2>2. QED BY <2>1 DEF IsTold
<1>3. PICK w : w = [u EXCEPT !.marked = @ \cup {r}, !.status = "cancelled"] OBVIOUS
<1>4. PICK marks : marks = u.marked \cup {r} OBVIOUS
<1>5. w = [u EXCEPT !.marked = marks, !.status = "cancelled"] /\ marks \in SUBSET Request
  BY <1>2, <1>3, <1>4 DEF Editor!Page
<1>6. /\ w \in Editor!Page /\ w.status = "cancelled" /\ w.marked = p.marked \cup {r} /\ w.active = p.active
      /\ w.draft = p.draft /\ w.stored = p.stored /\ w.message = u.message
  BY <1>2, <1>4, <1>5 DEF Editor!Page
<1>7. q = Editor!clearActiveRefine(w, r) BY <1>0, <1>1, <1>3, Zenon DEF Editor!markRefineCancelled
<1>8. IsCleared(q, w, r) BY <1>6, <1>7, ClearedPage
<1>9. QED BY <1>0, <1>2, <1>6, <1>8 DEF IsCleared, IsSettled

LEMMA SettledPage ==
    ASSUME NEW p \in Editor!Page, NEW r \in Request, NEW shown \in {"done", "failed"},
           NEW status \in {"idle", "error"}, NEW q,
           NEW shownPage, shownPage = Editor!updateRefineFeedback(p, r, shown),
           NEW w, w = [shownPage EXCEPT !.status = status], q = Editor!clearActiveRefine(w, r),
           p.message[r] # "none", r \notin p.marked
    PROVE  IsSettled(q, p, r) /\ q.draft = Editor!Without(p.draft, r)
<1>1. PICK u : u = Editor!updateRefineFeedback(p, r, shown) /\ u = shownPage OBVIOUS
<1>2. /\ u \in Editor!Page /\ u.marked = p.marked /\ u.active = p.active
      /\ u.draft = p.draft /\ u.stored = p.stored
      /\ u.message[r] = IF p.message[r] = "none" THEN "none" ELSE shown
      /\ \A n \in Request \ {r} : u.message[n] = p.message[n]
  <2>1. shown \in {"running", "done", "failed", "cancelled"} OBVIOUS
  <2>2. IsTold(u, p, r, shown) BY <1>1, <2>1, ToldPage
  <2>3. QED BY <2>2 DEF IsTold
<1>3. w = [u EXCEPT !.status = status] BY <1>1
<1>4. /\ w \in Editor!Page /\ w.status = status /\ w.marked = p.marked /\ w.active = p.active
      /\ w.draft = p.draft /\ w.stored = p.stored /\ w.message = u.message
  BY <1>2, <1>3 DEF Editor!Page
<1>5. /\ q \in Editor!Page /\ q.status = w.status /\ q.marked = w.marked /\ q.message = w.message
      /\ q.active = Editor!Without(w.active, r) /\ q.draft = Editor!Without(w.draft, r)
      /\ q.stored = Editor!Without(w.stored, r)
  <2>1. IsCleared(q, w, r) BY <1>4, ClearedPage
  <2>2. QED BY <2>1 DEF IsCleared
<1>6. QED BY <1>2, <1>4, <1>5 DEF IsSettled

\* The answer of a POST: it leaves the page without r, and settled.
LEMMA AnsweredPage ==
    ASSUME NEW p \in Editor!Page, NEW r \in Request, NEW answer \in Editor!Ended \cup {"error"},
           NEW q, q = Editor!submitAnswered(p, r, answer), p.message[r] # "none"
    PROVE  IsSettled(q, p, r) /\ q.draft = Editor!Without(p.draft, r)
<1>1. CASE answer = "cancelled" \/ r \in p.marked
  <2>1. q = Editor!markRefineCancelled(p, r) BY <1>1 DEF Editor!submitAnswered
  <2>2. QED BY <2>1, MarkedPage
<1>2. CASE answer = "completed" /\ r \notin p.marked
  <2>1. PICK shown \in {"done", "failed"}, status \in {"idle", "error"} : shown = "done" /\ status = "idle"
    OBVIOUS
  <2>2. PICK shownPage : shownPage = Editor!updateRefineFeedback(p, r, shown) OBVIOUS
  <2>3. PICK w : w = [shownPage EXCEPT !.status = status] OBVIOUS
  <2>4. q = Editor!clearActiveRefine(w, r)
    BY <1>2, <2>1, <2>2, <2>3 DEF Editor!submitAnswered
  <2>5. QED BY <1>2, <2>1, <2>2, <2>3, <2>4, SettledPage
<1>3. CASE answer \notin {"cancelled", "completed"} /\ r \notin p.marked
  <2>1. PICK shown \in {"done", "failed"}, status \in {"idle", "error"} : shown = "failed" /\ status = "error"
    OBVIOUS
  <2>2. PICK shownPage : shownPage = Editor!updateRefineFeedback(p, r, shown) OBVIOUS
  <2>3. PICK w : w = [shownPage EXCEPT !.status = status] OBVIOUS
  <2>4. q = Editor!clearActiveRefine(w, r)
    BY <1>3, <2>1, <2>2, <2>3 DEF Editor!submitAnswered
  <2>5. QED BY <1>3, <2>1, <2>2, <2>3, <2>4, SettledPage
<1>4. QED BY <1>1, <1>2, <1>3

\* What a poll makes of the page.
IsShown(q, p, r, shown) ==
    /\ q \in Editor!Page /\ q.status = p.status /\ q.marked = p.marked /\ q.active = p.active
    /\ q.draft = p.draft /\ q.stored = p.stored
    /\ q.message[r] = IF p.message[r] = "none" THEN shown ELSE p.message[r]
    /\ \A n \in Request \ {r} : q.message[n] = p.message[n]

LEMMA ShownPage ==
    ASSUME NEW p \in Editor!Page, NEW r \in Request, NEW shown \in {"running", "done", "failed", "cancelled"},
           NEW q, q = [p EXCEPT !.message[r] = IF @ = "none" THEN shown ELSE @]
    PROVE  IsShown(q, p, r, shown)
<1>1. PICK m : m = IF p.message[r] = "none" THEN shown ELSE p.message[r] OBVIOUS
<1>2. PICK ms : ms = [p.message EXCEPT ![r] = m] OBVIOUS
<1>3. q = [p EXCEPT !.message = ms] BY <1>1, <1>2
<1>4. /\ p.message \in [Request -> {"none", "running", "done", "failed", "cancelled"}]
      /\ m \in {"none", "running", "done", "failed", "cancelled"}
  BY <1>1 DEF Editor!Page
<1>5. /\ ms \in [Request -> {"none", "running", "done", "failed", "cancelled"}] /\ ms[r] = m
      /\ \A n \in Request \ {r} : ms[n] = p.message[n]
  BY <1>2, <1>4
<1>6. QED BY <1>1, <1>3, <1>5 DEF Editor!Page, IsShown

IsFollowing(q, p, r) ==
    /\ q \in Editor!Page /\ q.status \in {"refining", "cancelling"}
    /\ q.active = r /\ q.draft = r /\ q.stored = r /\ q.marked = p.marked
    /\ q.message[r] # "none" /\ (p.message[r] # "none" => q.message[r] = p.message[r])
    /\ \A n \in Request \ {r} : q.message[n] = p.message[n]

LEMMA FollowingPage ==
    ASSUME NEW p \in Editor!Page, NEW r \in Request, poll.seen \in {"running", "cancelling"},
           NEW q, q = Editor!restoreRefineOperation(p, r)
    PROVE  IsFollowing(q, p, r)
<1>1. PICK shown \in {"running", "done", "failed", "cancelled"} : shown = "running" OBVIOUS
<1>2. PICK w : w = [p EXCEPT !.message[r] = IF @ = "none" THEN shown ELSE @] OBVIOUS
<1>3. IsShown(w, p, r, shown) BY <1>2, ShownPage
<1>4. PICK status \in {"refining", "cancelling"} :
          status = IF poll.seen = "cancelling" THEN "cancelling" ELSE "refining"
  OBVIOUS
<1>5. q = [w EXCEPT !.active = r, !.draft = r, !.stored = r, !.status = status]
  BY <1>1, <1>2, <1>4 DEF Editor!restoreRefineOperation, Editor!SeenActive
<1>6. w \in Editor!Page /\ r \in Editor!Someone BY <1>3 DEF IsShown, Editor!Someone
<1>7. /\ q \in Editor!Page /\ q.status = status /\ q.active = r /\ q.draft = r /\ q.stored = r
      /\ q.marked = w.marked /\ q.message = w.message
  BY <1>5, <1>6 DEF Editor!Page
<1>8. QED BY <1>1, <1>3, <1>7 DEF IsShown, IsFollowing

LEMMA RestoredPage ==
    ASSUME NEW p \in Editor!Page, NEW r \in Request, poll.seen \in {"completed", "failed", "cancelled"},
           NEW q, q = Editor!restoreRefineOperation(p, r), p.message[r] = "none" => r \notin p.marked
    PROVE  /\ IsSettled(q, p, r)
           /\ q.draft = Editor!Without(p.draft, r) \/ q.draft = Editor!Nobody
<1>1. PICK shown \in {"running", "done", "failed", "cancelled"} :
          shown = IF poll.seen = "completed" THEN "done" ELSE poll.seen
  OBVIOUS
<1>2. PICK w : w = [p EXCEPT !.message[r] = IF @ = "none" THEN shown ELSE @] OBVIOUS
<1>3. IsShown(w, p, r, shown) BY <1>2, ShownPage
<1>4. CASE poll.seen = "cancelled"
  <2>1. PICK u : u = [w EXCEPT !.draft = r] OBVIOUS
  <2>2. q = Editor!markRefineCancelled(u, r)
    BY <1>1, <1>2, <1>4, <2>1 DEF Editor!restoreRefineOperation, Editor!SeenActive
  <2>3. w \in Editor!Page /\ r \in Editor!Someone BY <1>3 DEF IsShown, Editor!Someone
  <2>4. /\ u \in Editor!Page /\ u.status = w.status /\ u.active = w.active /\ u.draft = r
        /\ u.stored = w.stored /\ u.marked = w.marked /\ u.message = w.message
    BY <2>1, <2>3 DEF Editor!Page
  <2>5. u.message[r] # "none" BY <1>3, <2>4 DEF IsShown
  <2>6. IsSettled(q, u, r) /\ q.draft = Editor!Without(r, r) /\ q.message[r] = "cancelled"
    BY <2>2, <2>4, <2>5, MarkedPage
  <2>7. QED BY <1>3, <2>4, <2>6 DEF IsShown, IsSettled, Editor!Without
<1>5. CASE poll.seen \in {"completed", "failed"}
  <2>1. PICK status \in {"idle", "error"} : status = IF poll.seen = "failed" THEN "error" ELSE "idle"
    OBVIOUS
  <2>2. PICK u : u = [w EXCEPT !.status = status] OBVIOUS
  <2>3. q = Editor!clearActiveRefine(u, r)
    BY <1>1, <1>2, <1>5, <2>1, <2>2 DEF Editor!restoreRefineOperation, Editor!SeenActive
  <2>4. w \in Editor!Page BY <1>3 DEF IsShown
  <2>5. /\ u \in Editor!Page /\ u.status = status /\ u.active = w.active /\ u.draft = w.draft
        /\ u.stored = w.stored /\ u.marked = w.marked /\ u.message = w.message
    BY <2>2, <2>4 DEF Editor!Page
  <2>6. IsCleared(q, u, r) BY <2>3, <2>5, ClearedPage
  <2>7. QED BY <1>3, <2>5, <2>6 DEF IsShown, IsCleared, IsSettled
<1>6. QED BY <1>4, <1>5

\* A step of the server, or of a call: the page does not see it yet.
LEMMA Unseen ==
    ASSUME EditorInvariant, Editor!TypeOK', UNCHANGED <<awaited, page, poll, astray>>,
           loading => loading',
           \A r \in Request : op[r] # "absent" => op'[r] # "absent",
           \A r \in Request : op'[r] # "absent" \/ r \in handling' => post'[r] # "none",
           \A r \in Request : post[r] # "none" => post'[r] # "none",
           \A c \in Call : /\ Pending(c)' <=> Pending(c)
                           /\ calls'[c].req = calls[c].req /\ calls'[c].heard = calls[c].heard
    PROVE  EditorInvariant'
<1>1. /\ page \in Editor!Page /\ poll.req \in Editor!Someone /\ awaited \subseteq Request
      /\ \A c \in Call : Pending(c) => calls[c].req \in Request
  BY DEF EditorInvariant, Editor!TypeOK, Pending, Editor!CallSet, Editor!NoCall, Editor!CallOver
<1>2. Submitted'
  BY <1>1 DEF EditorInvariant, Submitted, Editor!Page, Editor!Someone
<1>3. Polled' BY <1>1 DEF EditorInvariant, Polled, Editor!Someone
<1>4. \A r \in Request : Followed(r) => Followed(r)' BY DEF Followed
<1>5. Tended' BY <1>1, <1>4 DEF EditorInvariant, Tended, Editor!Page, Editor!Someone
<1>6. Left' BY <1>1, <1>4 DEF EditorInvariant, Left, Editor!Page
<1>7. QED BY <1>2, <1>3, <1>5, <1>6 DEF EditorInvariant

\* A step that tells the page how r ended.
LEMMA Settling ==
    ASSUME EditorInvariant, Editor!Assumptions, Editor!TypeOK', NEW r \in Request, post[r] # "none",
           IsSettled(page', page, r), page' \in Editor!Page,
           page'.draft = Editor!Without(page.draft, r) \/ (page'.draft = Editor!Nobody /\ poll.req = r),
           UNCHANGED <<op, handling>>, astray' = astray,
           \A n \in Request : post[n] # "none" => post'[n] # "none",
           awaited' \subseteq awaited, awaited \ {r} \subseteq awaited',
           \A c \in Call : Pending(c)' => calls'[c] = calls[c],
           poll' = poll \/ (poll.req = r /\ poll'.stage = "off")
    PROVE  EditorInvariant'
<1>1. /\ page \in Editor!Page /\ poll.req \in Editor!Someone /\ awaited \subseteq Request
      /\ Editor!Nobody \notin Request
      /\ \A c \in Call : Pending(c) => calls[c].req \in Request
      /\ \A c \in Call : Pending(c)' => Pending(c)
  BY DEF EditorInvariant, Editor!TypeOK, Pending, Editor!CallSet, Editor!NoCall, Editor!CallOver,
         Editor!Assumptions
<1>2. /\ \A n \in Request : page.message[n] # "none" => page'.message[n] # "none"
      /\ page'.draft # Editor!Nobody => page'.draft = page.draft
      /\ page'.status \notin {"loading", "refining", "cancelling"}
  BY <1>1 DEF IsSettled, Editor!Without
<1>3. Submitted'
  <2>1. \A n \in Request : op'[n] # "absent" \/ n \in handling' => post'[n] # "none"
    BY DEF EditorInvariant, Submitted
  <2>2. \A n \in awaited' : post'[n] # "none" /\ page'.message[n] # "none"
    BY <1>1, <1>2 DEF EditorInvariant, Submitted
  <2>3. page'.draft # Editor!Nobody => post'[page'.draft] # "none" /\ page'.message[page'.draft] # "none"
    <3>1. SUFFICES ASSUME page'.draft # Editor!Nobody
                   PROVE  post'[page.draft] # "none" /\ page'.message[page.draft] # "none"
      BY <1>2
    <3>2. page.draft \in Request BY <1>1, <1>2, <3>1 DEF Editor!Page, Editor!Someone
    <3>3. QED BY <1>2, <3>1, <3>2 DEF EditorInvariant, Submitted
  <2>4. \A c \in Call : Pending(c)' =>
            post'[calls'[c].req] # "none" /\ (calls'[c].heard => page'.message[calls'[c].req] # "none")
    BY <1>1, <1>2 DEF EditorInvariant, Submitted
  <2>5. ASSUME NEW n \in page'.marked PROVE post'[n] # "none" /\ page'.message[n] # "none"
    <3>1. n \in page.marked \/ n = r BY DEF IsSettled
    <3>2. page.marked \subseteq Request BY <1>1 DEF Editor!Page
    <3>3. QED BY <1>2, <3>1, <3>2 DEF IsSettled, EditorInvariant, Submitted
  <2>6. QED BY <2>1, <2>2, <2>3, <2>4, <2>5 DEF Submitted
<1>4. Polled' BY DEF EditorInvariant, Polled
<1>5. \A n \in Request \ {r} : Followed(n) /\ page'.active = n => Followed(n)'
  BY <1>1 DEF Followed, Editor!Without
<1>6. page'.active # Editor!Nobody => page'.active = page.active /\ page.active # r /\ page.active \in Request
  BY <1>1 DEF IsSettled, Editor!Without, Editor!Page, Editor!Someone
<1>7. Tended'
  <2>1. PICK a : a = page'.active OBVIOUS
  <2>2. a # Editor!Nobody => astray' \/ a \in awaited' \/ Followed(a)'
    BY <1>5, <1>6, <2>1 DEF EditorInvariant, Tended
  <2>3. a # Editor!Nobody /\ Followed(a)' => poll'.stage # "off" /\ Followed(page.active)'
    BY <2>1 DEF Followed
  <2>4. QED BY <1>2, <2>1, <2>2, <2>3 DEF Tended
<1>8. Left'
  <2>1. ASSUME NEW n \in page'.marked
        PROVE  /\ astray' \/ page'.message[n] = "cancelled"
               /\ page'.stored = n => astray' \/ Followed(n)'
    <3>1. n \in Request BY DEF Editor!Page
    <3>2. CASE n = r
      <4>1. page'.stored # r BY <1>1 DEF IsSettled, Editor!Without
      <4>2. QED BY <3>2, <4>1 DEF IsSettled, EditorInvariant, Left
    <3>3. CASE n # r
      <4>1. n \in page.marked /\ page'.message[n] = page.message[n] BY <3>1, <3>3 DEF IsSettled
      <4>2. page'.stored = n => page.stored = n BY <1>1, <3>1 DEF IsSettled, Editor!Without
      <4>3. Followed(n) => page'.active = n BY <3>3 DEF Followed, IsSettled, Editor!Without
      <4>4. QED BY <1>5, <3>1, <3>3, <4>1, <4>2, <4>3 DEF EditorInvariant, Left
    <3>4. QED BY <3>2, <3>3
  <2>2. QED BY <2>1 DEF Left
<1>9. QED BY <1>3, <1>4, <1>7, <1>8 DEF EditorInvariant

LEMMA CallTyped ==
    ASSUME Editor!TypeOK, NEW c \in Call, Pending(c),
           NEW at \in {"sent", "working", "cancelled", "already_finished", "error"},
           calls' = [calls EXCEPT ![c].at = at]
    PROVE  /\ calls' \in [Call -> Editor!CallSet \cup {Editor!NoCall, Editor!CallOver}]
           /\ \A d \in Call : /\ Pending(d)' <=> Pending(d)
                              /\ calls'[d].req = calls[d].req /\ calls'[d].heard = calls[d].heard
           /\ calls[c].req \in Request
<1>1. calls[c] \in Editor!CallSet
  BY DEF Editor!TypeOK, Pending, Editor!NoCall, Editor!CallOver
<1>2. PICK k : k = [calls[c] EXCEPT !.at = at] OBVIOUS
<1>3. k \in Editor!CallSet /\ k.at = at /\ k.req = calls[c].req /\ k.heard = calls[c].heard
  BY <1>1, <1>2 DEF Editor!CallSet
<1>4. calls' = [calls EXCEPT ![c] = k] BY <1>2
<1>5. calls \in [Call -> Editor!CallSet \cup {Editor!NoCall, Editor!CallOver}] BY DEF Editor!TypeOK
<1>6. /\ calls' \in [Call -> Editor!CallSet \cup {Editor!NoCall, Editor!CallOver}]
      /\ calls'[c] = k /\ \A d \in Call \ {c} : calls'[d] = calls[d]
  BY <1>3, <1>4, <1>5
<1>7. at \notin {"idle", "over"} OBVIOUS
<1>8. calls[c].req \in Request BY <1>1 DEF Editor!CallSet
<1>9. QED BY <1>3, <1>6, <1>7, <1>8 DEF Pending

LEMMA ServerKeeps ==
    ASSUME EditorInvariant, Editor!Assumptions,
           \/ \E r \in Request : Editor!postArrives(r)
           \/ \E r \in Request, outcome \in Editor!Ended : Editor!handlerEnds(r, outcome)
           \/ \E c \in Call : Editor!cancelArrives(c)
           \/ \E c \in Call, accepted \in BOOLEAN : Editor!cancelDecided(c, accepted)
           \/ Editor!restoreVersion
    PROVE  EditorInvariant'
<1>1. Editor!TypeOK /\ Submitted BY DEF EditorInvariant
<1>2. ASSUME NEW r \in Request, Editor!postArrives(r) PROVE EditorInvariant'
  <2>1. /\ post[r] = "sent"
        /\ \/ post' = [post EXCEPT ![r] = "error"] /\ UNCHANGED <<op, handling, latest>>
           \/ /\ post' = [post EXCEPT ![r] = "open"] /\ op' = [op EXCEPT ![r] = "running"]
              /\ handling' = handling \cup {r} /\ latest' = r
        /\ UNCHANGED <<awaited, calls, page, poll, loading, loaded, astray, upsets>>
    BY <1>2 DEF Editor!postArrives, Editor!serverVars
  <2>2. Editor!TypeOK' BY <1>1, <2>1 DEF Editor!TypeOK, Editor!OpStatus, Editor!Someone
  <2>3. /\ \A n \in Request : op[n] # "absent" => op'[n] # "absent"
        /\ \A n \in Request : op'[n] # "absent" \/ n \in handling' => post'[n] # "none"
        /\ \A n \in Request : post[n] # "none" => post'[n] # "none"
    BY <1>1, <2>1 DEF Editor!TypeOK, Submitted
  <2>4. \A c \in Call : /\ Pending(c)' <=> Pending(c)
                        /\ calls'[c].req = calls[c].req /\ calls'[c].heard = calls[c].heard
    BY <2>1 DEF Pending
  <2>5. QED BY <2>1, <2>2, <2>3, <2>4, Unseen
<1>3. ASSUME NEW r \in Request, NEW outcome \in Editor!Ended, Editor!handlerEnds(r, outcome)
      PROVE  EditorInvariant'
  <2>1. /\ r \in handling
        /\ op' = [op EXCEPT ![r] = outcome]
        /\ handling' = handling \ {r}
        /\ post' = IF post[r] = "open" THEN [post EXCEPT ![r] = outcome] ELSE post
        /\ UNCHANGED <<latest, awaited, calls, page, poll, loading, loaded, astray, upsets>>
    BY <1>3 DEF Editor!handlerEnds
  <2>2. Editor!TypeOK' BY <1>1, <2>1 DEF Editor!TypeOK, Editor!OpStatus
  <2>3. post[r] # "none" /\ outcome \notin {"absent", "none"}
    BY <1>1, <2>1 DEF Editor!Ended, Submitted
  <2>4. /\ \A n \in Request : op[n] # "absent" => op'[n] # "absent"
        /\ \A n \in Request : op'[n] # "absent" \/ n \in handling' => post'[n] # "none"
        /\ \A n \in Request : post[n] # "none" => post'[n] # "none"
    BY <1>1, <2>1, <2>3 DEF Editor!TypeOK, Submitted
  <2>5. \A c \in Call : /\ Pending(c)' <=> Pending(c)
                        /\ calls'[c].req = calls[c].req /\ calls'[c].heard = calls[c].heard
    BY <2>1 DEF Pending
  <2>6. QED BY <2>1, <2>2, <2>4, <2>5, Unseen
<1>4. ASSUME NEW c \in Call, Editor!cancelArrives(c) PROVE EditorInvariant'
  <2>0. PICK r : r = calls[c].req OBVIOUS
  <2>1. PICK at \in {"sent", "working", "cancelled", "already_finished", "error"} :
            /\ Pending(c) /\ calls' = [calls EXCEPT ![c].at = at]
            /\ op' = op \/ (op[r] # "absent" /\ op' = [op EXCEPT ![r] = "cancelling"])
            /\ UNCHANGED <<handling, latest, post, awaited, page, poll, loading, loaded, astray, upsets>>
    <3>1. calls[c].at = "sent" /\ Pending(c) BY <1>4 DEF Editor!cancelArrives, Pending
    <3>2. PICK at \in {"sent", "working", "cancelled", "already_finished", "error"} :
              /\ calls' = [calls EXCEPT ![c].at = at]
              /\ op' = op \/ (op[calls[c].req] # "absent" /\ op' = [op EXCEPT ![calls[c].req] = "cancelling"])
      BY <1>4 DEF Editor!cancelArrives, Editor!To
    <3>3. UNCHANGED <<handling, latest, post, awaited, page, poll, loading, loaded, astray, upsets>>
      BY <1>4 DEF Editor!cancelArrives
    <3>4. QED BY <2>0, <3>1, <3>2, <3>3
  <2>2. /\ calls' \in [Call -> Editor!CallSet \cup {Editor!NoCall, Editor!CallOver}]
        /\ \A d \in Call : /\ Pending(d)' <=> Pending(d)
                           /\ calls'[d].req = calls[d].req /\ calls'[d].heard = calls[d].heard
        /\ r \in Request
    BY <1>1, <2>0, <2>1, CallTyped
  <2>3. Editor!TypeOK' BY <1>1, <2>1, <2>2 DEF Editor!TypeOK, Editor!OpStatus
  <2>4. /\ \A n \in Request : op[n] # "absent" => op'[n] # "absent"
        /\ \A n \in Request : op'[n] # "absent" \/ n \in handling' => post'[n] # "none"
    BY <1>1, <2>0, <2>1, <2>2 DEF Editor!TypeOK, Submitted
  <2>5. QED BY <2>1, <2>2, <2>3, <2>4, Unseen
<1>5. ASSUME NEW c \in Call, NEW accepted \in BOOLEAN, Editor!cancelDecided(c, accepted)
      PROVE  EditorInvariant'
  <2>0. PICK r : r = calls[c].req OBVIOUS
  <2>1. PICK at \in {"sent", "working", "cancelled", "already_finished", "error"} :
            /\ Pending(c) /\ calls' = [calls EXCEPT ![c].at = at]
            /\ op' = [op EXCEPT ![r] = IF accepted THEN "cancelled" ELSE "running"]
            /\ handling' = IF accepted THEN handling ELSE handling \cup {r}
            /\ UNCHANGED <<latest, post, awaited, page, poll, loading, loaded, astray, upsets>>
    <3>1. PICK at \in {"sent", "working", "cancelled", "already_finished", "error"} :
              at = IF accepted THEN "cancelled" ELSE "error"
      OBVIOUS
    <3>2. Pending(c) BY <1>5 DEF Editor!cancelDecided, Pending
    <3>3. calls' = [calls EXCEPT ![c].at = at] BY <1>5, <3>1 DEF Editor!cancelDecided, Editor!To
    <3>4. QED BY <1>5, <2>0, <3>2, <3>3 DEF Editor!cancelDecided
  <2>2. /\ calls' \in [Call -> Editor!CallSet \cup {Editor!NoCall, Editor!CallOver}]
        /\ \A d \in Call : /\ Pending(d)' <=> Pending(d)
                           /\ calls'[d].req = calls[d].req /\ calls'[d].heard = calls[d].heard
        /\ r \in Request
    BY <1>1, <2>0, <2>1, CallTyped
  <2>3. Editor!TypeOK' BY <1>1, <2>1, <2>2 DEF Editor!TypeOK, Editor!OpStatus, Editor!Ended
  <2>4. /\ \A n \in Request : op[n] # "absent" => op'[n] # "absent"
        /\ \A n \in Request : op'[n] # "absent" \/ n \in handling' => post'[n] # "none"
    BY <1>1, <2>0, <2>1, <2>2 DEF Editor!TypeOK, Submitted
  <2>5. QED BY <2>1, <2>2, <2>3, <2>4, Unseen
<1>6. CASE Editor!restoreVersion
  <2>1. /\ loading' = TRUE /\ Editor!Upset
        /\ UNCHANGED <<op, handling, latest, post, awaited, calls, page, poll, loaded, astray>>
    BY <1>6 DEF Editor!restoreVersion, Editor!serverVars
  <2>2. Editor!TypeOK' BY <1>1, <2>1 DEF Editor!TypeOK, Editor!Upset, Editor!Assumptions
  <2>3. \A d \in Call : /\ Pending(d)' <=> Pending(d)
                        /\ calls'[d].req = calls[d].req /\ calls'[d].heard = calls[d].heard
    BY <2>1 DEF Pending
  <2>4. \A n \in Request : op'[n] # "absent" \/ n \in handling' => post'[n] # "none"
    BY <1>1, <2>1 DEF Submitted
  <2>5. QED BY <2>1, <2>2, <2>3, <2>4, Unseen
<1>7. QED BY <1>2, <1>3, <1>4, <1>5, <1>6

\* The page as it opens.
FreshIs(p, q, s) ==
    /\ p \in Editor!Page /\ p.status = "loading" /\ p.active = Editor!Nobody /\ p.draft = Editor!Nobody
    /\ p.marked = {}
    /\ q \in [stage : {"off", "asked", "answered"}, req : Editor!Someone,
              seen : Editor!OpStatus, keep : Editor!Someone]
    /\ q.stage = "asked" /\ q.req = s /\ q.keep = s

LEMMA FreshState ==
    ASSUME NEW s \in Editor!Someone, NEW p, NEW q, p = Editor!FreshPage(s), q = Editor!FirstPoll(s)
    PROVE  FreshIs(p, q, s)
<1>1. Editor!Nobody \in Editor!Someone BY DEF Editor!Someone
<1>2. p \in Editor!Page /\ p.status = "loading" /\ p.active = Editor!Nobody /\ p.draft = Editor!Nobody /\ p.marked = {}
  BY <1>1 DEF Editor!FreshPage, Editor!Page
<1>3. /\ q \in [stage : {"off", "asked", "answered"}, req : Editor!Someone,
                seen : Editor!OpStatus, keep : Editor!Someone]
      /\ q.stage = "asked" /\ q.req = s /\ q.keep = s
  BY DEF Editor!FirstPoll, Editor!OpStatus
<1>4. QED BY <1>2, <1>3 DEF FreshIs

\* Loads and failed calls.
LEMMA LoadingKeeps ==
    ASSUME EditorInvariant, Editor!Assumptions, Editor!variationLoaded \/ Editor!callFails
    PROVE  EditorInvariant'
<1>1. Editor!TypeOK /\ Submitted /\ page \in Editor!Page BY DEF EditorInvariant, Editor!TypeOK
<1>2. ASSUME NEW status \in {"idle", "error"}, page' = [page EXCEPT !.status = status],
             Editor!TypeOK', UNCHANGED <<op, handling, post, awaited, calls, poll, astray>>
      PROVE  EditorInvariant'
  <2>1. /\ page'.status = status /\ page'.active = page.active /\ page'.draft = page.draft
        /\ page'.stored = page.stored /\ page'.marked = page.marked /\ page'.message = page.message
    BY <1>1, <1>2 DEF Editor!Page
  <2>2. Submitted' /\ Polled'
    BY <1>2, <2>1 DEF EditorInvariant, Submitted, Polled, Pending
  <2>3. Tended' /\ Left' BY <1>2, <2>1 DEF EditorInvariant, Tended, Left, Followed
  <2>4. QED BY <1>2, <2>2, <2>3 DEF EditorInvariant
<1>3. \A status \in {"idle", "error"} : [page EXCEPT !.status = status] \in Editor!Page
  BY <1>1 DEF Editor!Page
<1>4. CASE Editor!variationLoaded
  <2>1. PICK status \in {"idle", "error"} : status = "idle" OBVIOUS
  <2>2. /\ page' = [page EXCEPT !.status = status] /\ loaded' = TRUE /\ loading' = FALSE
        /\ UNCHANGED <<op, handling, latest, post, awaited, calls, poll, astray, upsets>>
    BY <1>4, <2>1 DEF Editor!variationLoaded, Editor!serverVars
  <2>3. Editor!TypeOK' BY <1>1, <1>3, <2>2 DEF Editor!TypeOK
  <2>4. QED BY <1>2, <2>2, <2>3
<1>5. CASE Editor!callFails
  <2>1. Editor!Upset /\ UNCHANGED <<op, handling, latest, awaited, loaded, astray>>
    BY <1>5 DEF Editor!callFails, Editor!serverVars
  <2>2. upsets' \in 0 .. MaxUpsets
    BY <1>1, <2>1 DEF Editor!Upset, Editor!TypeOK, Editor!Assumptions
  <2>3. CASE /\ \E r \in Request : post[r] \in {"sent", "open"} /\ post' = [post EXCEPT ![r] = "error"]
             /\ UNCHANGED <<calls, poll, loading, page>>
    <3>1. Editor!TypeOK' BY <1>1, <2>1, <2>2, <2>3 DEF Editor!TypeOK
    <3>2. \A d \in Call : /\ Pending(d)' <=> Pending(d)
                          /\ calls'[d].req = calls[d].req /\ calls'[d].heard = calls[d].heard
      BY <2>3 DEF Pending
    <3>3. /\ \A n \in Request : op'[n] # "absent" \/ n \in handling' => post'[n] # "none"
          /\ \A n \in Request : post[n] # "none" => post'[n] # "none"
      BY <1>1, <2>1, <2>3 DEF Editor!TypeOK, Submitted
    <3>4. QED BY <2>1, <2>3, <3>1, <3>2, <3>3, Unseen
  <2>4. CASE /\ \E c \in Call :
                 calls[c].at \in {"sent", "cancelled", "already_finished"} /\ Editor!To(c, "error")
             /\ UNCHANGED <<post, poll, loading, page>>
    <3>1. PICK at \in {"sent", "working", "cancelled", "already_finished", "error"}, c \in Call :
              Pending(c) /\ calls' = [calls EXCEPT ![c].at = at]
      BY <2>4 DEF Editor!To, Pending
    <3>2. /\ calls' \in [Call -> Editor!CallSet \cup {Editor!NoCall, Editor!CallOver}]
          /\ \A d \in Call : /\ Pending(d)' <=> Pending(d)
                             /\ calls'[d].req = calls[d].req /\ calls'[d].heard = calls[d].heard
      BY <1>1, <3>1, CallTyped
    <3>3. Editor!TypeOK' BY <1>1, <2>1, <2>2, <2>4, <3>2 DEF Editor!TypeOK
    <3>4. \A n \in Request : op'[n] # "absent" \/ n \in handling' => post'[n] # "none"
      BY <1>1, <2>1, <2>4 DEF Submitted
    <3>5. QED BY <2>1, <2>4, <3>2, <3>3, <3>4, Unseen
  <2>5. CASE /\ loading /\ loading' = FALSE
             /\ page' = [page EXCEPT !.status = "error"]
             /\ UNCHANGED <<post, calls, poll>>
    <3>1. PICK status \in {"idle", "error"} : status = "error" OBVIOUS
    <3>2. page' = [page EXCEPT !.status = status] BY <2>5, <3>1
    <3>3. Editor!TypeOK' BY <1>1, <1>3, <2>1, <2>2, <2>5, <3>2 DEF Editor!TypeOK
    <3>4. QED BY <1>2, <2>1, <2>5, <3>2, <3>3
  <2>6. QED BY <1>5, <2>3, <2>4, <2>5 DEF Editor!callFails
<1>6. QED BY <1>4, <1>5

\* A refine is submitted.
LEMMA SubmitKeeps ==
    ASSUME EditorInvariant, Editor!Assumptions, NEW r \in Request, Editor!submitRefine(r)
    PROVE  EditorInvariant'
<1>1. Editor!TypeOK /\ Submitted /\ page \in Editor!Page /\ r \in Editor!Someone
  BY DEF EditorInvariant, Editor!TypeOK, Editor!Someone
<1>2. /\ post[r] = "none" /\ post' = [post EXCEPT ![r] = "sent"] /\ awaited' = awaited \cup {r}
      /\ UNCHANGED <<op, handling, latest, calls, poll, loading, loaded, astray, upsets>>
  BY DEF Editor!submitRefine, Editor!serverVars
<1>3. PICK ms : ms = [page.message EXCEPT ![r] = "running"] OBVIOUS
<1>4. page' = [page EXCEPT !.status = "refining", !.active = r, !.draft = r, !.stored = r, !.message = ms]
  BY <1>3 DEF Editor!submitRefine
<1>5. page.message \in [Request -> {"none", "running", "done", "failed", "cancelled"}] BY <1>1 DEF Editor!Page
<1>6. /\ ms \in [Request -> {"none", "running", "done", "failed", "cancelled"}] /\ ms[r] # "none"
      /\ \A n \in Request \ {r} : ms[n] = page.message[n]
  BY <1>3, <1>5
<1>7. /\ page' \in Editor!Page /\ page'.status = "refining" /\ page'.active = r /\ page'.draft = r
      /\ page'.stored = r /\ page'.marked = page.marked /\ page'.message = ms
  BY <1>1, <1>4, <1>6 DEF Editor!Page
<1>8. post'[r] # "none" /\ \A n \in Request \ {r} : post'[n] = post[n]
  BY <1>1, <1>2 DEF Editor!TypeOK
<1>9. Editor!TypeOK' BY <1>1, <1>2, <1>7 DEF Editor!TypeOK
<1>10. \A c \in Call : Pending(c) => calls[c].req \in Request
  BY <1>1 DEF Editor!TypeOK, Pending, Editor!CallSet, Editor!NoCall, Editor!CallOver
<1>11. page.marked \subseteq Request \ {r} /\ awaited \subseteq Request
  BY <1>1, <1>2 DEF Submitted, Editor!Page, Editor!TypeOK
<1>12. Submitted'
  BY <1>1, <1>2, <1>6, <1>7, <1>8, <1>10, <1>11 DEF Submitted, Pending
<1>13. Polled' BY <1>2 DEF EditorInvariant, Polled
<1>14. Tended' BY <1>2, <1>7 DEF Tended
<1>15. Left' BY <1>2, <1>6, <1>7, <1>11 DEF EditorInvariant, Left
<1>16. QED BY <1>9, <1>12, <1>13, <1>14, <1>15 DEF EditorInvariant

\* A POST is answered.
LEMMA SubmitAnswerKeeps ==
    ASSUME EditorInvariant, Editor!Assumptions, NEW r \in Request, Editor!handleSubmit(r)
    PROVE  EditorInvariant'
<1>1. Editor!TypeOK /\ Submitted /\ page \in Editor!Page BY DEF EditorInvariant, Editor!TypeOK
<1>2. /\ r \in awaited /\ post[r] \in Editor!Ended \cup {"error"} /\ awaited' = awaited \ {r}
      /\ post' = [post EXCEPT ![r] = "over"] /\ page' = Editor!submitAnswered(page, r, post[r])
      /\ loading' = (loading \/ page'.message[r] = "done")
      /\ UNCHANGED <<op, handling, latest, calls, poll, loaded, astray, upsets>>
  BY DEF Editor!handleSubmit, Editor!serverVars
<1>3. post[r] # "none" /\ page.message[r] # "none" BY <1>1, <1>2 DEF Submitted
<1>4. PICK p, q, answer : p = page /\ q = page' /\ answer = post[r] OBVIOUS
<1>5. IsSettled(q, p, r) /\ q.draft = Editor!Without(p.draft, r)
  BY <1>1, <1>2, <1>3, <1>4, AnsweredPage
<1>6. IsSettled(page', page, r) /\ page'.draft = Editor!Without(page.draft, r) /\ page' \in Editor!Page
  BY <1>4, <1>5 DEF IsSettled
<1>7. Editor!TypeOK' BY <1>1, <1>2, <1>6 DEF Editor!TypeOK
<1>8. \A n \in Request : post[n] # "none" => post'[n] # "none" BY <1>1, <1>2 DEF Editor!TypeOK
<1>9. QED BY <1>2, <1>3, <1>6, <1>7, <1>8, Settling

\* A cancel is asked for, and answered.
LEMMA CancelKeepsPage ==
    ASSUME EditorInvariant, Editor!Assumptions, NEW c \in Call,
           Editor!cancelActiveRefine(c) \/ Editor!handleCancel(c)
    PROVE  EditorInvariant'
<1>1. Editor!TypeOK /\ Submitted /\ page \in Editor!Page /\ Editor!Nobody \notin Request
  BY DEF EditorInvariant, Editor!TypeOK, Editor!Assumptions
<1>2. calls \in [Call -> Editor!CallSet \cup {Editor!NoCall, Editor!CallOver}] BY <1>1 DEF Editor!TypeOK
<1>3. /\ Editor!NoCall.at = "idle" /\ Editor!CallOver.at = "over"
      /\ \A k \in Editor!CallSet : k.req \in Request /\ k.at \notin {"idle", "over"}
  BY DEF Editor!NoCall, Editor!CallOver, Editor!CallSet
<1>4. CASE Editor!cancelActiveRefine(c)
  <2>1. PICK k : k = [req |-> page.draft, at |-> "sent", heard |-> TRUE] OBVIOUS
  <2>2. /\ page.draft # Editor!Nobody /\ calls[c] = Editor!NoCall /\ calls' = [calls EXCEPT ![c] = k]
        /\ page' = [page EXCEPT !.status = "cancelling"]
        /\ UNCHANGED <<op, handling, latest, post, awaited, poll, loading, loaded, astray, upsets>>
    BY <1>4, <2>1 DEF Editor!cancelActiveRefine, Editor!serverVars
  <2>3. /\ page' \in Editor!Page /\ page'.status = "cancelling" /\ page'.active = page.active
        /\ page'.draft = page.draft /\ page'.stored = page.stored /\ page'.marked = page.marked
        /\ page'.message = page.message
    BY <1>1, <2>2 DEF Editor!Page
  <2>4. page.draft \in Request BY <1>1, <2>2 DEF Editor!Page, Editor!Someone
  <2>5. k \in Editor!CallSet /\ k.req = page.draft /\ k.at = "sent" /\ k.heard = TRUE
    BY <2>1, <2>4 DEF Editor!CallSet
  <2>6. /\ calls' \in [Call -> Editor!CallSet \cup {Editor!NoCall, Editor!CallOver}]
        /\ calls'[c] = k /\ \A d \in Call \ {c} : calls'[d] = calls[d]
    BY <1>2, <2>2, <2>5
  <2>7. Editor!TypeOK' BY <1>1, <2>2, <2>3, <2>6 DEF Editor!TypeOK
  <2>8. Submitted' BY <1>1, <2>2, <2>3, <2>5, <2>6 DEF Submitted, Pending
  <2>9. Polled' /\ Left' BY <2>2, <2>3 DEF EditorInvariant, Polled, Left, Followed
  <2>10. Pending(c)' /\ calls'[c].heard BY <2>5, <2>6 DEF Pending
  <2>11. Tended' BY <2>2, <2>3, <2>10 DEF EditorInvariant, Tended, Followed
  <2>12. QED BY <2>7, <2>8, <2>9, <2>11 DEF EditorInvariant
<1>5. CASE Editor!handleCancel(c)
  <2>1. PICK r : r = calls[c].req OBVIOUS
  <2>2. /\ calls[c].at \in {"cancelled", "already_finished", "error"} /\ calls' = [calls EXCEPT ![c] = Editor!CallOver]
        /\ UNCHANGED <<op, handling, latest, post, awaited, poll, loading, loaded, upsets>>
    BY <1>5 DEF Editor!handleCancel, Editor!serverVars
  <2>3. Pending(c) /\ r \in Request BY <1>2, <1>3, <2>1, <2>2 DEF Pending
  <2>4. /\ calls' \in [Call -> Editor!CallSet \cup {Editor!NoCall, Editor!CallOver}]
        /\ ~Pending(c)' /\ \A d \in Call \ {c} : calls'[d] = calls[d]
        /\ \A d \in Call : Pending(d)' => calls'[d] = calls[d] /\ Pending(d) /\ d # c
    BY <1>2, <1>3, <2>2 DEF Pending
  <2>5. post[r] # "none" /\ (calls[c].heard => page.message[r] # "none")
    BY <1>1, <2>1, <2>3 DEF Submitted
  <2>6. CASE ~calls[c].heard /\ UNCHANGED <<page, astray>>
    <3>1. Editor!TypeOK' BY <1>1, <2>2, <2>4, <2>6 DEF Editor!TypeOK
    <3>2. Submitted' BY <1>1, <2>2, <2>4, <2>6 DEF Submitted
    <3>3. Polled' /\ Left' BY <2>2, <2>6 DEF EditorInvariant, Polled, Left, Followed
    <3>4. \A d \in Call : Pending(d) /\ calls[d].heard => Pending(d)' /\ calls'[d].heard
      BY <2>4, <2>6 DEF Pending
    <3>5. Tended' BY <2>2, <2>6, <3>4 DEF EditorInvariant, Tended, Followed
    <3>6. QED BY <3>1, <3>2, <3>3, <3>5 DEF EditorInvariant
  <2>7. CASE calls[c].heard /\ page' = Editor!markRefineCancelled(page, r) /\ UNCHANGED astray
    <3>1. PICK p, q : p = page /\ q = page' OBVIOUS
    <3>2. IsSettled(q, p, r) /\ q.draft = Editor!Without(p.draft, r)
      BY <1>1, <2>3, <2>5, <2>7, <3>1, MarkedPage
    <3>3. IsSettled(page', page, r) /\ page'.draft = Editor!Without(page.draft, r) /\ page' \in Editor!Page
      BY <3>1, <3>2 DEF IsSettled
    <3>4. Editor!TypeOK' BY <1>1, <2>2, <2>4, <2>7, <3>3 DEF Editor!TypeOK
    <3>5. QED BY <2>2, <2>3, <2>4, <2>5, <2>7, <3>3, <3>4, Settling
  <2>8. CASE /\ calls[c].heard
             /\ page' = [IF calls[c].at = "error" THEN Editor!updateRefineFeedback(page, r, "running")
                         ELSE page EXCEPT !.status = "refining"]
             /\ astray' = (astray \/ Editor!NotWaiting(r))
    <3>1. PICK w : w = IF calls[c].at = "error" THEN Editor!updateRefineFeedback(page, r, "running") ELSE page
      OBVIOUS
    <3>2. PICK shown \in {"running", "done", "failed", "cancelled"} : shown = "running" OBVIOUS
    <3>3. /\ w \in Editor!Page /\ w.marked = page.marked /\ w.active = page.active /\ w.draft = page.draft
          /\ w.stored = page.stored /\ (\A n \in Request \ {r} : w.message[n] = page.message[n])
          /\ w.message[r] # "none"
      <4>1. CASE calls[c].at = "error"
        <5>1. PICK p : p = page OBVIOUS
        <5>2. w = Editor!updateRefineFeedback(p, r, shown) BY <3>1, <3>2, <4>1, <5>1
        <5>3. p \in Editor!Page BY <1>1, <5>1
        <5>4. IsTold(w, p, r, shown) BY <2>3, <5>2, <5>3, ToldPage
        <5>5. QED BY <2>5, <2>8, <3>2, <5>1, <5>4 DEF IsTold
      <4>2. CASE calls[c].at # "error" BY <1>1, <2>5, <2>8, <3>1, <4>2
      <4>3. QED BY <4>1, <4>2
    <3>4. page' = [w EXCEPT !.status = "refining"] BY <2>8, <3>1
    <3>5. /\ page' \in Editor!Page /\ page'.status = "refining" /\ page'.active = page.active
          /\ page'.draft = page.draft /\ page'.stored = page.stored /\ page'.marked = page.marked
          /\ (\A n \in Request \ {r} : page'.message[n] = page.message[n]) /\ page'.message[r] # "none"
      BY <3>3, <3>4 DEF Editor!Page
    <3>6. Editor!TypeOK'
      <4>1. astray' \in BOOLEAN BY <1>1, <2>8 DEF Editor!TypeOK
      <4>2. QED BY <1>1, <2>2, <2>4, <3>5, <4>1 DEF Editor!TypeOK
    <3>7. \A n \in Request : page.message[n] # "none" => page'.message[n] # "none"
      BY <3>5
    <3>8. Submitted'
      <4>1. awaited \subseteq Request /\ page.draft \in Request \cup {Editor!Nobody} /\ page.marked \subseteq Request
            /\ \A d \in Call : Pending(d) => calls[d].req \in Request
        BY <1>1, <1>2, <1>3 DEF Editor!TypeOK, Editor!Page, Editor!Someone, Pending
      <4>2. QED BY <1>1, <2>2, <2>4, <3>5, <3>7, <4>1 DEF Submitted
    <3>9. Polled' BY <2>2 DEF EditorInvariant, Polled
    <3>10. \A n : Followed(n)' <=> Followed(n) BY <2>2, <3>5 DEF Followed
    <3>11. Tended'
      <4>0. PICK a : a = page.active OBVIOUS
      <4>1. a # Editor!Nobody => astray' \/ a \in awaited' \/ Followed(a)'
        BY <2>2, <2>8, <3>10, <4>0 DEF EditorInvariant, Tended
      <4>2. astray' \/ awaited' # {} \/ (poll'.stage # "off" /\ page'.active # Editor!Nobody)
        BY <1>1, <2>2, <2>3, <2>8, <3>5 DEF Editor!NotWaiting
      <4>3. Followed(a)' => Followed(page.active)' BY <3>5, <4>0 DEF Followed
      <4>4. QED BY <3>5, <4>0, <4>1, <4>2, <4>3 DEF Tended
    <3>12. Left'
      <4>1. r \in page.marked => astray' BY <2>8 DEF Editor!NotWaiting
      <4>2. astray => astray' BY <2>8
      <4>3. page.marked \subseteq Request BY <1>1 DEF Editor!Page
      <4>4. QED BY <2>2, <3>5, <3>10, <4>1, <4>2, <4>3 DEF EditorInvariant, Left
    <3>13. QED BY <3>6, <3>8, <3>9, <3>11, <3>12 DEF EditorInvariant
  <2>9. QED BY <1>5, <2>1, <2>6, <2>7, <2>8 DEF Editor!handleCancel
<1>6. QED BY <1>4, <1>5

\* Polls.
LEMMA PollKeeps ==
    ASSUME EditorInvariant, Editor!Assumptions,
           Editor!pollServed \/ Editor!pollFails \/ Editor!handlePoll
    PROVE  EditorInvariant'
<1>1. /\ Editor!TypeOK /\ Submitted /\ Polled /\ Tended /\ Left /\ page \in Editor!Page
      /\ Editor!Nobody \notin Request
  BY DEF EditorInvariant, Editor!TypeOK, Editor!Assumptions
<1>2. PICK S, R : S = {"off", "asked", "answered"} /\ R = Editor!Someone OBVIOUS
<1>3. poll \in [stage : S, req : R, seen : Editor!OpStatus, keep : R] /\ R = Request \cup {Editor!Nobody}
  BY <1>1, <1>2 DEF Editor!TypeOK, Editor!Someone
<1>4. CASE Editor!pollServed
  <2>1. PICK r : r = IF poll.req = Editor!Nobody THEN latest ELSE poll.req OBVIOUS
  <2>2. /\ poll.stage = "asked"
        /\ \/ /\ r = Editor!Nobody \/ op[r] = "absent"
              /\ poll' = [poll EXCEPT !.stage = "answered", !.req = Editor!Nobody]
           \/ /\ r # Editor!Nobody /\ op[r] # "absent"
              /\ poll' = [poll EXCEPT !.stage = "answered", !.req = r, !.seen = op[r]]
        /\ UNCHANGED <<op, handling, latest, post, awaited, calls, page, loading, loaded, astray, upsets>>
    BY <1>4, <2>1 DEF Editor!pollServed, Editor!serverVars
  <2>3. r \in R /\ (r # Editor!Nobody => r \in Request /\ op[r] \in Editor!OpStatus)
    BY <1>1, <1>2, <1>3, <2>1 DEF Editor!TypeOK
  <2>4. /\ poll' \in [stage : S, req : R, seen : Editor!OpStatus, keep : R]
        /\ poll'.stage = "answered" /\ poll'.keep = poll.keep
        /\ \/ poll'.req = Editor!Nobody /\ (r = Editor!Nobody \/ op[r] = "absent")
           \/ poll'.req = r /\ r # Editor!Nobody /\ op[r] # "absent" /\ poll'.seen = op[r]
    BY <1>2, <1>3, <2>2, <2>3
  <2>5. Editor!TypeOK' BY <1>1, <1>2, <2>2, <2>4 DEF Editor!TypeOK
  <2>6. Polled' BY <1>1, <2>1, <2>2, <2>4 DEF Polled
  <2>7. Submitted' BY <1>1, <2>2 DEF Submitted, Pending
  <2>8. \A n \in Request : Followed(n) => Followed(n)'
    BY <1>1, <2>1, <2>2, <2>4 DEF Followed
  <2>9. Tended' BY <1>1, <1>2, <1>3, <2>2, <2>4, <2>8 DEF Tended, Editor!Page, Pending
  <2>10. Left' BY <1>1, <2>2, <2>8 DEF Left, Editor!Page
  <2>11. QED BY <2>5, <2>6, <2>7, <2>9, <2>10 DEF EditorInvariant
<1>5. CASE Editor!pollFails
  <2>1. /\ poll.stage = "asked" /\ Editor!Upset
        /\ \/ /\ poll.keep = Editor!Nobody /\ poll' = [poll EXCEPT !.stage = "off"]
              /\ astray' = (astray \/ page.active # Editor!Nobody)
           \/ /\ poll.keep # Editor!Nobody /\ poll' = [poll EXCEPT !.req = poll.keep]
              /\ UNCHANGED astray
        /\ UNCHANGED <<op, handling, latest, post, awaited, calls, page, loading, loaded>>
    BY <1>5 DEF Editor!pollFails, Editor!serverVars
  <2>2. upsets' \in 0 .. MaxUpsets BY <1>1, <2>1 DEF Editor!Upset, Editor!TypeOK, Editor!Assumptions
  <2>3. Submitted' BY <1>1, <2>1 DEF Submitted, Pending
  <2>4. CASE poll.keep # Editor!Nobody
    <3>1. poll.req = poll.keep BY <1>1, <2>1, <2>4 DEF Polled
    <3>2. poll' = poll BY <1>2, <1>3, <2>1, <2>4, <3>1
    <3>3. Editor!TypeOK' BY <1>1, <2>1, <2>2, <2>4, <3>2 DEF Editor!TypeOK
    <3>4. Polled' /\ Tended' /\ Left'
      BY <1>1, <2>1, <2>4, <3>2 DEF Polled, Tended, Left, Followed, Pending
    <3>5. QED BY <2>3, <3>3, <3>4 DEF EditorInvariant
  <2>5. CASE poll.keep = Editor!Nobody
    <3>1. /\ poll' \in [stage : S, req : R, seen : Editor!OpStatus, keep : R]
          /\ poll'.stage = "off" /\ poll'.keep = poll.keep
      BY <1>2, <1>3, <2>1, <2>5
    <3>2. astray' = (astray \/ page.active # Editor!Nobody) BY <2>1, <2>5
    <3>3. Editor!TypeOK'
      <4>1. astray' \in BOOLEAN BY <1>1, <3>2 DEF Editor!TypeOK
      <4>2. QED BY <1>1, <1>2, <2>1, <2>2, <3>1, <4>1 DEF Editor!TypeOK
    <3>4. Polled' BY <3>1 DEF Polled
    <3>5. Tended' BY <1>1, <2>1, <3>1, <3>2 DEF Tended, Pending
    <3>6. Left'
      <4>1. page.marked \subseteq Request BY <1>1 DEF Editor!Page
      <4>2. \A n \in page.marked : page.stored = n => astray'
        BY <1>1, <3>2, <4>1 DEF Left, Followed
      <4>3. QED BY <1>1, <2>1, <3>2, <4>2 DEF Left
    <3>7. QED BY <2>3, <3>3, <3>4, <3>5, <3>6 DEF EditorInvariant
  <2>6. QED BY <2>4, <2>5
<1>6. CASE Editor!handlePoll
  <2>1. PICK r : r = poll.req OBVIOUS
  <2>2. /\ poll.stage = "answered"
        /\ UNCHANGED <<op, handling, latest, post, awaited, calls, loaded, astray, upsets>>
    BY <1>6 DEF Editor!handlePoll, Editor!serverVars
  <2>3. CASE ~Editor!Tracked(r)
    <3>1. poll' = [poll EXCEPT !.stage = "off", !.seen = "absent"] /\ UNCHANGED <<page, loading>>
      BY <1>6, <2>1, <2>3 DEF Editor!handlePoll
    <3>2. "absent" \in Editor!OpStatus BY DEF Editor!OpStatus
    <3>3. /\ poll' \in [stage : S, req : R, seen : Editor!OpStatus, keep : R] /\ poll'.stage = "off"
      BY <1>2, <1>3, <3>1, <3>2
    <3>4. Editor!TypeOK' BY <1>1, <1>2, <2>2, <3>1, <3>3 DEF Editor!TypeOK
    <3>5. Submitted' /\ Polled' BY <1>1, <2>2, <3>1, <3>3 DEF Submitted, Polled, Pending
    <3>6. \A n \in Request : ~Followed(n)
      BY <1>1, <2>1, <2>3 DEF Followed, Editor!Tracked
    <3>7. page.active # Editor!Nobody => page.active \in Request BY <1>1 DEF Editor!Page, Editor!Someone
    <3>8. Tended' BY <1>1, <2>2, <3>1, <3>6, <3>7 DEF Tended, Pending
    <3>9. Left'
      <4>1. page.marked \subseteq Request BY <1>1 DEF Editor!Page
      <4>2. QED BY <1>1, <2>2, <3>1, <3>6, <4>1 DEF Left
    <3>10. QED BY <3>4, <3>5, <3>8, <3>9 DEF EditorInvariant
  <2>4. CASE Editor!Tracked(r)
    <3>1. /\ page' = Editor!restoreRefineOperation(page, r)
          /\ poll' = [poll EXCEPT !.stage = IF Editor!SeenActive THEN "asked" ELSE "off", !.seen = "absent"]
          /\ loading' = (loading \/ poll.seen = "completed")
      BY <1>6, <2>1, <2>4 DEF Editor!handlePoll
    <3>2. r \in Request /\ r # Editor!Nobody /\ op[r] # "absent" /\ poll.seen # "absent"
      BY <1>1, <1>3, <2>1, <2>2, <2>4 DEF Editor!Tracked, Polled
    <3>3. post[r] # "none" /\ (page.message[r] = "none" => r \notin page.marked)
      BY <1>1, <3>2 DEF Submitted
    <3>4. PICK p, q : p = page /\ q = page' OBVIOUS
    <3>5. "absent" \in Editor!OpStatus /\ poll.seen \in Editor!OpStatus BY <1>3 DEF Editor!OpStatus
    <3>6. /\ poll' \in [stage : S, req : R, seen : Editor!OpStatus, keep : R]
          /\ poll'.stage = (IF Editor!SeenActive THEN "asked" ELSE "off")
          /\ poll'.req = poll.req /\ poll'.keep = poll.keep
      BY <1>2, <1>3, <3>1, <3>5
    <3>7. loading' \in BOOLEAN /\ (loading => loading') BY <1>1, <3>1 DEF Editor!TypeOK
    <3>8. CASE poll.seen \in {"running", "cancelling"}
      <4>1. IsFollowing(q, p, r) BY <1>1, <3>1, <3>2, <3>4, <3>8, FollowingPage
      <4>2. /\ page' \in Editor!Page /\ page'.status \in {"refining", "cancelling"}
            /\ page'.active = r /\ page'.draft = r /\ page'.stored = r /\ page'.marked = page.marked
            /\ page'.message[r] # "none" /\ (page.message[r] # "none" => page'.message[r] = page.message[r])
            /\ \A n \in Request \ {r} : page'.message[n] = page.message[n]
        BY <3>4, <4>1 DEF IsFollowing
      <4>3. poll'.stage = "asked" BY <3>6, <3>8 DEF Editor!SeenActive
      <4>4. Editor!TypeOK' BY <1>1, <1>2, <2>2, <3>6, <3>7, <4>2 DEF Editor!TypeOK
      <4>5. Polled' BY <1>1, <2>1, <2>2, <3>2, <3>6, <4>3 DEF Polled
      <4>6. /\ awaited \subseteq Request /\ page.marked \subseteq Request
            /\ \A d \in Call : Pending(d) => calls[d].req \in Request
        BY <1>1 DEF Editor!TypeOK, Editor!Page, Pending, Editor!CallSet, Editor!NoCall, Editor!CallOver
      <4>7. Submitted' BY <1>1, <2>2, <3>2, <3>3, <4>2, <4>6 DEF Submitted, Pending
      <4>8. Followed(r)' BY <2>1, <2>2, <3>2, <3>6, <4>2, <4>3 DEF Followed
      <4>9. Followed(page.active)' BY <2>1, <2>2, <3>2, <3>6, <4>2, <4>3 DEF Followed
      <4>10. Tended' BY <3>2, <4>2, <4>3, <4>9 DEF Tended
      <4>11. Left'
        <5>1. \A n \in page.marked : astray' \/ page'.message[n] = "cancelled"
          BY <1>1, <2>2, <4>2, <4>6 DEF Left
        <5>2. \A n \in page'.marked : page'.stored = n => Followed(n)' BY <4>2, <4>8
        <5>3. QED BY <4>2, <5>1, <5>2 DEF Left
      <4>12. QED BY <4>4, <4>5, <4>7, <4>10, <4>11 DEF EditorInvariant
    <3>9. CASE poll.seen \in {"completed", "failed", "cancelled"}
      <4>1. /\ IsSettled(q, p, r)
            /\ q.draft = Editor!Without(p.draft, r) \/ q.draft = Editor!Nobody
        BY <1>1, <3>1, <3>2, <3>3, <3>4, <3>9, RestoredPage
      <4>2. /\ IsSettled(page', page, r) /\ page' \in Editor!Page
            /\ page'.draft = Editor!Without(page.draft, r) \/ page'.draft = Editor!Nobody
        BY <3>4, <4>1 DEF IsSettled
      <4>3. poll'.stage = "off" BY <3>6, <3>9 DEF Editor!SeenActive
      <4>4. Editor!TypeOK' BY <1>1, <1>2, <2>2, <3>6, <3>7, <4>2 DEF Editor!TypeOK
      <4>5. QED BY <2>1, <2>2, <3>2, <3>3, <4>2, <4>3, <4>4, Settling
    <3>10. QED BY <3>2, <3>5, <3>8, <3>9 DEF Editor!OpStatus, Editor!Ended
  <2>5. QED BY <2>3, <2>4
<1>7. QED BY <1>4, <1>5, <1>6

\* The page is left and opened again.
LEMMA ReloadKeeps ==
    ASSUME EditorInvariant, Editor!Assumptions, Editor!reload PROVE EditorInvariant'
<1>1. Editor!TypeOK /\ Submitted /\ page \in Editor!Page /\ Editor!Nobody \notin Request
  BY DEF EditorInvariant, Editor!TypeOK, Editor!Assumptions
<1>2. PICK s : s = page.stored OBVIOUS
<1>3. /\ page' = Editor!FreshPage(s) /\ poll' = Editor!FirstPoll(s)
      /\ loading' = TRUE /\ loaded' = FALSE /\ astray' = FALSE /\ awaited' = {}
      /\ calls' = [c \in Call |-> [calls[c] EXCEPT !.heard = FALSE]]
      /\ UNCHANGED <<op, handling, latest, post>> /\ Editor!Upset
  BY <1>2 DEF Editor!reload, Editor!serverVars
<1>4. s \in Editor!Someone BY <1>1, <1>2 DEF Editor!Page
<1>5. FreshIs(page', poll', s) BY <1>3, <1>4, FreshState
<1>6. \A c \in Call : LET k == [calls[c] EXCEPT !.heard = FALSE] IN
          /\ k \in Editor!CallSet \cup {Editor!NoCall, Editor!CallOver}
          /\ k.at = calls[c].at /\ k.req = calls[c].req /\ k.heard = FALSE
  <2>1. ASSUME NEW c \in Call, NEW k, k = [calls[c] EXCEPT !.heard = FALSE]
        PROVE  /\ k \in Editor!CallSet \cup {Editor!NoCall, Editor!CallOver}
               /\ k.at = calls[c].at /\ k.req = calls[c].req /\ k.heard = FALSE
    <3>1. calls[c] \in Editor!CallSet \/ calls[c] \in {Editor!NoCall, Editor!CallOver}
      BY <1>1 DEF Editor!TypeOK
    <3>2. CASE calls[c] \in Editor!CallSet BY <2>1, <3>2 DEF Editor!CallSet
    <3>3. CASE calls[c] \in {Editor!NoCall, Editor!CallOver}
      <4>1. PICK h : h = FALSE OBVIOUS
      <4>2. Editor!NoCall = [req |-> Editor!Nobody, at |-> "idle", heard |-> h]
        BY <4>1 DEF Editor!NoCall
      <4>3. Editor!CallOver = [req |-> Editor!Nobody, at |-> "over", heard |-> h]
        BY <4>2 DEF Editor!CallOver
      <4>4. k = [calls[c] EXCEPT !.heard = h] BY <2>1, <4>1
      <4>5. CASE calls[c] = Editor!NoCall
        <5>1. k = Editor!NoCall BY <4>2, <4>4, <4>5
        <5>2. QED BY <4>1, <4>2, <4>5, <5>1
      <4>6. CASE calls[c] = Editor!CallOver
        <5>1. k = Editor!CallOver BY <4>3, <4>4, <4>6
        <5>2. QED BY <4>1, <4>3, <4>6, <5>1
      <4>7. QED BY <3>3, <4>5, <4>6
    <3>4. QED BY <3>1, <3>2, <3>3
  <2>2. QED BY <2>1
<1>7. /\ calls' \in [Call -> Editor!CallSet \cup {Editor!NoCall, Editor!CallOver}]
      /\ \A c \in Call : calls'[c].at = calls[c].at /\ calls'[c].req = calls[c].req /\ calls'[c].heard = FALSE
  BY <1>3, <1>6
<1>8. upsets' \in 0 .. MaxUpsets BY <1>1, <1>3 DEF Editor!Upset, Editor!TypeOK, Editor!Assumptions
<1>9. Editor!TypeOK' BY <1>1, <1>3, <1>5, <1>7, <1>8 DEF Editor!TypeOK, FreshIs
<1>10. Submitted'
  <2>1. \A c \in Call : Pending(c)' => post'[calls'[c].req] # "none" /\ ~calls'[c].heard
    BY <1>1, <1>3, <1>7 DEF Submitted, Pending
  <2>2. QED BY <1>1, <1>3, <1>5, <2>1 DEF Submitted, FreshIs
<1>11. Polled' BY <1>5 DEF Polled, FreshIs
<1>12. Tended' /\ Left' BY <1>3, <1>5 DEF Tended, Left, FreshIs
<1>13. QED BY <1>9, <1>10, <1>11, <1>12 DEF EditorInvariant

LEMMA EditorStarts == Editor!Assumptions /\ Editor!Init => EditorInvariant
<1>. SUFFICES ASSUME Editor!Assumptions, Editor!Init PROVE EditorInvariant OBVIOUS
<1>1. /\ op = [r \in Request |-> "absent"] /\ handling = {} /\ latest = Editor!Nobody
      /\ post = [r \in Request |-> "none"] /\ awaited = {} /\ calls = [c \in Call |-> Editor!NoCall]
      /\ page = Editor!FreshPage(Editor!Nobody) /\ poll = Editor!FirstPoll(Editor!Nobody)
      /\ loading = TRUE /\ loaded = FALSE /\ astray = FALSE /\ upsets = 0
  BY DEF Editor!Init
<1>2. Editor!Nobody \in Editor!Someone BY DEF Editor!Someone
<1>3. FreshIs(page, poll, Editor!Nobody) BY <1>1, <1>2, FreshState
<1>4. Editor!TypeOK
  <2>1. op \in [Request -> Editor!OpStatus] /\ handling \subseteq Request /\ latest \in Editor!Someone
    BY <1>1, <1>2 DEF Editor!OpStatus
  <2>2. /\ post \in [Request -> Editor!Ended \cup {"none", "sent", "open", "error", "over"}]
        /\ awaited \subseteq Request
    BY <1>1
  <2>3. calls \in [Call -> Editor!CallSet \cup {Editor!NoCall, Editor!CallOver}] BY <1>1
  <2>4. upsets \in 0 .. MaxUpsets BY <1>1 DEF Editor!Assumptions
  <2>5. QED BY <1>1, <1>3, <2>1, <2>2, <2>3, <2>4 DEF Editor!TypeOK, FreshIs
<1>5. \A c \in Call : ~Pending(c) BY <1>1 DEF Pending, Editor!NoCall
<1>6. Submitted BY <1>1, <1>3, <1>5 DEF Submitted, FreshIs
<1>7. Polled /\ Tended /\ Left BY <1>1, <1>3 DEF Polled, Tended, Left, FreshIs
<1>8. QED BY <1>4, <1>6, <1>7 DEF EditorInvariant

LEMMA EditorStays ==
    Editor!Assumptions /\ EditorInvariant /\ [Editor!Next]_(Editor!editorVars) => EditorInvariant'
<1>. SUFFICES ASSUME Editor!Assumptions, EditorInvariant, [Editor!Next]_(Editor!editorVars)
              PROVE  EditorInvariant'
  OBVIOUS
<1>1. CASE UNCHANGED Editor!editorVars
  BY <1>1 DEF Editor!editorVars, Editor!serverVars, EditorInvariant, Editor!TypeOK, Submitted, Polled,
              Tended, Left, Followed, Pending
<1>2. CASE \/ \E r \in Request : Editor!postArrives(r)
           \/ \E r \in Request, outcome \in Editor!Ended : Editor!handlerEnds(r, outcome)
           \/ \E c \in Call : Editor!cancelArrives(c)
           \/ \E c \in Call, accepted \in BOOLEAN : Editor!cancelDecided(c, accepted)
           \/ Editor!restoreVersion
  BY <1>2, ServerKeeps
<1>3. CASE \E r \in Request : Editor!submitRefine(r) BY <1>3, SubmitKeeps
<1>4. CASE \E r \in Request : Editor!handleSubmit(r) BY <1>4, SubmitAnswerKeeps
<1>5. CASE \E c \in Call : Editor!cancelActiveRefine(c) \/ Editor!handleCancel(c) BY <1>5, CancelKeepsPage
<1>6. CASE Editor!variationLoaded \/ Editor!callFails BY <1>6, LoadingKeeps
<1>7. CASE Editor!pollServed \/ Editor!pollFails \/ Editor!handlePoll BY <1>7, PollKeeps
<1>8. CASE Editor!reload BY <1>8, ReloadKeeps
<1>9. QED BY <1>1, <1>2, <1>3, <1>4, <1>5, <1>6, <1>7, <1>8 DEF Editor!Next

\* The editor page, for any refines, cancel calls, failed calls and reloads: what
\* the page shows as running somebody will settle, and a refine that was shown
\* as cancelled stays so (page.tsx).
THEOREM PagesSettle ==
    Editor!Assumptions => (Editor!Spec => [](Editor!QuietPageSettled /\ Editor!CancelledIsLeft))
<1>1. SUFFICES ASSUME Editor!Assumptions
               PROVE  Editor!Spec => [](Editor!QuietPageSettled /\ Editor!CancelledIsLeft)
  OBVIOUS
<1>2. EditorInvariant => Editor!QuietPageSettled
  <2>1. SUFFICES ASSUME EditorInvariant, Editor!Quiet, ~astray
                 PROVE  page.status \notin {"loading", "refining", "cancelling"}
    BY DEF Editor!QuietPageSettled
  <2>2. \A c \in Call : ~Pending(c)
    BY <2>1 DEF Editor!Quiet, Pending, Editor!NoCall, Editor!CallOver
  <2>3. QED BY <2>1, <2>2 DEF EditorInvariant, Tended, Editor!Quiet
<1>3. EditorInvariant => Editor!CancelledIsLeft
  BY DEF EditorInvariant, Left, Followed, Editor!CancelledIsLeft
<1>4. Editor!Init => EditorInvariant BY <1>1, EditorStarts
<1>5. EditorInvariant /\ [Editor!Next]_(Editor!editorVars) => EditorInvariant' BY <1>1, EditorStays
<1>6. QED BY <1>2, <1>3, <1>4, <1>5, PTL DEF Editor!Spec

-----------------------------------------------------------------------------
(* The exploration planner.                                                *)

\* Induction, for a set instead of a predicate.
LEMMA SetInduction ==
    ASSUME NEW S, 0 \in S, \A n \in Nat : n \in S => n + 1 \in S
    PROVE  \A n \in Nat : n \in S
<1>1. SUFFICES ASSUME NEW gap \in Nat, gap \notin S PROVE FALSE OBVIOUS
<1> DEFINE Gaps == {n \in Nat : n \notin S}
<1>2. PICK n : n \in Gaps /\ \A k \in Gaps : ~(<<k, n>> \in OpToRel(<, Nat))
  <2>1. Gaps \subseteq Nat /\ Gaps # {} BY <1>1
  <2>2. QED BY <2>1, NatLessThanWellFounded, WFMin
<1>3. \A k \in Gaps : ~(k < n) BY <1>2 DEF OpToRel
<1>4. n \in Nat /\ n \notin S BY <1>2
<1>5. n # 0 BY <1>4
<1>6. n - 1 \in Nat /\ n - 1 < n BY <1>4, <1>5
<1>7. n - 1 \in S BY <1>3, <1>6
<1>8. (n - 1) + 1 \in S BY <1>6, <1>7
<1>9. QED BY <1>4, <1>6, <1>8

\* What is reached with one step more: the dependencies too, but for those in H.
DependenciesOf(reached, D) == UNION {D[d] : d \in reached}
Reaching(reached, D, H) == reached \cup (DependenciesOf(reached, D) \ H)

LEMMA ReachingIs ==
    ASSUME NEW R, NEW D, NEW H, NEW x
    PROVE  x \in Reaching(R, D, H) <=> x \in R \/ (x \notin H /\ \E d \in R : x \in D[d])
<1>1. ASSUME x \in DependenciesOf(R, D) PROVE \E d \in R : x \in D[d]
  <2>1. PICK s \in {D[d] : d \in R} : x \in s BY <1>1 DEF DependenciesOf
  <2>2. QED BY <2>1
<1>2. ASSUME NEW d \in R, x \in D[d] PROVE x \in DependenciesOf(R, D)
  <2>1. D[d] \in {D[e] : e \in R} OBVIOUS
  <2>2. QED BY <1>2, <2>1 DEF DependenciesOf
<1>3. QED BY <1>1, <1>2 DEF Reaching

\* The modules reached from B after 0 .. N steps along D.
IsWalk(f, N, B, D, H) ==
    f = [n \in 0 .. N |-> IF n = 0 THEN B ELSE Reaching(f[n - 1], D, H)]

LEMMA WalkSteps ==
    ASSUME NEW N \in Nat, NEW B, NEW D, NEW H, NEW f, IsWalk(f, N, B, D, H)
    PROVE  /\ f[0] = B
           /\ \A n \in Nat : n + 1 <= N => f[n + 1] = Reaching(f[n], D, H)
<1>1. DOMAIN f = 0 .. N BY DEF IsWalk
<1>2. \A n \in 0 .. N : f[n] = IF n = 0 THEN B ELSE Reaching(f[n - 1], D, H)
  BY DEF IsWalk
<1>3. f[0] = B BY <1>2
<1>4. ASSUME NEW n \in Nat, n + 1 <= N PROVE f[n + 1] = Reaching(f[n], D, H)
  <2>1. n + 1 \in 0 .. N /\ n + 1 # 0 /\ (n + 1) - 1 = n BY <1>4
  <2>2. QED BY <1>2, <2>1
<1>5. QED BY <1>3, <1>4

LEMMA WalkExists ==
    ASSUME NEW B, NEW D, NEW H
    PROVE  \A N \in Nat : \E f : IsWalk(f, N, B, D, H)
<1> DEFINE S == {N \in Nat : \E f : IsWalk(f, N, B, D, H)}
<1>1. 0 \in S
  <2>1. IsWalk([n \in 0 .. 0 |-> B], 0, B, D, H)
    <3>1. [n \in 0 .. 0 |-> B] = [n \in 0 .. 0 |->
             IF n = 0 THEN B ELSE Reaching([k \in 0 .. 0 |-> B][n - 1], D, H)]
      OBVIOUS
    <3>2. QED BY <3>1 DEF IsWalk
  <2>2. QED BY <2>1
<1>2. ASSUME NEW N \in Nat, N \in S PROVE N + 1 \in S
  <2>1. PICK f : IsWalk(f, N, B, D, H) BY <1>2
  <2> DEFINE g == [n \in 0 .. N + 1 |-> IF n = N + 1 THEN Reaching(f[N], D, H) ELSE f[n]]
  <2>2. \A n \in 0 .. N : g[n] = f[n] OBVIOUS
  <2>3. g[N + 1] = Reaching(f[N], D, H) OBVIOUS
  <2>4. f[0] = B /\ \A n \in Nat : n + 1 <= N => f[n + 1] = Reaching(f[n], D, H)
    BY <2>1, WalkSteps
  <2>5. ASSUME NEW n \in 0 .. N + 1
        PROVE  g[n] = IF n = 0 THEN B ELSE Reaching(g[n - 1], D, H)
    <3>1. CASE n = 0 BY <2>2, <2>4, <3>1
    <3>2. CASE n = N + 1 
      <4>1. g[n - 1] = f[N] /\ n # 0 BY <2>2, <3>2
      <4>2. QED BY <2>3, <3>2, <4>1
    <3>3. CASE n # 0 /\ n # N + 1
      <4>1. n - 1 \in Nat /\ (n - 1) + 1 <= N /\ (n - 1) + 1 = n /\ n \in 0 .. N /\ n - 1 \in 0 .. N
        BY <3>3
      <4>2. f[(n - 1) + 1] = Reaching(f[n - 1], D, H) BY <2>4, <4>1
      <4>3. f[n] = Reaching(f[n - 1], D, H) BY <4>1, <4>2
      <4>4. QED BY <2>2, <3>3, <4>1, <4>3
    <3>4. QED BY <3>1, <3>2, <3>3
  <2>6. IsWalk(g, N + 1, B, D, H)
    <3>1. DOMAIN g = 0 .. N + 1 OBVIOUS
    <3> HIDE DEF g
    <3>2. g = [n \in 0 .. N + 1 |-> g[n]]
      BY DEF g
    <3>3. [n \in 0 .. N + 1 |-> g[n]] = [n \in 0 .. N + 1 |-> IF n = 0 THEN B ELSE Reaching(g[n - 1], D, H)]
      BY <2>5
    <3>4. QED BY <3>2, <3>3 DEF IsWalk
  <2>7. N + 1 \in Nat OBVIOUS
  <2>8. QED BY <2>6, <2>7
<1>3. \A n \in Nat : n \in S => n + 1 \in S BY <1>2
<1>4. \A n \in Nat : n \in S BY <1>1, <1>3, SetInduction
<1>5. QED BY <1>4

\* A set that has B and the dependencies of its members has what is reached.
LEMMA WalkWithin ==
    ASSUME NEW N \in Nat, NEW B, NEW D, NEW H, NEW f, IsWalk(f, N, B, D, H),
           NEW X, B \subseteq X, \A d \in X : D[d] \ H \subseteq X
    PROVE  \A n \in 0 .. N : f[n] \subseteq X
<1> DEFINE S == {n \in Nat : n <= N => f[n] \subseteq X}
<1>1. 0 \in S BY WalkSteps
<1>2. ASSUME NEW n \in Nat, n \in S PROVE n + 1 \in S
  <2>1. SUFFICES ASSUME n + 1 <= N PROVE f[n + 1] \subseteq X OBVIOUS
  <2>2. f[n] \subseteq X BY <1>2, <2>1
  <2>3. f[n + 1] = Reaching(f[n], D, H) BY <2>1, WalkSteps
  <2>4. ASSUME NEW x \in f[n + 1] PROVE x \in X
    <3>1. x \in Reaching(f[n], D, H) BY <2>3
    <3>2. x \in f[n] \/ (x \notin H /\ \E d \in f[n] : x \in D[d]) BY <3>1, ReachingIs
    <3>3. QED BY <2>2, <3>2
  <2>5. QED BY <2>4
<1>3. \A n \in Nat : n \in S BY <1>1, <1>2, SetInduction
<1>4. QED BY <1>3

LEMMA WalkGrows ==
    ASSUME NEW N \in Nat, NEW B, NEW D, NEW H, NEW f, IsWalk(f, N, B, D, H), NEW k \in Nat
    PROVE  \A n \in Nat : k <= n /\ n <= N => f[k] \subseteq f[n]
<1> DEFINE S == {n \in Nat : k <= n /\ n <= N => f[k] \subseteq f[n]}
<1>1. 0 \in S
  <2>1. k <= 0 => k = 0 OBVIOUS
  <2>2. QED BY <2>1
<1>2. ASSUME NEW n \in Nat, n \in S PROVE n + 1 \in S
  <2>1. SUFFICES ASSUME k <= n + 1, n + 1 <= N PROVE f[k] \subseteq f[n + 1] OBVIOUS
  <2>2. f[n] \subseteq f[n + 1] BY <2>1, WalkSteps DEF Reaching
  <2>3. CASE k = n + 1 BY <2>3
  <2>4. CASE k <= n BY <1>2, <2>1, <2>2, <2>4
  <2>5. QED BY <2>1, <2>3, <2>4
<1>3. \A n \in Nat : n \in S BY <1>1, <1>2, SetInduction
<1>4. QED BY <1>3

\* If the dependencies descend, N steps reach all there is to reach.
LEMMA WalkCloses ==
    ASSUME NEW N \in Nat, NEW B, NEW D, NEW H, NEW f, IsWalk(f, N, B, D, H),
           NEW M, B \subseteq M, NEW rank \in [M -> 1 .. N],
           \A x \in M : \A d \in D[x] : d \in M /\ rank[d] < rank[x]
    PROVE  \A w \in f[N] : D[w] \ H \subseteq f[N]
<1> DEFINE S == {n \in Nat : n <= N => \A w \in f[n] :
                    w \in M /\ \E k \in Nat : k <= n /\ w \in f[k] /\ k + rank[w] <= N}
<1>1. 0 \in S
  <2>1. ASSUME NEW w \in f[0] PROVE w \in M /\ 0 + rank[w] <= N BY <2>1, WalkSteps
  <2>2. QED BY <2>1
<1>2. ASSUME NEW n \in Nat, n \in S PROVE n + 1 \in S
  <2>1. SUFFICES ASSUME n + 1 <= N, NEW w \in f[n + 1]
                 PROVE  w \in M /\ \E k \in Nat : k <= n + 1 /\ w \in f[k] /\ k + rank[w] <= N
    OBVIOUS
  <2>2. \A x \in f[n] : x \in M /\ \E k \in Nat : k <= n /\ x \in f[k] /\ k + rank[x] <= N
    BY <1>2, <2>1
  <2>3. f[n + 1] = Reaching(f[n], D, H) BY <2>1, WalkSteps
  <2>4. CASE w \in f[n] BY <2>2, <2>4
  <2>5. CASE w \notin f[n]
    <3>0. w \in Reaching(f[n], D, H) BY <2>1, <2>3
    <3>1. PICK x \in f[n] : w \in D[x] /\ w \notin H BY <2>5, <3>0, ReachingIs
    <3>2. x \in M BY <2>2
    <3>3. PICK k \in Nat : k <= n /\ x \in f[k] /\ k + rank[x] <= N BY <2>2
    <3>4. w \in M /\ rank[w] < rank[x] /\ rank[w] \in 1 .. N /\ rank[x] \in 1 .. N BY <3>1, <3>2
    <3>5. k + 1 <= N /\ k + 1 <= n + 1 /\ (k + 1) + rank[w] <= N BY <3>3, <3>4
    <3>6. f[k + 1] = Reaching(f[k], D, H) BY <3>5, WalkSteps
    <3>7. w \in f[k + 1]
      <4>1. w \in Reaching(f[k], D, H) BY <3>1, <3>3, ReachingIs
      <4>2. QED BY <3>6, <4>1
    <3>8. QED BY <3>4, <3>5, <3>7
  <2>6. QED BY <2>4, <2>5
<1>3. \A n \in Nat : n \in S BY <1>1, <1>2, SetInduction
<1>4. ASSUME NEW w \in f[N] PROVE D[w] \ H \subseteq f[N]
  <2>1. w \in M /\ \E k \in Nat : k <= N /\ w \in f[k] /\ k + rank[w] <= N
    <3>1. N \in S /\ N <= N BY <1>3
    <3>2. QED BY <1>4, <3>1
  <2>2. PICK k \in Nat : k <= N /\ w \in f[k] /\ k + rank[w] <= N BY <2>1
  <2>3. k + 1 <= N /\ k + 1 \in Nat /\ N <= N BY <2>1, <2>2
  <2>4. f[k + 1] = Reaching(f[k], D, H) BY <2>3, WalkSteps
  <2>5. ASSUME NEW d \in D[w] \ H PROVE d \in f[N]
    <3>1. d \in Reaching(f[k], D, H) BY <2>2, ReachingIs
    <3>2. f[k + 1] \subseteq f[N] BY <2>3, WalkGrows
    <3>3. QED BY <2>4, <3>1, <3>2
  <2>6. QED BY <2>5
<1>5. QED BY <1>4

\* The module's own operators on finite sets are those of the theorems.
LEMMA PlannerCounts ==
    ASSUME NEW S
    PROVE  /\ Planner!IsFiniteSet(S) <=> IsFiniteSet(S)
           /\ Planner!Cardinality(S) = Cardinality(S)
<1>1. Planner!IsFiniteSet(S) <=> IsFiniteSet(S) BY DEF Planner!IsFiniteSet, IsFiniteSet
<1>2. Planner!Cardinality(S) = Cardinality(S) BY DEF Planner!Cardinality, Cardinality
<1>3. QED BY <1>1, <1>2

LEMMA PlannerFinite ==
    ASSUME Planner!Assumptions
    PROVE  /\ IsFiniteSet(Module) /\ Cardinality(Module) \in Nat
           /\ IsFiniteSet(Variation) /\ Cardinality(Variation) \in Nat \ {0}
<1>1. IsFiniteSet(Module) /\ IsFiniteSet(Variation) /\ Variation # {}
  BY PlannerCounts DEF Planner!Assumptions
<1>2. QED BY <1>1, FS_CardinalityType, FS_EmptySet

\* Walked is such a walk.
LEMMA WalkedIs ==
    ASSUME Planner!Assumptions, NEW m, NEW v
    PROVE  \E f : /\ IsWalk(f, Cardinality(Module), {m} \ Planner!Had(v), input.deps, Planner!Had(v))
                  /\ Planner!Walked(m, v) = f[Cardinality(Module)]
<1> DEFINE N == Cardinality(Module)
<1> DEFINE Walking(f) == IsWalk(f, N, {m} \ Planner!Had(v), input.deps, Planner!Had(v))
<1> DEFINE within == CHOOSE f : Walking(f)
<1>1. \E f : Walking(f) BY PlannerFinite, WalkExists
<1>2. Walking(within) BY <1>1, Zenon
<1>3. Planner!Cardinality(Module) = N BY PlannerCounts
<1>4. Planner!Walked(m, v) = within[N]
  BY <1>3 DEF Planner!Walked, IsWalk, Reaching, DependenciesOf
<1>5. QED BY <1>2, <1>4

LEMMA WalkedHas ==
    ASSUME Planner!Assumptions, NEW m, NEW v, m \notin Planner!Had(v)
    PROVE  m \in Planner!Walked(m, v)
<1>1. PICK f : /\ IsWalk(f, Cardinality(Module), {m} \ Planner!Had(v), input.deps, Planner!Had(v))
               /\ Planner!Walked(m, v) = f[Cardinality(Module)]
  BY WalkedIs
<1>2. Cardinality(Module) \in Nat /\ 0 <= Cardinality(Module) /\ Cardinality(Module) <= Cardinality(Module)
  BY PlannerFinite
<1>3. m \in f[0] BY <1>1, <1>2, WalkSteps
<1>4. f[0] \subseteq f[Cardinality(Module)] BY <1>1, <1>2, WalkGrows
<1>5. QED BY <1>1, <1>3, <1>4

LEMMA WalkedWithin ==
    ASSUME Planner!Assumptions, NEW m, NEW v,
           NEW X, m \in X, \A d \in X : input.deps[d] \ Planner!Had(v) \subseteq X
    PROVE  Planner!Walked(m, v) \subseteq X
<1>1. PICK f : /\ IsWalk(f, Cardinality(Module), {m} \ Planner!Had(v), input.deps, Planner!Had(v))
               /\ Planner!Walked(m, v) = f[Cardinality(Module)]
  BY WalkedIs
<1>2. Cardinality(Module) \in Nat /\ Cardinality(Module) \in 0 .. Cardinality(Module)
  BY PlannerFinite
<1>3. QED BY <1>1, <1>2, WalkWithin

LEMMA WalkedCloses ==
    ASSUME Planner!Assumptions, input \in PlannerInput, Planner!DependencyOrder, NEW m \in Module, NEW v
    PROVE  \A w \in Planner!Walked(m, v) : input.deps[w] \subseteq Planner!Had(v) \cup Planner!Walked(m, v)
<1>1. PICK f : /\ IsWalk(f, Cardinality(Module), {m} \ Planner!Had(v), input.deps, Planner!Had(v))
               /\ Planner!Walked(m, v) = f[Cardinality(Module)]
  BY WalkedIs
<1>2. PICK rank \in [Module -> 1 .. Cardinality(Module)] :
          \A x \in Module : \A d \in input.deps[x] : rank[d] < rank[x]
  BY PlannerCounts DEF Planner!DependencyOrder
<1>3. \A x \in Module : \A d \in input.deps[x] : d \in Module /\ rank[d] < rank[x]
  BY <1>2 DEF Planner!Assumptions, Planner!ValidGraph
<1>4. Cardinality(Module) \in Nat BY PlannerFinite
<1>5. {m} \ Planner!Had(v) \subseteq Module OBVIOUS
<1>6. \A w \in f[Cardinality(Module)] : input.deps[w] \ Planner!Had(v) \subseteq f[Cardinality(Module)]
  BY <1>1, <1>2, <1>3, <1>4, <1>5, WalkCloses
<1>7. QED BY <1>1, <1>6

LEMMA Rounds ==
    ASSUME NEW gap \in Nat, NEW level \in Nat, NEW factor \in Nat
    PROVE  (gap * level * factor) \div 400 \in Nat
<1>1. gap * level \in Nat OBVIOUS
<1>2. (gap * level) * factor \in Nat BY <1>1
<1>3. \A x \in Nat : x \div 400 \in Nat OBVIOUS
<1>4. QED BY <1>2, <1>3

LEMMA TargetIs ==
    ASSUME Planner!Assumptions, input \in PlannerInput, NEW m \in Module
    PROVE  /\ Planner!coverageTarget(m) \in Int
           /\ Planner!coverageTarget(m) <= input.max[m]
           /\ input.min[m] <= Cardinality(Variation) => input.min[m] <= Planner!coverageTarget(m)
           /\ input.min[m] >= Cardinality(Variation) => Planner!coverageTarget(m) = Cardinality(Variation)
           /\ m \in input.locked /\ input.max[m] > 0 => 1 <= Planner!coverageTarget(m)
<1>1. PICK n : n = Cardinality(Variation) /\ n \in Nat \ {0} BY PlannerFinite
<1>2. PICK lo, hi, level : lo = input.min[m] /\ hi = input.max[m] /\ level = input.level OBVIOUS
<1>3. lo \in Nat /\ hi \in Nat /\ lo <= hi /\ level \in 0 .. 100
  BY <1>2 DEF Planner!Assumptions, Planner!ValidGraph
<1>4. PICK factor : factor = Planner!PriorityFactor(m) OBVIOUS
<1>5. factor \in {2, 3, 4} BY <1>4 DEF Planner!PriorityFactor
<1>6. PICK lock : lock = IF m \in input.locked THEN 1 ELSE 0 OBVIOUS
<1>7. lock \in {0, 1} /\ (m \in input.locked => lock = 1) BY <1>6
<1>8. PICK minimum : minimum = Planner!Smaller(n, Planner!Larger(lo, lock)) OBVIOUS
<1>9. PICK maximum : maximum = Planner!Smaller(n, hi) OBVIOUS
<1>10. PICK more : more = ((maximum - minimum) * level * factor) \div 400 OBVIOUS
<1>11. Planner!coverageTarget(m) = Planner!Smaller(maximum, minimum + more)
  <2>1. Planner!VariationCount = n BY <1>1, PlannerCounts DEF Planner!VariationCount
  <2>2. QED BY <1>2, <1>4, <1>6, <1>8, <1>9, <1>10, <2>1 DEF Planner!coverageTarget
<1>12. /\ minimum \in Nat /\ maximum \in Nat /\ maximum <= hi /\ maximum <= n
       /\ minimum <= n /\ (lo <= n => lo <= minimum)
       /\ (lo >= n => minimum = n /\ maximum = n) /\ (m \in input.locked => 1 <= minimum)
       /\ (hi > 0 => 1 <= maximum /\ minimum <= maximum) /\ (lo <= n => lo <= maximum)
       /\ (minimum <= maximum \/ (minimum = 1 /\ maximum = 0 /\ lo = 0))
  BY <1>1, <1>3, <1>7, <1>8, <1>9 DEF Planner!Smaller, Planner!Larger
<1>13. CASE minimum <= maximum
  <2>1. maximum - minimum \in Nat BY <1>12, <1>13
  <2>2. more \in Nat
    <3>1. level \in Nat /\ factor \in Nat BY <1>3, <1>5
    <3>2. QED BY <1>10, <2>1, <3>1, Rounds
  <2>3. maximum = minimum => more = 0
    <3>1. SUFFICES ASSUME maximum = minimum PROVE more = 0 OBVIOUS
    <3>2. (maximum - minimum) * level * factor = 0
      <4>1. maximum - minimum = 0 BY <1>12, <3>1
      <4>2. 0 * level * factor = 0 BY <1>3, <1>5
      <4>3. QED BY <4>1, <4>2
    <3>3. QED BY <1>10, <3>2
  <2>4. QED BY <1>1, <1>2, <1>3, <1>11, <1>12, <1>13, <2>2, <2>3 DEF Planner!Smaller
<1>14. CASE minimum = 1 /\ maximum = 0 /\ lo = 0
  <2>1. hi = 0 BY <1>3, <1>12, <1>14
  <2>2. PICK less : less = maximum - minimum OBVIOUS
  <2>3. less = -1 BY <1>14, <2>2
  <2>4. more = (less * level * factor) \div 400 BY <1>10, <2>2
  <2>5. less * level * factor \in -400 .. 0 BY <1>3, <1>5, <2>3
  <2>6. more \in {-1, 0} BY <2>4, <2>5
  <2>7. QED BY <1>1, <1>2, <1>11, <1>14, <2>1, <2>6 DEF Planner!Smaller
<1>15. QED BY <1>12, <1>13, <1>14

\* A module that was placed is on as many variations as it was to be, and on no
\* other one unless a module that depends on it brought it there.
Placed(m) == \E s \in SUBSET Variation :
    /\ Cardinality(s) = Planner!coverageTarget(m)
    /\ \A v \in s : m \in sampled[v]
    /\ m \notin Planner!DependedUpon => \A v \in Variation \ s : m \notin sampled[v]

Placing ==
    /\ Planner!ValidSelections /\ todo \subseteq Planner!optionalModules
    /\ \A m \in Planner!optionalModules \ todo : Placed(m)
    /\ \A m \in todo \ Planner!DependedUpon : \A v \in Variation : m \notin sampled[v]

Together == \A v \in Variation : \A m \in sampled[v] : input.deps[m] \subseteq Planner!Had(v)

Even == \A v, w \in Variation : Cardinality(sampled[v]) <= Cardinality(sampled[w]) + 1

PlannerInvariant ==
    /\ Planner!TypeOK
    /\ verdict = "asked" => \A v \in Variation : sampled[v] = {}
    /\ \A v \in Variation : sampled[v] \cap input.excluded = {}
    /\ verdict \in {"planning", "planned"} => Placing
    /\ Planner!Plannable => Together
    /\ Planner!DependedUpon = {} => Even
    /\ verdict = "planned" => todo = {} /\ Planner!ValidPlan
    /\ verdict = "refused" => ~Planner!Plannable

\* What a graph and a request say does not change.
LEMMA InputKept ==
    ASSUME input' = input
    PROVE  /\ Planner!DependedUpon' = Planner!DependedUpon
           /\ Planner!optionalModules' = Planner!optionalModules
           /\ Planner!alwaysModules' = Planner!alwaysModules
           /\ Planner!ValidSelections' <=> Planner!ValidSelections
           /\ Planner!Plannable' <=> Planner!Plannable
           /\ \A m : Planner!coverageTarget(m)' = Planner!coverageTarget(m)
<1>1. /\ Planner!DependedUpon' = Planner!DependedUpon
      /\ Planner!alwaysModules' = Planner!alwaysModules
      /\ Planner!optionalModules' = Planner!optionalModules
  BY DEF Planner!DependedUpon, Planner!alwaysModules, Planner!optionalModules, Planner!OfMode
<1>2. Planner!ValidSelections' <=> Planner!ValidSelections
  BY DEF Planner!ValidSelections, Planner!OfMode
<1>3. Planner!DependencyOrder' <=> Planner!DependencyOrder
  BY DEF Planner!DependencyOrder
<1>4. Planner!Plannable' <=> Planner!Plannable
  BY <1>1, <1>2, <1>3 DEF Planner!Plannable, Planner!OfMode
<1>5. ASSUME NEW m PROVE Planner!coverageTarget(m)' = Planner!coverageTarget(m)
  <2>1. Planner!PriorityFactor(m)' = Planner!PriorityFactor(m)
    BY DEF Planner!PriorityFactor, Planner!priorityWeight
  <2>2. QED BY <2>1 DEF Planner!coverageTarget
<1>6. QED BY <1>1, <1>2, <1>4, <1>5

LEMMA NothingThrows ==
    ASSUME Planner!Assumptions, input \in PlannerInput, Planner!Plannable,
           NEW m \in Planner!optionalModules, NEW v
    PROVE  ~Planner!Throws(m, v)
<1>1. \A x \in Module : input.deps[x] \subseteq Module
  BY DEF Planner!Assumptions, Planner!ValidGraph
<1>2. Planner!Walked(m, v) \subseteq Module \ input.excluded
  <2>1. m \in Module \ input.excluded
    BY DEF Planner!optionalModules, Planner!OfMode
  <2>2. \A d \in Module \ input.excluded : input.deps[d] \subseteq Module \ input.excluded
    BY <1>1 DEF Planner!Plannable
  <2>3. QED BY <2>1, <2>2, WalkedWithin
<1>3. PICK rank \in [Module -> 1 .. Cardinality(Module)] :
          \A x \in Module : \A d \in input.deps[x] : rank[d] < rank[x]
  BY PlannerCounts DEF Planner!Plannable, Planner!DependencyOrder
<1>4. ASSUME NEW w \in Planner!Walked(m, v), NEW d \in input.deps[w] PROVE w \notin Planner!Walked(d, v)
  <2> DEFINE Below == {x \in Module : rank[x] <= rank[d]}
  <2>1. w \in Module /\ d \in Module BY <1>1, <1>2
  <2>2. Cardinality(Module) \in Nat BY PlannerFinite
  <2>3. d \in Below /\ w \notin Below
    <3>1. rank[d] \in 1 .. Cardinality(Module) /\ rank[w] \in 1 .. Cardinality(Module) /\ rank[d] < rank[w]
      BY <1>3, <2>1
    <3>2. QED BY <2>1, <2>2, <3>1
  <2>4. \A x \in Below : input.deps[x] \subseteq Below
    <3>1. ASSUME NEW x \in Below, NEW y \in input.deps[x] PROVE y \in Below
      <4>1. y \in Module /\ x \in Module BY <1>1
      <4>2. rank[y] \in 1 .. Cardinality(Module) /\ rank[x] \in 1 .. Cardinality(Module)
            /\ rank[d] \in 1 .. Cardinality(Module) /\ rank[y] < rank[x] /\ rank[x] <= rank[d]
        BY <1>3, <2>1, <4>1
      <4>3. rank[y] <= rank[d] BY <2>2, <4>2
      <4>4. QED BY <4>1, <4>3
    <3>2. QED BY <3>1
  <2> HIDE DEF Below
  <2>5. Planner!Walked(d, v) \subseteq Below BY <2>3, <2>4, WalkedWithin
  <2>6. QED BY <2>3, <2>5
<1>5. QED BY <1>2, <1>4 DEF Planner!Throws

\* A plan for a request that the graph can serve is valid once all is placed.
LEMMA PlansAreValid ==
    ASSUME Planner!Assumptions, PlannerInvariant, verdict = "planning", todo = {}, Planner!Plannable
    PROVE  Planner!ValidPlan
<1>1. /\ input \in PlannerInput /\ sampled \in [Variation -> SUBSET Module]
      /\ Placing /\ Together
      /\ \A v \in Variation : sampled[v] \cap input.excluded = {}
  BY DEF PlannerInvariant, Planner!TypeOK
<1>2. \A m \in Planner!optionalModules : m \in Module /\ Placed(m)
  BY <1>1 DEF Placing, Planner!optionalModules, Planner!OfMode
<1>3. \A v \in Variation : Planner!Selected(v) = Planner!Had(v) /\ Planner!Had(v) = Planner!alwaysModules \cup sampled[v]
  BY DEF Planner!Selected, Planner!Had
<1>4. Planner!alwaysModules \subseteq Module /\ Planner!alwaysModules \cap input.excluded = {}
  BY <1>1 DEF Placing, Planner!ValidSelections, Planner!alwaysModules, Planner!OfMode
<1>5. \A m \in Module \ input.excluded :
          /\ input.conflicts[m] \subseteq input.excluded
          /\ m \in Planner!alwaysModules => input.deps[m] \subseteq Planner!alwaysModules
          /\ input.mode[m] = "sampled" =>
               /\ input.min[m] <= Cardinality(Variation)
               /\ m \in Planner!DependedUpon => input.max[m] >= Cardinality(Variation)
  BY PlannerCounts DEF Planner!Plannable, Planner!VariationCount
<1>6. PICK n : n = Cardinality(Variation) /\ n \in Nat \ {0} BY PlannerFinite
<1>7. IsFiniteSet(Variation) BY PlannerFinite
<1>8. ASSUME NEW v \in Variation PROVE Planner!Selected(v) # {}
  <2>1. PICK m \in Module :
            m \in Planner!alwaysModules \/ (m \in Planner!optionalModules /\ input.min[m] >= n)
    BY <1>6, PlannerCounts DEF Planner!Plannable, Planner!VariationCount
  <2>2. CASE m \in Planner!alwaysModules BY <1>3, <2>2
  <2>3. CASE m \in Planner!optionalModules /\ input.min[m] >= n
    <3>1. PICK s \in SUBSET Variation :
              Cardinality(s) = Planner!coverageTarget(m) /\ \A w \in s : m \in sampled[w]
      BY <1>2, <2>3 DEF Placed
    <3>2. Planner!coverageTarget(m) = n BY <1>1, <1>6, <2>3, TargetIs
    <3>3. s = Variation BY <1>6, <1>7, <3>1, <3>2, FS_Subset
    <3>4. QED BY <1>3, <3>1, <3>3
  <2>4. QED BY <2>1, <2>2, <2>3
<1>9. ASSUME NEW v \in Variation, NEW m \in Planner!Selected(v)
      PROVE  input.deps[m] \subseteq Planner!Selected(v) /\ input.conflicts[m] \cap Planner!Selected(v) = {}
  <2>1. Planner!Selected(v) \subseteq Module \ input.excluded BY <1>1, <1>3, <1>4
  <2>2. input.deps[m] \subseteq Planner!Selected(v)
    <3>1. CASE m \in Planner!alwaysModules BY <1>3, <1>5, <2>1, <3>1
    <3>2. CASE m \in sampled[v] BY <1>1, <1>3, <3>2 DEF Together
    <3>3. QED BY <1>3, <3>1, <3>2
  <2>3. input.conflicts[m] \subseteq input.excluded BY <1>5, <2>1
  <2>4. QED BY <2>1, <2>2, <2>3
<1>10. ASSUME NEW m \in Planner!OfMode({"sampled"}) \ input.excluded
       PROVE  Planner!Coverage(m) \in input.min[m] .. input.max[m]
  <2> DEFINE On == {v \in Variation : m \in Planner!Selected(v)}
  <2>1. m \in Planner!optionalModules /\ m \in Module /\ input.mode[m] = "sampled"
    BY <1>10 DEF Planner!optionalModules, Planner!OfMode
  <2>2. m \notin Planner!alwaysModules
    BY <2>1 DEF Planner!alwaysModules, Planner!OfMode
  <2>3. Planner!Coverage(m) = Cardinality(On) BY PlannerCounts DEF Planner!Coverage
  <2>4. PICK s \in SUBSET Variation :
            /\ Cardinality(s) = Planner!coverageTarget(m) /\ \A v \in s : m \in sampled[v]
            /\ m \notin Planner!DependedUpon => \A v \in Variation \ s : m \notin sampled[v]
    BY <1>2, <2>1 DEF Placed
  <2>5. \A v \in Variation : v \in On <=> m \in sampled[v] BY <1>3, <2>2
  <2>6. s \subseteq On /\ On \subseteq Variation BY <2>4, <2>5
  <2> HIDE DEF On
  <2>7. /\ IsFiniteSet(On) /\ Cardinality(On) <= n /\ Cardinality(On) \in Nat
        /\ Cardinality(s) <= Cardinality(On) /\ Cardinality(s) \in Nat
    BY <1>6, <1>7, <2>6, FS_Subset, FS_CardinalityType
  <2>8. input.min[m] \in Nat /\ input.max[m] \in Nat
    BY <1>1, <2>1 DEF Planner!Assumptions, Planner!ValidGraph
  <2>9. input.min[m] <= Planner!coverageTarget(m) /\ Planner!coverageTarget(m) <= input.max[m]
    BY <1>1, <1>5, <2>1, TargetIs
  <2>10. CASE m \in Planner!DependedUpon
    <3>1. input.max[m] >= n BY <1>5, <1>6, <2>1, <2>10
    <3>2. QED BY <1>6, <2>3, <2>4, <2>7, <2>8, <2>9, <3>1
  <2>11. CASE m \notin Planner!DependedUpon
    <3>1. On = s BY <2>4, <2>5, <2>6, <2>11
    <3>2. QED BY <2>3, <2>4, <2>7, <2>8, <2>9, <3>1
  <2>12. QED BY <2>10, <2>11
<1>11. QED BY <1>8, <1>9, <1>10 DEF Planner!ValidPlan

LEMMA PlannerStarts == Planner!Assumptions /\ Planner!Init => PlannerInvariant
<1>. SUFFICES ASSUME Planner!Assumptions, Planner!Init PROVE PlannerInvariant OBVIOUS
<1>1. /\ input \in PlannerInput /\ todo = {} /\ verdict = "asked"
      /\ sampled = [v \in Variation |-> {}]
  BY DEF Planner!Init
<1>2. \A v \in Variation : sampled[v] = {} BY <1>1
<1>3. Planner!TypeOK BY <1>1 DEF Planner!TypeOK
<1>4. Together /\ Even
  <2>1. \A v \in Variation : Cardinality(sampled[v]) = 0 BY <1>2, FS_EmptySet
  <2>2. QED BY <1>2, <2>1 DEF Together, Even
<1>5. QED BY <1>1, <1>2, <1>3, <1>4 DEF PlannerInvariant

LEMMA SelectionsKeep ==
    ASSUME Planner!Assumptions, PlannerInvariant, Planner!validateSelections PROVE PlannerInvariant'
<1>1. verdict = "asked" /\ input' = input /\ sampled' = sampled
  BY DEF Planner!validateSelections
<1>2. \A v \in Variation : sampled[v] = {} BY <1>1 DEF PlannerInvariant
<1>3. /\ Planner!DependedUpon' = Planner!DependedUpon /\ Planner!optionalModules' = Planner!optionalModules
      /\ Planner!ValidSelections' <=> Planner!ValidSelections
      /\ Planner!Plannable' <=> Planner!Plannable
  BY <1>1, InputKept
<1>4. (Planner!Plannable' => Together') /\ (Planner!DependedUpon' = {} => Even')
  BY <1>1, <1>2, <1>3 DEF PlannerInvariant, Together, Even, Planner!Had
<1>5. CASE Planner!ValidSelections
  <2>1. verdict' = "planning" /\ todo' = Planner!optionalModules
    BY <1>5 DEF Planner!validateSelections
  <2>2. Planner!TypeOK'
    BY <1>1, <2>1 DEF PlannerInvariant, Planner!TypeOK, Planner!optionalModules, Planner!OfMode
  <2>3. Placing' BY <1>1, <1>2, <1>3, <1>5, <2>1 DEF Placing
  <2>4. QED BY <1>1, <1>4, <2>1, <2>2, <2>3 DEF PlannerInvariant
<1>6. CASE ~Planner!ValidSelections
  <2>1. verdict' = "refused" /\ todo' = todo BY <1>6 DEF Planner!validateSelections
  <2>2. ~Planner!Plannable' BY <1>3, <1>6 DEF Planner!Plannable
  <2>3. Planner!TypeOK' BY <1>1, <2>1 DEF PlannerInvariant, Planner!TypeOK
  <2>4. QED BY <1>1, <1>4, <2>1, <2>2, <2>3 DEF PlannerInvariant
<1>7. QED BY <1>5, <1>6

\* What the invariant says of a plan stays true while nothing is placed.
LEMMA PlanKept ==
    ASSUME PlannerInvariant, input' = input, sampled' = sampled, todo' = todo
    PROVE  /\ Placing' <=> Placing
           /\ Planner!Plannable' <=> Planner!Plannable
           /\ Planner!ValidPlan' <=> Planner!ValidPlan
           /\ Planner!Plannable' => Together'
           /\ Planner!DependedUpon' = {} => Even'
<1>1. /\ Planner!DependedUpon' = Planner!DependedUpon /\ Planner!optionalModules' = Planner!optionalModules
      /\ Planner!ValidSelections' <=> Planner!ValidSelections
      /\ Planner!Plannable' <=> Planner!Plannable
      /\ \A m : Planner!coverageTarget(m)' = Planner!coverageTarget(m)
  BY InputKept
<1>2. Planner!ValidPlan' <=> Planner!ValidPlan
  BY DEF Planner!ValidPlan, Planner!Selected, Planner!Coverage, Planner!OfMode, Planner!alwaysModules
<1>3. Placing' <=> Placing
  <2>1. \A m : Placed(m)' <=> Placed(m) BY <1>1 DEF Placed
  <2>2. QED BY <1>1, <2>1 DEF Placing
<1>4. (Planner!Plannable' => Together') /\ (Planner!DependedUpon' = {} => Even')
  BY <1>1 DEF PlannerInvariant, Together, Even, Planner!Had, Planner!alwaysModules, Planner!OfMode
<1>5. QED BY <1>1, <1>2, <1>3, <1>4

LEMMA ValidationKeeps ==
    ASSUME Planner!Assumptions, PlannerInvariant, Planner!validateBatchExplorationPlan PROVE PlannerInvariant'
<1>1. /\ verdict = "planning" /\ todo = {} /\ input' = input /\ sampled' = sampled /\ todo' = todo
      /\ verdict' = IF Planner!ValidPlan THEN "planned" ELSE "refused"
  BY DEF Planner!validateBatchExplorationPlan
<1>2. Planner!TypeOK' BY <1>1 DEF PlannerInvariant, Planner!TypeOK
<1>3. ~Planner!ValidPlan => ~Planner!Plannable BY <1>1, PlansAreValid
<1>4. QED BY <1>1, <1>2, <1>3, PlanKept DEF PlannerInvariant

LEMMA NothingKeeps ==
    ASSUME PlannerInvariant, UNCHANGED Planner!plannerVars PROVE PlannerInvariant'
<1>1. input' = input /\ sampled' = sampled /\ todo' = todo /\ verdict' = verdict
  BY DEF Planner!plannerVars
<1>2. Planner!TypeOK' BY <1>1 DEF PlannerInvariant, Planner!TypeOK
<1>3. QED BY <1>1, <1>2, PlanKept DEF PlannerInvariant

LEMMA PlaceKeeps ==
    ASSUME Planner!Assumptions, PlannerInvariant, NEW m \in Module, Planner!place(m) PROVE PlannerInvariant'
<1>1. /\ verdict = "planning" /\ m \in todo /\ input' = input
      /\ input \in PlannerInput /\ sampled \in [Variation -> SUBSET Module] /\ todo \subseteq Module
      /\ Placing
  BY DEF Planner!place, PlannerInvariant, Planner!TypeOK
<1>2. /\ Planner!DependedUpon' = Planner!DependedUpon /\ Planner!optionalModules' = Planner!optionalModules
      /\ Planner!alwaysModules' = Planner!alwaysModules
      /\ Planner!ValidSelections' <=> Planner!ValidSelections
      /\ Planner!Plannable' <=> Planner!Plannable
      /\ \A x : Planner!coverageTarget(x)' = Planner!coverageTarget(x)
  BY <1>1, InputKept
<1>3. PICK chosen \in Planner!LeastLoaded(Planner!coverageTarget(m)) : Planner!addModuleWithDependencies(m, chosen)
  BY DEF Planner!place
<1>4. /\ chosen \in SUBSET Variation /\ Cardinality(chosen) = Planner!coverageTarget(m)
      /\ \A v \in chosen, w \in Variation \ chosen : Cardinality(sampled[v]) <= Cardinality(sampled[w])
  BY <1>3, PlannerCounts DEF Planner!LeastLoaded
<1>5. m \in Planner!optionalModules BY <1>1 DEF Placing
<1>6. CASE \E v \in chosen : Planner!Throws(m, v)
  <2>1. verdict' = "refused" /\ todo' = todo /\ sampled' = sampled
    BY <1>3, <1>6 DEF Planner!addModuleWithDependencies
  <2>2. ~Planner!Plannable' BY <1>1, <1>2, <1>5, <1>6, NothingThrows
  <2>3. Planner!DependedUpon' = {} => Even' BY <1>2, <2>1 DEF PlannerInvariant, Even
  <2>4. Planner!TypeOK' BY <1>1, <2>1 DEF PlannerInvariant, Planner!TypeOK
  <2>5. \A v \in Variation : sampled'[v] \cap input'.excluded = {}
    BY <1>1, <2>1 DEF PlannerInvariant
  <2>6. QED BY <2>1, <2>2, <2>3, <2>4, <2>5 DEF PlannerInvariant
<1>7. CASE ~\E v \in chosen : Planner!Throws(m, v)
  <2> DEFINE Walk(v) == Planner!Walked(m, v) \ Planner!OfMode({"global_rule"})
  <2>1. /\ verdict' = "planning" /\ todo' = todo \ {m}
        /\ sampled' = [v \in Variation |-> IF v \in chosen THEN sampled[v] \cup Walk(v) ELSE sampled[v]]
    BY <1>1, <1>3, <1>7 DEF Planner!addModuleWithDependencies
  <2>2. /\ \A v \in chosen : sampled'[v] = sampled[v] \cup Walk(v)
        /\ \A v \in Variation \ chosen : sampled'[v] = sampled[v]
    BY <1>4, <2>1
  <2>3. m \notin Planner!OfMode({"global_rule"}) /\ m \notin Planner!alwaysModules
        /\ m \notin input.excluded
    BY <1>5 DEF Planner!optionalModules, Planner!alwaysModules, Planner!OfMode
  <2>4. \A x \in Module : input.deps[x] \subseteq Module /\ input.deps[x] \subseteq Planner!DependedUpon
    <3>1. \A x \in Module : input.deps[x] \subseteq Module
      BY <1>1 DEF Planner!Assumptions, Planner!ValidGraph
    <3>2. ASSUME NEW x \in Module PROVE input.deps[x] \subseteq Planner!DependedUpon
      <4>1. input.deps[x] \in {input.deps[y] : y \in Module} OBVIOUS
      <4>2. QED BY <4>1 DEF Planner!DependedUpon
    <3>3. QED BY <3>1, <3>2
  <2>5. ASSUME NEW v \in chosen
        PROVE  /\ Walk(v) \subseteq Module /\ Walk(v) \subseteq {m} \cup Planner!DependedUpon
               /\ Walk(v) \cap input.excluded = {}
    <3> DEFINE Reachable == {x \in Module : x = m \/ x \in Planner!DependedUpon}
    <3>1. m \in Reachable /\ \A d \in Reachable : input.deps[d] \ Planner!Had(v) \subseteq Reachable
      BY <2>4
    <3> HIDE DEF Reachable
    <3>2. Planner!Walked(m, v) \subseteq Reachable BY <3>1, WalkedWithin
    <3>3. \A w \in Planner!Walked(m, v) : w \notin input.excluded BY <1>7 DEF Planner!Throws
    <3>4. QED BY <3>2, <3>3 DEF Reachable
  <2>6. \A v \in chosen : m \in sampled'[v]
    <3>1. ASSUME NEW v \in chosen PROVE m \in sampled'[v]
      <4>1. CASE m \in Planner!Had(v) BY <2>2, <2>3, <4>1 DEF Planner!Had
      <4>2. CASE m \notin Planner!Had(v) BY <2>2, <2>3, <4>2, WalkedHas
      <4>3. QED BY <4>1, <4>2
    <3>2. QED BY <3>1
  <2>7. \A v \in Variation, x \in Module : x # m /\ x \notin Planner!DependedUpon =>
            (x \in sampled'[v] <=> x \in sampled[v])
    BY <2>2, <2>5
  <2>8. \A v \in Variation : sampled[v] \subseteq sampled'[v] BY <2>2
  <2>9. Planner!TypeOK'
    <3>1. \A v \in Variation : sampled'[v] \subseteq Module BY <1>1, <2>2, <2>5
    <3>2. sampled' \in [Variation -> SUBSET Module] BY <2>1, <3>1
    <3>3. QED BY <1>1, <2>1, <3>2 DEF Planner!TypeOK
  <2>10. \A v \in Variation : sampled'[v] \cap input'.excluded = {}
    BY <1>1, <2>2, <2>5 DEF PlannerInvariant
  <2>11. Placing'
    <3>1. ASSUME NEW x \in Planner!optionalModules \ todo' PROVE Placed(x)'
      <4>1. x \in Module BY DEF Planner!optionalModules, Planner!OfMode
      <4>2. CASE x = m
        <5>1. m \notin Planner!DependedUpon => \A v \in Variation \ chosen : m \notin sampled'[v]
          BY <1>1, <2>2 DEF Placing
        <5>2. QED BY <1>2, <1>4, <2>6, <4>2, <5>1 DEF Placed
      <4>3. CASE x # m
        <5>1. x \notin todo BY <2>1, <4>3
        <5>2. PICK s \in SUBSET Variation :
                  /\ Cardinality(s) = Planner!coverageTarget(x) /\ \A v \in s : x \in sampled[v]
                  /\ x \notin Planner!DependedUpon => \A v \in Variation \ s : x \notin sampled[v]
          BY <1>1, <5>1 DEF Placing, Placed
        <5>3. /\ \A v \in s : x \in sampled'[v]
              /\ x \notin Planner!DependedUpon => \A v \in Variation \ s : x \notin sampled'[v]
          BY <2>7, <2>8, <4>1, <4>3, <5>2
        <5>4. QED BY <1>2, <5>2, <5>3 DEF Placed
      <4>4. QED BY <4>2, <4>3
    <3>2. ASSUME NEW x \in todo' \ Planner!DependedUpon, NEW v \in Variation PROVE x \notin sampled'[v]
      BY <1>1, <2>1, <2>7 DEF Placing
    <3>3. Planner!ValidSelections /\ todo' \subseteq Planner!optionalModules
      BY <1>1, <2>1 DEF Placing
    <3>4. QED BY <1>2, <3>1, <3>2, <3>3 DEF Placing
  <2>12. Planner!Plannable => Together'
    <3>1. SUFFICES ASSUME Planner!Plannable PROVE Together' OBVIOUS
    <3>2. Together /\ Planner!DependencyOrder BY <3>1 DEF PlannerInvariant, Planner!Plannable
    <3>3. \A x \in Module \ input.excluded : input.deps[x] \cap Planner!OfMode({"global_rule"}) = {}
      BY <3>1 DEF Planner!Plannable
    <3>4. \A v \in Variation : Planner!Had(v)' = Planner!alwaysModules \cup sampled'[v]
                                /\ Planner!Had(v) = Planner!alwaysModules \cup sampled[v]
      BY <1>2 DEF Planner!Had
    <3>5. ASSUME NEW v \in Variation, NEW x \in sampled'[v] PROVE input.deps[x] \subseteq Planner!Had(v)'
      <4>1. CASE x \in sampled[v] BY <2>8, <3>2, <3>4, <4>1 DEF Together
      <4>2. CASE x \notin sampled[v]
        <5>1. v \in chosen /\ x \in Walk(v) BY <2>2, <4>2
        <5>2. x \in Module \ input.excluded BY <2>5, <5>1
        <5>3. input.deps[x] \subseteq Planner!Had(v) \cup Planner!Walked(m, v)
          BY <1>1, <3>2, <5>1, WalkedCloses
        <5>4. input.deps[x] \subseteq Planner!Had(v) \cup Walk(v) BY <3>3, <5>2, <5>3
        <5>5. QED BY <2>2, <3>4, <5>1, <5>4
      <4>3. QED BY <4>1, <4>2
    <3>6. QED BY <1>1, <3>5 DEF Together
  <2>13. Planner!DependedUpon = {} => Even'
    <3>1. SUFFICES ASSUME Planner!DependedUpon = {} PROVE Even' OBVIOUS
    <3>2. \A v \in Variation : m \notin sampled[v] BY <1>1, <3>1 DEF Placing
    <3>3. \A v \in chosen : sampled'[v] = sampled[v] \cup {m} BY <2>2, <2>5, <2>6, <3>1
    <3>4. \A v \in Variation : IsFiniteSet(sampled[v]) /\ Cardinality(sampled[v]) \in Nat
      BY <1>1, PlannerFinite, FS_Subset, FS_CardinalityType
    <3>5. \A v \in chosen : Cardinality(sampled'[v]) = Cardinality(sampled[v]) + 1
      BY <1>4, <3>2, <3>3, <3>4, FS_AddElement
    <3>6. \A v \in Variation \ chosen : Cardinality(sampled'[v]) = Cardinality(sampled[v]) BY <2>2
    <3>7. Even BY <3>1 DEF PlannerInvariant
    <3>8. QED BY <1>4, <3>4, <3>5, <3>6, <3>7 DEF Even
  <2>14. QED BY <1>2, <2>1, <2>9, <2>10, <2>11, <2>12, <2>13 DEF PlannerInvariant
<1>8. QED BY <1>6, <1>7

\* The planner serves what it can, for any graphs, requests and numbers of
\* variations, whatever the hash decides; and a variation of a plan can be
\* retried (explorationPlanner.ts, deriveVariationRetryExplorationSnapshot).
THEOREM PlansServe ==
    Planner!Assumptions => (Planner!Spec => [](Planner!RequestServed /\ Planner!VariationsRetryable))
<1>1. SUFFICES ASSUME Planner!Assumptions
               PROVE  Planner!Spec => [](Planner!RequestServed /\ Planner!VariationsRetryable)
  OBVIOUS
<1>2. PlannerInvariant => Planner!RequestServed
  <2>1. SUFFICES ASSUME PlannerInvariant PROVE Planner!RequestServed OBVIOUS
  <2>2. ASSUME verdict = "planned", NEW m \in input.locked \cap Planner!optionalModules, input.max[m] > 0
        PROVE  \E v \in Variation : m \in sampled[v]
    <3>1. /\ input \in PlannerInput /\ m \in Module /\ Placed(m)
      BY <2>1, <2>2 DEF PlannerInvariant, Planner!TypeOK, Placing, Planner!optionalModules, Planner!OfMode
    <3>2. 1 <= Planner!coverageTarget(m) /\ Planner!coverageTarget(m) \in Int BY <1>1, <2>2, <3>1, TargetIs
    <3>3. PICK s \in SUBSET Variation : Cardinality(s) = Planner!coverageTarget(m) /\ \A v \in s : m \in sampled[v]
      BY <3>1 DEF Placed
    <3>4. s # {} BY <3>2, <3>3, FS_EmptySet
    <3>5. QED BY <3>3, <3>4
  <2>3. Planner!DependedUpon = {} =>
            \A v, w \in Variation : Planner!Cardinality(sampled[v]) <= Planner!Cardinality(sampled[w]) + 1
    BY <2>1, PlannerCounts DEF PlannerInvariant, Even
  <2>4. QED BY <2>1, <2>2, <2>3 DEF PlannerInvariant, Planner!RequestServed
<1>3. PlannerInvariant => Planner!VariationsRetryable
  <2>1. SUFFICES ASSUME PlannerInvariant, verdict = "planned", \A m \in Module : input.min[m] <= 1,
                        NEW v \in Variation, NEW m \in Planner!OfMode({"sampled"}),
                        m \notin input.excluded, m \in Planner!Selected(v)
                 PROVE  1 \in input.min[m] .. input.max[m]
    <3>1. \A v \in Variation : \A m \in Planner!OfMode({"sampled"}) :
            LET retry == Planner!deriveVariationRetryExplorationSnapshot(v) IN
              /\ retry.selected = Planner!Selected(v)
              /\ m \notin retry.excluded => m \notin input.excluded /\ m \in Planner!Selected(v)
      BY DEF Planner!deriveVariationRetryExplorationSnapshot
    <3>2. QED BY <3>1 DEF Planner!VariationsRetryable
  <2>2. m \in Module /\ input \in PlannerInput /\ Planner!ValidPlan
    BY <2>1 DEF PlannerInvariant, Planner!OfMode, Planner!TypeOK
  <2> DEFINE On == {w \in Variation : m \in Planner!Selected(w)}
  <2>3. Planner!Coverage(m) = Cardinality(On) /\ Planner!Coverage(m) \in input.min[m] .. input.max[m]
    BY <2>1, <2>2, PlannerCounts DEF Planner!ValidPlan, Planner!Coverage
  <2>4. Cardinality(On) \in Nat \ {0}
    <3>1. On \subseteq Variation /\ v \in On BY <2>1
    <3> HIDE DEF On
    <3>2. QED BY <1>1, <3>1, PlannerFinite, FS_Subset, FS_CardinalityType, FS_EmptySet
  <2>5. input.min[m] \in Nat /\ input.max[m] \in Nat
    BY <1>1, <2>2 DEF Planner!Assumptions, Planner!ValidGraph
  <2> HIDE DEF On
  <2>6. QED BY <2>1, <2>2, <2>3, <2>4, <2>5
<1>4. Planner!Init => PlannerInvariant BY <1>1, PlannerStarts
<1>5. PlannerInvariant /\ [Planner!Next]_(Planner!plannerVars) => PlannerInvariant'
  <2>1. SUFFICES ASSUME PlannerInvariant, [Planner!Next]_(Planner!plannerVars) PROVE PlannerInvariant'
    OBVIOUS
  <2>2. CASE Planner!validateSelections BY <1>1, <2>1, <2>2, SelectionsKeep
  <2>3. CASE \E m \in Module : Planner!place(m) BY <1>1, <2>1, <2>3, PlaceKeeps
  <2>4. CASE Planner!validateBatchExplorationPlan BY <1>1, <2>1, <2>4, ValidationKeeps
  <2>5. CASE UNCHANGED Planner!plannerVars BY <1>1, <2>1, <2>5, NothingKeeps
  <2>6. QED BY <2>1, <2>2, <2>3, <2>4, <2>5 DEF Planner!Next
<1>6. QED BY <1>2, <1>3, <1>4, <1>5, PTL DEF Planner!Spec

-----------------------------------------------------------------------------
(* The stream transcript.                                                  *)

LEMMA EntryPaths ==
    /\ Stream!Path = {"index.html", "dist/index.html"}
    /\ Stream!EntryPath[1] = "index.html" /\ Stream!EntryPath[2] = "dist/index.html"
BY DEF Stream!Path, Stream!EntryPath, Stream!ToSet

Lines == Seq(Stream!NdjsonLine)

NoResult(s) == \A i \in DOMAIN s : s[i].type # "result"

\* The last code_delta of path p shows content c.
ShownLast(s, p, c) ==
    \E i \in DOMAIN s :
        /\ s[i] = Stream!Line("code_delta", p, c)
        /\ \A j \in i + 1 .. Len(s) : s[j].type = "code_delta" => s[j].path # p

\* The last line that decides about a variation says v.
DecidesLast(s, v) ==
    /\ v # "progress"
    /\ \E i \in DOMAIN s :
        /\ Stream!toDesignEvent(s[i]) = v
        /\ \A j \in i + 1 .. Len(s) : Stream!toDesignEvent(s[j]) = "progress"

\* No line shows path p, and none decides.
Quiet(s, p) == \A i \in DOMAIN s : s[i].type = "code_delta" => s[i].path # p
Undecided(s) == \A i \in DOMAIN s : Stream!toDesignEvent(s[i]) = "progress"

LEMMA Joined ==
    ASSUME NEW s \in Lines, NEW t \in Lines
    PROVE  /\ s \o t \in Lines
           /\ Len(s \o t) = Len(s) + Len(t)
           /\ \A i \in 1 .. Len(s) : (s \o t)[i] = s[i]
           /\ \A i \in 1 .. Len(t) : (s \o t)[Len(s) + i] = t[i]
           /\ \A i \in 1 .. Len(s) + Len(t) : i > Len(s) => i - Len(s) \in 1 .. Len(t) /\ (s \o t)[i] = t[i - Len(s)]
BY DEF Lines

LEMMA ResultsJoined ==
    ASSUME NEW s \in Lines, NEW t \in Lines, NoResult(s), NoResult(t)
    PROVE  NoResult(s \o t)
<1>1. SUFFICES ASSUME NEW i \in DOMAIN (s \o t) PROVE (s \o t)[i].type # "result"
  BY DEF NoResult
<1>2. i \in 1 .. Len(s) + Len(t) BY <1>1, Joined DEF Lines
<1>3. CASE i <= Len(s)
  <2>1. i \in DOMAIN s BY <1>2, <1>3 DEF Lines
  <2>2. (s \o t)[i] = s[i] BY <1>2, <1>3, Joined
  <2>3. QED BY <2>1, <2>2 DEF NoResult
<1>4. CASE i > Len(s)
  <2>1. i - Len(s) \in DOMAIN t /\ (s \o t)[i] = t[i - Len(s)] BY <1>2, <1>4, Joined DEF Lines
  <2>2. QED BY <2>1 DEF NoResult
<1>5. Len(s) \in Nat BY DEF Lines
<1>6. QED BY <1>2, <1>3, <1>4, <1>5

LEMMA ShownStays ==
    ASSUME NEW s \in Lines, NEW t \in Lines, NEW p, NEW c, ShownLast(s, p, c), Quiet(t, p)
    PROVE  ShownLast(s \o t, p, c)
<1>1. PICK i \in DOMAIN s :
        /\ s[i] = Stream!Line("code_delta", p, c)
        /\ \A j \in i + 1 .. Len(s) : s[j].type = "code_delta" => s[j].path # p
  BY DEF ShownLast
<1>2. Len(s) \in Nat /\ Len(t) \in Nat /\ i \in 1 .. Len(s) /\ DOMAIN t = 1 .. Len(t) BY DEF Lines
<1>3. i \in DOMAIN (s \o t) /\ (s \o t)[i] = Stream!Line("code_delta", p, c) 
  BY <1>1, <1>2, Joined DEF Lines
<1>4. ASSUME NEW j \in i + 1 .. Len(s \o t), (s \o t)[j].type = "code_delta"
      PROVE  (s \o t)[j].path # p
  <2>1. CASE j <= Len(s)
    <3>1. j \in i + 1 .. Len(s) /\ (s \o t)[j] = s[j] BY <1>2, <1>4, <2>1, Joined
    <3>2. QED BY <1>1, <1>4, <3>1
  <2>2. CASE j > Len(s)
    <3>1. j \in 1 .. Len(s) + Len(t) BY <1>2, <1>4, Joined
    <3>2. j - Len(s) \in 1 .. Len(t) /\ (s \o t)[j] = t[j - Len(s)] BY <2>2, <3>1, Joined
    <3>3. QED BY <1>2, <1>4, <3>2 DEF Quiet
  <2>3. QED BY <1>2, <1>4, <2>1, <2>2
<1>5. QED BY <1>3, <1>4 DEF ShownLast

LEMMA ShownAdds ==
    ASSUME NEW s \in Lines, NEW t \in Lines, NEW p, NEW c, ShownLast(t, p, c)
    PROVE  ShownLast(s \o t, p, c)
<1>1. PICK i \in DOMAIN t :
        /\ t[i] = Stream!Line("code_delta", p, c)
        /\ \A j \in i + 1 .. Len(t) : t[j].type = "code_delta" => t[j].path # p
  BY DEF ShownLast
<1>2. Len(s) \in Nat /\ Len(t) \in Nat /\ i \in 1 .. Len(t) BY DEF Lines
<1>3. Len(s) + i \in DOMAIN (s \o t) /\ (s \o t)[Len(s) + i] = Stream!Line("code_delta", p, c)
  BY <1>1, <1>2, Joined DEF Lines
<1>4. ASSUME NEW j \in (Len(s) + i) + 1 .. Len(s \o t), (s \o t)[j].type = "code_delta"
      PROVE  (s \o t)[j].path # p
  <2>1. j \in 1 .. Len(s) + Len(t) /\ j > Len(s) BY <1>2, <1>4, Joined
  <2>2. (s \o t)[j] = t[j - Len(s)] BY <2>1, Joined
  <2>3. j - Len(s) \in i + 1 .. Len(t) BY <1>2, <1>4, <2>1, Joined
  <2>4. QED BY <1>1, <1>4, <2>2, <2>3
<1>5. QED BY <1>3, <1>4 DEF ShownLast

LEMMA DecisionStays ==
    ASSUME NEW s \in Lines, NEW t \in Lines, NEW v, DecidesLast(s, v), Undecided(t)
    PROVE  DecidesLast(s \o t, v)
<1>1. PICK i \in DOMAIN s :
        /\ Stream!toDesignEvent(s[i]) = v
        /\ \A j \in i + 1 .. Len(s) : Stream!toDesignEvent(s[j]) = "progress"
  BY DEF DecidesLast
<1>2. Len(s) \in Nat /\ Len(t) \in Nat /\ i \in 1 .. Len(s) /\ DOMAIN t = 1 .. Len(t) BY DEF Lines
<1>3. (s \o t)[i] = s[i] /\ i \in DOMAIN (s \o t) BY <1>1, <1>2, Joined DEF Lines
<1>4. ASSUME NEW j \in i + 1 .. Len(s \o t) PROVE Stream!toDesignEvent((s \o t)[j]) = "progress"
  <2>1. CASE j <= Len(s)
    <3>1. j \in i + 1 .. Len(s) /\ (s \o t)[j] = s[j] BY <1>2, <1>4, <2>1, Joined
    <3>2. QED BY <1>1, <3>1
  <2>2. CASE j > Len(s)
    <3>1. j \in 1 .. Len(s) + Len(t) BY <1>2, <1>4, Joined
    <3>2. j - Len(s) \in 1 .. Len(t) /\ (s \o t)[j] = t[j - Len(s)] BY <2>2, <3>1, Joined
    <3>3. QED BY <1>2, <3>2 DEF Undecided
  <2>3. QED BY <1>2, <1>4, <2>1, <2>2
<1>5. QED BY <1>1, <1>3, <1>4 DEF DecidesLast

LEMMA DecisionAdds ==
    ASSUME NEW s \in Lines, NEW t \in Lines, NEW v, DecidesLast(t, v)
    PROVE  DecidesLast(s \o t, v)
<1>1. PICK i \in DOMAIN t :
        /\ Stream!toDesignEvent(t[i]) = v
        /\ \A j \in i + 1 .. Len(t) : Stream!toDesignEvent(t[j]) = "progress"
  BY DEF DecidesLast
<1>2. Len(s) \in Nat /\ Len(t) \in Nat /\ i \in 1 .. Len(t) BY DEF Lines
<1>3. Len(s) + i \in DOMAIN (s \o t) /\ (s \o t)[Len(s) + i] = t[i]
  BY <1>1, <1>2, Joined DEF Lines
<1>4. ASSUME NEW j \in (Len(s) + i) + 1 .. Len(s \o t) PROVE Stream!toDesignEvent((s \o t)[j]) = "progress"
  <2>1. j \in 1 .. Len(s) + Len(t) /\ j > Len(s) BY <1>2, <1>4, Joined
  <2>2. (s \o t)[j] = t[j - Len(s)] BY <2>1, Joined
  <2>3. j - Len(s) \in i + 1 .. Len(t) BY <1>2, <1>4, <2>1, Joined
  <2>4. QED BY <1>1, <2>2, <2>3
<1>5. QED BY <1>1, <1>3, <1>4 DEF DecidesLast

\* A line that is neither a result, nor a code_delta.
LEMMA Noticed ==
    ASSUME NEW type \in {"runtime_lane_assigned", "runtime_lane_retry_started",
                         "runtime_lane_retry_exhausted", "assistant_delta", "error"}
    PROVE  /\ <<Stream!Notice(type)>> \in Lines
           /\ NoResult(<<Stream!Notice(type)>>)
           /\ \A p : Quiet(<<Stream!Notice(type)>>, p)
           /\ type # "error" => Undecided(<<Stream!Notice(type)>>)
           /\ type = "error" => DecidesLast(<<Stream!Notice(type)>>, "failed")
<1> DEFINE line == Stream!Notice(type)
<1>1. line = [type |-> type, path |-> "", content |-> Stream!NoFile] BY DEF Stream!Notice, Stream!Line
<1> HIDE DEF line
<1>2. line \in Stream!NdjsonLine
  <2>1. Stream!NoFile \in Stream!Content BY DEF Stream!NoFile, Stream!Content
  <2>2. QED BY <1>1, <2>1 DEF Stream!NdjsonLine
<1>3. line.type \notin {"result", "code_delta"} BY <1>1
<1>4. type # "error" => Stream!toDesignEvent(line) = "progress" BY <1>1 DEF Stream!toDesignEvent
<1>5. type = "error" => Stream!toDesignEvent(line) = "failed" BY <1>1 DEF Stream!toDesignEvent
<1>6. DOMAIN <<line>> = {1} /\ <<line>>[1] = line /\ Len(<<line>>) = 1 OBVIOUS
<1>7. <<line>> \in Lines BY <1>2 DEF Lines
<1>8. NoResult(<<line>>) /\ \A p : Quiet(<<line>>, p) BY <1>3, <1>6 DEF NoResult, Quiet
<1>9. type # "error" => Undecided(<<line>>) BY <1>4, <1>6 DEF Undecided
<1>10. type = "error" => DecidesLast(<<line>>, "failed")
  <2>1. \A j \in 1 + 1 .. 1 : FALSE OBVIOUS
  <2>2. QED BY <1>5, <1>6, <2>1 DEF DecidesLast
<1>11. QED BY <1>7, <1>8, <1>9, <1>10 DEF line

LEMMA NothingSaid ==
    /\ <<>> \in Lines /\ NoResult(<<>>) /\ Undecided(<<>>) /\ \A p : Quiet(<<>>, p)
    /\ \A s \in Lines : s \o <<>> = s
BY DEF Lines, NoResult, Undecided, Quiet

LEMMA DeltaIs ==
    ASSUME NEW p \in Stream!Path, NEW c \in Stream!Content
    PROVE  LET t == <<Stream!Line("code_delta", p, c)>>
           IN  /\ t \in Lines /\ NoResult(t) /\ Undecided(t) /\ ShownLast(t, p, c)
               /\ \A q : q # p => Quiet(t, q)
<1> DEFINE line == Stream!Line("code_delta", p, c)
<1>1. line = [type |-> "code_delta", path |-> p, content |-> c] BY DEF Stream!Line
<1>2. line = Stream!Line("code_delta", p, c) OBVIOUS
<1> HIDE DEF line
<1>3. line \in Stream!NdjsonLine BY <1>1 DEF Stream!NdjsonLine
<1>4. line.type = "code_delta" /\ line.path = p BY <1>1
<1>5. Stream!toDesignEvent(line) = "progress" BY <1>4 DEF Stream!toDesignEvent
<1>6. DOMAIN <<line>> = {1} /\ <<line>>[1] = line /\ Len(<<line>>) = 1 OBVIOUS
<1>7. <<line>> \in Lines BY <1>3 DEF Lines
<1>8. NoResult(<<line>>) /\ \A q : q # p => Quiet(<<line>>, q) BY <1>4, <1>6 DEF NoResult, Quiet
<1>9. Undecided(<<line>>) BY <1>5, <1>6 DEF Undecided
<1>10. ShownLast(<<line>>, p, c)
  <2>1. \A j \in 1 + 1 .. 1 : FALSE OBVIOUS
  <2>2. QED BY <1>2, <1>6, <2>1 DEF ShownLast
<1>11. QED BY <1>2, <1>7, <1>8, <1>9, <1>10

LEMMA DeltaOf ==
    ASSUME watcher.found \in [Stream!Path -> Stream!Content], NEW p \in Stream!Path
    PROVE  /\ Stream!CodeDelta(p) \in Lines /\ NoResult(Stream!CodeDelta(p)) /\ Undecided(Stream!CodeDelta(p))
           /\ \A q : q # p => Quiet(Stream!CodeDelta(p), q)
           /\ IF watcher.found[p] \in {Stream!NoFile, watcher.shown[p]} THEN Quiet(Stream!CodeDelta(p), p)
              ELSE ShownLast(Stream!CodeDelta(p), p, watcher.found[p])
<1>1. CASE watcher.found[p] \in {Stream!NoFile, watcher.shown[p]}
  <2>1. Stream!CodeDelta(p) = <<>> BY <1>1 DEF Stream!CodeDelta
  <2>2. QED BY <1>1, <2>1, NothingSaid
<1>2. CASE watcher.found[p] \notin {Stream!NoFile, watcher.shown[p]}
  <2>1. Stream!CodeDelta(p) = <<Stream!Line("code_delta", p, watcher.found[p])>>
    BY <1>2 DEF Stream!CodeDelta
  <2>2. watcher.found[p] \in Stream!Content OBVIOUS
  <2>3. QED BY <1>2, <2>1, <2>2, DeltaIs
<1>3. QED BY <1>1, <1>2

LEMMA QuietJoined ==
    ASSUME NEW s \in Lines, NEW t \in Lines, NEW p, Quiet(s, p), Quiet(t, p)
    PROVE  Quiet(s \o t, p)
<1>1. SUFFICES ASSUME NEW i \in DOMAIN (s \o t), (s \o t)[i].type = "code_delta"
               PROVE  (s \o t)[i].path # p
  BY DEF Quiet
<1>2. Len(s) \in Nat /\ Len(t) \in Nat /\ DOMAIN s = 1 .. Len(s) /\ DOMAIN t = 1 .. Len(t) BY DEF Lines
<1>3. i \in 1 .. Len(s) + Len(t) BY <1>1, <1>2, Joined DEF Lines
<1>4. CASE i <= Len(s)
  <2>1. i \in DOMAIN s /\ (s \o t)[i] = s[i] BY <1>2, <1>3, <1>4, Joined
  <2>2. QED BY <1>1, <2>1 DEF Quiet
<1>5. CASE i > Len(s)
  <2>1. i - Len(s) \in DOMAIN t /\ (s \o t)[i] = t[i - Len(s)] BY <1>2, <1>3, <1>5, Joined
  <2>2. QED BY <1>1, <2>1 DEF Quiet
<1>6. QED BY <1>2, <1>3, <1>4, <1>5

LEMMA UndecidedJoined ==
    ASSUME NEW s \in Lines, NEW t \in Lines, Undecided(s), Undecided(t)
    PROVE  Undecided(s \o t)
<1>1. SUFFICES ASSUME NEW i \in DOMAIN (s \o t)
               PROVE  Stream!toDesignEvent((s \o t)[i]) = "progress"
  BY DEF Undecided
<1>2. Len(s) \in Nat /\ Len(t) \in Nat /\ DOMAIN s = 1 .. Len(s) /\ DOMAIN t = 1 .. Len(t) BY DEF Lines
<1>3. i \in 1 .. Len(s) + Len(t) BY <1>1, <1>2, Joined DEF Lines
<1>4. CASE i <= Len(s)
  <2>1. i \in DOMAIN s /\ (s \o t)[i] = s[i] BY <1>2, <1>3, <1>4, Joined
  <2>2. QED BY <2>1 DEF Undecided
<1>5. CASE i > Len(s)
  <2>1. i - Len(s) \in DOMAIN t /\ (s \o t)[i] = t[i - Len(s)] BY <1>2, <1>3, <1>5, Joined
  <2>2. QED BY <2>1 DEF Undecided
<1>6. QED BY <1>2, <1>3, <1>4, <1>5

\* What the watcher has shown stays what its lines show.
LEMMA DeltasWritten ==
    ASSUME watcher.found \in [Stream!Path -> Stream!Content], response \in Lines,
           \A p \in Stream!Path : watcher.shown[p] # Stream!NoFile => ShownLast(response, p, watcher.shown[p])
    PROVE  /\ Stream!CodeDeltas \in Lines /\ NoResult(Stream!CodeDeltas) /\ Undecided(Stream!CodeDeltas)
           /\ \A p \in Stream!Path : Stream!Shown[p] # Stream!NoFile =>
                ShownLast(response \o Stream!CodeDeltas, p, Stream!Shown[p])
<1> DEFINE indexLines == Stream!CodeDelta("index.html")
           distLines == Stream!CodeDelta("dist/index.html")
<1>1. Stream!CodeDeltas = indexLines \o distLines BY EntryPaths DEF Stream!CodeDeltas
<1>2. /\ indexLines \in Lines /\ NoResult(indexLines) /\ Undecided(indexLines)
      /\ distLines \in Lines /\ NoResult(distLines) /\ Undecided(distLines)
  BY EntryPaths, DeltaOf
<1>3. Quiet(indexLines, "dist/index.html") /\ Quiet(distLines, "index.html")
  <2>1. "index.html" # "dist/index.html" OBVIOUS
  <2>2. QED BY <2>1, EntryPaths, DeltaOf
<1>4. /\ IF watcher.found["index.html"] \in {Stream!NoFile, watcher.shown["index.html"]}
         THEN Quiet(indexLines, "index.html")
         ELSE ShownLast(indexLines, "index.html", watcher.found["index.html"])
      /\ IF watcher.found["dist/index.html"] \in {Stream!NoFile, watcher.shown["dist/index.html"]}
         THEN Quiet(distLines, "dist/index.html")
         ELSE ShownLast(distLines, "dist/index.html", watcher.found["dist/index.html"])
  BY EntryPaths, DeltaOf
<1> HIDE DEF indexLines, distLines
<1>5. indexLines \o distLines \in Lines /\ NoResult(indexLines \o distLines) /\ Undecided(indexLines \o distLines)
  BY <1>2, Joined, ResultsJoined, UndecidedJoined
<1>6. ASSUME NEW p \in Stream!Path
      PROVE  IF watcher.found[p] \in {Stream!NoFile, watcher.shown[p]} THEN Quiet(indexLines \o distLines, p)
             ELSE ShownLast(indexLines \o distLines, p, watcher.found[p])
  <2>1. CASE p = "index.html" BY <1>2, <1>3, <1>4, <2>1, QuietJoined, ShownStays
  <2>2. CASE p = "dist/index.html" BY <1>2, <1>3, <1>4, <2>2, QuietJoined, ShownAdds
  <2>3. QED BY <2>1, <2>2, EntryPaths
<1>7. ASSUME NEW p \in Stream!Path, Stream!Shown[p] # Stream!NoFile
      PROVE  ShownLast(response \o (indexLines \o distLines), p, Stream!Shown[p])
  <2>1. CASE watcher.found[p] \in {Stream!NoFile, watcher.shown[p]}
    <3>1. Stream!Shown[p] = watcher.shown[p] BY <2>1 DEF Stream!Shown
    <3>2. ShownLast(response, p, watcher.shown[p]) BY <1>7, <3>1
    <3>3. QED BY <1>5, <1>6, <2>1, <3>1, <3>2, ShownStays
  <2>2. CASE watcher.found[p] \notin {Stream!NoFile, watcher.shown[p]}
    <3>1. Stream!Shown[p] = watcher.found[p] BY <2>2 DEF Stream!Shown
    <3>2. QED BY <1>5, <1>6, <2>2, <3>1, ShownAdds
  <2>3. QED BY <2>1, <2>2
<1>8. QED BY <1>1, <1>5, <1>7

EventLines == {<<>>, <<Stream!Notice("assistant_delta")>>, <<Stream!Notice("error")>>}

LEMMA EventLinesPlain ==
    ASSUME NEW t \in EventLines
    PROVE  t \in Lines /\ NoResult(t) /\ \A p : Quiet(t, p)
BY Noticed, NothingSaid DEF EventLines

LEMMA EventsNormalized ==
    /\ \A event : Stream!normalizeTranscriptEvent(event) \in EventLines
    /\ Stream!normalizeTranscriptEvent("error") = <<Stream!Notice("error")>>
    /\ Stream!normalizeTranscriptEvent("text") = <<Stream!Notice("assistant_delta")>>
BY DEF Stream!normalizeTranscriptEvent, EventLines

Execution == Stream!Answer \cup {Stream!Thrown, Stream!failedExecutionResponse}

\* A transcript is written, and a failure that it does not tell gets a line of its own.
LEMMA TranscriptWritten ==
    ASSUME NEW answer \in Execution
    PROVE  LET t == Stream!TranscriptLines(answer.events)
           IN  /\ t \in Lines /\ NoResult(t) /\ \A p : Quiet(t, p)
               /\ Stream!OwnError(answer) \in {<<>>, <<Stream!Notice("error")>>}
               /\ Stream!OwnError(answer) = <<>> => DecidesLast(t, "failed")
<1> DEFINE events == answer.events
           first == Stream!normalizeTranscriptEvent(events[1])
           second == IF Len(events) = 2 THEN Stream!normalizeTranscriptEvent(events[2]) ELSE <<>>
<1>1. Stream!TranscriptLines(answer.events) = first \o second BY DEF Stream!TranscriptLines
<1>2. first \in EventLines /\ second \in EventLines BY EventsNormalized DEF EventLines
<1>3. /\ first \in Lines /\ NoResult(first) /\ \A p : Quiet(first, p)
      /\ second \in Lines /\ NoResult(second) /\ \A p : Quiet(second, p)
  BY <1>2, EventLinesPlain
<1>4. first \o second \in Lines /\ NoResult(first \o second) /\ \A p : Quiet(first \o second, p)
  <2> HIDE DEF first, second
  <2>1. QED BY <1>3, Joined, ResultsJoined, QuietJoined
<1>5. Stream!OwnError(answer) \in {<<>>, <<Stream!Notice("error")>>} BY DEF Stream!OwnError
<1>6. ASSUME Stream!OwnError(answer) = <<>> PROVE DecidesLast(first \o second, "failed")
  <2>1. \E i \in DOMAIN events : events[i] = "error"
    BY <1>6 DEF Stream!OwnError, Stream!executionEventsIncludeError
  <2>2. ~\E i \in DOMAIN events : events[i] = "elsewhere"
    BY <1>6 DEF Stream!OwnError, Stream!runtimeCwdDrift
  <2>3. events \in {<<"text">>, <<"error", "text">>, <<"bare">>, <<"logged">>, <<"elsewhere", "error">>,
                    <<"thrown">>, <<"error">>}
    BY DEF Execution, Stream!Answer, Stream!Transcript, Stream!Thrown, Stream!failedExecutionResponse
  <2>4. events \in {<<"error", "text">>, <<"error">>}
    <3> HIDE DEF events
    <3>1. CASE events = <<"elsewhere", "error">> BY <2>2, <3>1
    <3>2. QED BY <2>1, <2>3, <3>1
  <2>5. first = <<Stream!Notice("error")>>
    <3>1. events[1] = "error" BY <2>4
    <3>2. QED BY <3>1, EventsNormalized
  <2>6. second \in {<<>>, <<Stream!Notice("assistant_delta")>>}
    <3>1. events = <<"error", "text">> => events[2] = "text" OBVIOUS
    <3>2. events = <<"error">> => Len(events) = 1 OBVIOUS
    <3>3. QED BY <2>4, <3>1, <3>2, EventsNormalized
  <2> HIDE DEF first, second
  <2>7. DecidesLast(first, "failed") BY <2>5, Noticed
  <2>8. Undecided(second) BY <2>6, Noticed, NothingSaid
  <2>9. QED BY <1>3, <2>7, <2>8, DecisionStays
<1>7. QED BY <1>1, <1>4, <1>5, <1>6

StreamRuns ==
    /\ Len(execs) = serve.laneAttempt + 1
    /\ serve.lane \in serve.tried
    /\ execs[Len(execs)].root = RootOf[serve.lane]
    /\ \A n \in 1 .. Len(execs) - 1 : \E l \in serve.tried \ {serve.lane} : execs[n].root = RootOf[l]
    /\ watcher.root = execs[1].root
    /\ streamMode = "refine" => serve.laneAttempt = 0
    /\ serve.at = "switching" => streamMode = "spawn" /\ serve.laneAttempt < LaneRetries
    /\ serve.executed.success =>
        serve.at \notin {"executing", "switching"} /\ execs[Len(execs)].state = "over"

WrittenByRuns ==
    \A r \in Stream!Root, p \in Stream!Path :
        LET n == written[r][p].by IN n = 0 \/ (n \in 1 .. Len(execs) /\ execs[n].root = r)

\* Nobody writes any more.
OnlyRunOver == serve.executed.success /\ serve.laneAttempt = 0

StreamWatched ==
    /\ \A p \in Stream!Path : watcher.shown[p] # Stream!NoFile => ShownLast(response, p, watcher.shown[p])
    /\ serve.at \in {"reading", "saving", "ended"} => watcher.found = Stream!NoFiles
    /\ serve.at = "scanning" /\ OnlyRunOver => watcher.found = written[watcher.root]
    /\ serve.at \in {"reading", "saving", "ended"} /\ OnlyRunOver =>
        \A p \in Stream!Path : written[watcher.root][p] # Stream!NoFile =>
            watcher.shown[p] = written[watcher.root][p]

PageSaved ==
    \E p \in Stream!Path, c \in Stream!Content :
        /\ c # Stream!NoFile
        /\ serve.last = <<Stream!Line("result", p, c)>>
        /\ serve.executed.success
        /\ Stream!OwnWorkspaces => c.by \in {0, Len(execs)}
        /\ serve.laneAttempt = 0 =>
            Stream!readWorkspaceArtifact(RootOf[serve.lane]) = [path |-> p, content |-> c]
        /\ operation.status \in {"running", "cancelled", "completed"}
        /\ operation.status = "completed" => streamMode = "refine" /\ operation.root = RootOf[serve.lane]
        /\ streamMode = "refine" => operation.status # "running"
        /\ IF serve.at = "ended"
           THEN \E s \in Lines : NoResult(s) /\ response = s \o serve.last
           ELSE NoResult(response)

FailureSaved ==
    /\ serve.last \in {<<>>, <<Stream!Notice("error")>>}
    /\ NoResult(response)
    /\ serve.at = "ended" \/ serve.last = <<>> => DecidesLast(response, "failed")
    /\ operation.status \in {"running", "cancelled", "failed"}
    /\ streamMode = "refine" => operation.status # "running"

StreamEnds ==
    /\ serve.at \in {"executing", "switching", "stopping", "scanning", "reading"} =>
        NoResult(response) /\ operation.status \in {"running", "cancelled"}
    /\ serve.at = "reading" => serve.executed.success
    /\ serve.at \in {"saving", "ended"} => PageSaved \/ FailureSaved

StreamInvariant ==
    /\ Stream!TypeOK /\ StreamRuns /\ WrittenByRuns /\ StreamWatched /\ StreamEnds

ServeAt == {"executing", "switching", "stopping", "scanning", "reading", "saving", "ended"}
StreamServe ==
    [at : ServeAt, lane : Lane, tried : SUBSET Lane, laneAttempt : 0 .. LaneRetries,
     attempt : 0 .. CapacityRetries, executed : Execution, last : Lines]
StreamExec == [root : Stream!Root, state : {"running", "stray", "over"}]
StreamFiles == [Stream!Path -> Stream!Content]

LEMMA StreamTypes ==
    Stream!TypeOK <=>
        /\ streamMode \in {"spawn", "refine"}
        /\ operation \in [status : {"running", "cancelled", "completed", "failed"}, root : Stream!Root]
        /\ serve \in StreamServe
        /\ execs \in Seq(StreamExec)
        /\ written \in [Stream!Root -> StreamFiles]
        /\ watcher \in [root : Stream!Root, found : StreamFiles, shown : StreamFiles]
        /\ response \in Lines
BY DEF Stream!TypeOK, StreamServe, ServeAt, StreamExec, StreamFiles, Lines, Execution

LEMMA StreamTypesAfter ==
    Stream!TypeOK' <=>
        /\ streamMode' \in {"spawn", "refine"}
        /\ operation' \in [status : {"running", "cancelled", "completed", "failed"}, root : Stream!Root]
        /\ serve' \in StreamServe
        /\ execs' \in Seq(StreamExec)
        /\ written' \in [Stream!Root -> StreamFiles]
        /\ watcher' \in [root : Stream!Root, found : StreamFiles, shown : StreamFiles]
        /\ response' \in Lines
BY DEF Stream!TypeOK, StreamServe, ServeAt, StreamExec, StreamFiles, Lines, Execution

LEMMA NoFileTypes ==
    /\ Stream!NoFile \in Stream!Content /\ Stream!Earlier \in Stream!Content
    /\ Stream!NoFile.by = 0 /\ Stream!Earlier.by = 0
    /\ Stream!NoFiles \in StreamFiles /\ \A p \in Stream!Path : Stream!NoFiles[p] = Stream!NoFile
BY DEF Stream!NoFile, Stream!Earlier, Stream!NoFiles, Stream!Content, StreamFiles

LEMMA StreamStarts == Stream!Assumptions /\ Stream!Init => StreamInvariant
<1> SUFFICES ASSUME Stream!Assumptions, Stream!Init PROVE StreamInvariant OBVIOUS
<1>1. PICK l \in Lane :
        /\ serve = [at |-> "executing", lane |-> l, tried |-> {l}, laneAttempt |-> 0, attempt |-> 0,
                    executed |-> Stream!Thrown, last |-> <<>>]
        /\ execs = <<[root |-> RootOf[l], state |-> "running"]>>
        /\ watcher = [root |-> RootOf[l], found |-> Stream!NoFiles, shown |-> Stream!NoFiles]
        /\ operation = [status |-> "running", root |-> RootOf[l]]
        /\ \E before \in {Stream!NoFile, Stream!Earlier} :
            written = [r \in Stream!Root |-> [p \in Stream!Path |->
                        IF r = RootOf[l] /\ p = "index.html" THEN before ELSE Stream!NoFile]]
  BY DEF Stream!Init
<1>2. response = <<Stream!Notice("runtime_lane_assigned")>> \o <<Stream!Notice("assistant_delta")>>
  BY DEF Stream!Init
<1>3. response \in Lines /\ NoResult(response)
  BY <1>2, Noticed, Joined, ResultsJoined
<1>4. RootOf[l] \in Stream!Root BY DEF Stream!Root
<1>5. PICK thrown : thrown = Stream!Thrown OBVIOUS
<1>6. thrown \in Execution /\ thrown.success = FALSE BY <1>5 DEF Execution, Stream!Thrown
<1>7. written \in [Stream!Root -> StreamFiles]
      /\ \A r \in Stream!Root, p \in Stream!Path : written[r][p].by = 0
  BY <1>1, NoFileTypes DEF StreamFiles
<1>8. Stream!TypeOK
  <2>1. serve \in StreamServe
    <3>1. 0 \in 0 .. LaneRetries /\ 0 \in 0 .. CapacityRetries BY DEF Stream!Assumptions
    <3>2. <<>> \in Lines BY NothingSaid
    <3>3. QED BY <1>1, <1>5, <1>6, <3>1, <3>2 DEF StreamServe, ServeAt
  <2>2. execs \in Seq(StreamExec) BY <1>1, <1>4 DEF StreamExec
  <2>3. streamMode \in {"spawn", "refine"} BY DEF Stream!Init
  <2>4. watcher \in [root : Stream!Root, found : StreamFiles, shown : StreamFiles]
    BY <1>1, <1>4, NoFileTypes
  <2>5. operation \in [status : {"running", "cancelled", "completed", "failed"}, root : Stream!Root]
    BY <1>1, <1>4
  <2>6. QED BY <1>3, <1>7, <2>1, <2>2, <2>3, <2>4, <2>5, StreamTypes
<1>9. ~serve.executed.success /\ serve.at = "executing" /\ serve.lane = l /\ serve.tried = {l} /\ serve.laneAttempt = 0
  BY <1>1, <1>5, <1>6
<1>10. Len(execs) = 1 /\ execs[1].root = RootOf[l] /\ watcher.root = RootOf[l] BY <1>1
<1>11. StreamRuns BY <1>9, <1>10 DEF StreamRuns
<1>12. WrittenByRuns BY <1>7 DEF WrittenByRuns
<1>13. StreamWatched BY <1>1, <1>9, NoFileTypes DEF StreamWatched
<1>14. StreamEnds BY <1>1, <1>3, <1>9 DEF StreamEnds
<1>15. QED BY <1>8, <1>11, <1>12, <1>13, <1>14 DEF StreamInvariant

\* A backend that still may write is not the one whose success decided.
LEMMA WritesKeep ==
    ASSUME StreamInvariant, NEW n \in DOMAIN execs, NEW p \in Stream!Path, Stream!writeFile(n, p)
    PROVE  StreamInvariant'
<1> DEFINE r == execs[n].root
           old == written[r][p]
           new == IF old.by = n THEN [old EXCEPT !.draft = @ + 1] ELSE [by |-> n, draft |-> 1]
<1>1. /\ execs[n].state \in {"running", "stray"}
      /\ written' = [written EXCEPT ![r][p] = new]
      /\ UNCHANGED <<streamMode, operation, serve, execs, watcher, response>>
  BY DEF Stream!writeFile
<1>2. Stream!TypeOK /\ StreamRuns /\ WrittenByRuns /\ StreamWatched /\ StreamEnds BY DEF StreamInvariant
<1>3. execs \in Seq(StreamExec) /\ written \in [Stream!Root -> StreamFiles] BY <1>2, StreamTypes
<1>4. n \in 1 .. Len(execs) /\ n \in Nat /\ r \in Stream!Root
  <2>1. n \in 1 .. Len(execs) /\ n \in Nat /\ execs[n] \in StreamExec BY <1>3
  <2>2. QED BY <2>1 DEF StreamExec
<1>5. old \in Stream!Content BY <1>3, <1>4 DEF StreamFiles
<1>6. new \in Stream!Content /\ new.by = n
  <2> HIDE DEF old
  <2>1. CASE old.by = n
    <3>1. new = [old EXCEPT !.draft = old.draft + 1] BY <2>1
    <3>2. QED BY <1>4, <1>5, <2>1, <3>1 DEF Stream!Content
  <2>2. CASE old.by # n
    <3>1. new = [by |-> n, draft |-> 1] BY <2>2
    <3>2. QED BY <1>4, <3>1 DEF Stream!Content
  <2>3. QED BY <2>1, <2>2
<1> HIDE DEF new, old, r
<1>7. r = execs[n].root BY DEF r
<1>8. /\ written' \in [Stream!Root -> StreamFiles]
      /\ written'[r][p] = new
      /\ \A s \in Stream!Root, q \in Stream!Path : s # r \/ q # p => written'[s][q] = written[s][q]
  BY <1>1, <1>3, <1>4, <1>6 DEF StreamFiles
<1>9. Stream!TypeOK' BY <1>1, <1>2, <1>8, StreamTypes, StreamTypesAfter
<1>10. StreamRuns' BY <1>1, <1>2 DEF StreamRuns
<1>11. WrittenByRuns'
  <2>1. SUFFICES ASSUME NEW s \in Stream!Root, NEW q \in Stream!Path
                 PROVE  LET m == written'[s][q].by IN m = 0 \/ (m \in 1 .. Len(execs) /\ execs[m].root = s)
    BY <1>1 DEF WrittenByRuns
  <2>2. CASE s = r /\ q = p BY <1>4, <1>6, <1>7, <1>8, <2>2
  <2>3. CASE s # r \/ q # p
    <3>1. written'[s][q] = written[s][q] BY <1>8, <2>3
    <3>2. QED BY <1>2, <3>1 DEF WrittenByRuns
  <2>4. QED BY <2>2, <2>3
<1>12. ~OnlyRunOver
  <2>1. SUFFICES ASSUME OnlyRunOver PROVE FALSE OBVIOUS
  <2>2. serve.executed.success /\ serve.laneAttempt = 0 BY <2>1 DEF OnlyRunOver
  <2>3. Len(execs) = 1 /\ execs[Len(execs)].state = "over" BY <1>2, <2>2 DEF StreamRuns
  <2>4. n = 1 BY <1>4, <2>3
  <2>5. QED BY <1>1, <2>3, <2>4
<1>13. StreamWatched' BY <1>1, <1>2, <1>12 DEF StreamWatched, OnlyRunOver
<1>14. StreamEnds'
  <2>1. PageSaved => PageSaved'
    <3>1. serve.executed.success => serve.laneAttempt # 0 BY <1>12 DEF OnlyRunOver
    <3>2. QED BY <1>1, <3>1 DEF PageSaved
  <2>2. FailureSaved => FailureSaved' BY <1>1 DEF FailureSaved
  <2>3. QED BY <1>1, <1>2, <2>1, <2>2 DEF StreamEnds
<1>15. QED BY <1>9, <1>10, <1>11, <1>13, <1>14 DEF StreamInvariant

LEMMA ServeTypes ==
    ASSUME Stream!TypeOK
    PROVE  /\ DOMAIN serve = {"at", "lane", "tried", "laneAttempt", "attempt", "executed", "last"}
           /\ serve.at \in ServeAt /\ serve.lane \in Lane /\ serve.tried \subseteq Lane
           /\ serve.laneAttempt \in 0 .. LaneRetries /\ serve.attempt \in 0 .. CapacityRetries
           /\ serve.executed \in Execution /\ serve.last \in Lines
           /\ watcher.root \in Stream!Root /\ watcher.found \in StreamFiles /\ watcher.shown \in StreamFiles
           /\ RootOf[serve.lane] \in Stream!Root
           /\ execs \in Seq(StreamExec) /\ response \in Lines /\ written \in [Stream!Root -> StreamFiles]
           /\ operation.status \in {"running", "cancelled", "completed", "failed"}
           /\ operation.root \in Stream!Root
<1>1. serve \in StreamServe /\ watcher \in [root : Stream!Root, found : StreamFiles, shown : StreamFiles]
      /\ operation \in [status : {"running", "cancelled", "completed", "failed"}, root : Stream!Root]
  BY StreamTypes
<1>2. /\ DOMAIN serve = {"at", "lane", "tried", "laneAttempt", "attempt", "executed", "last"}
      /\ serve.at \in ServeAt /\ serve.lane \in Lane /\ serve.tried \subseteq Lane
      /\ serve.laneAttempt \in 0 .. LaneRetries /\ serve.attempt \in 0 .. CapacityRetries
      /\ serve.executed \in Execution /\ serve.last \in Lines
  BY <1>1 DEF StreamServe
<1>3. RootOf[serve.lane] \in Stream!Root BY <1>2 DEF Stream!Root
<1>4. QED BY <1>1, <1>2, <1>3, StreamTypes

LEMMA ScanBegins ==
    ASSUME StreamInvariant, Stream!runScan
    PROVE  StreamInvariant'
<1>1. /\ serve.at \in {"executing", "switching"}
      /\ watcher' = [watcher EXCEPT !.found = written[watcher.root]]
      /\ UNCHANGED <<streamMode, operation, serve, execs, written, response>>
  BY DEF Stream!runScan, Stream!readWorkspaceCodeFiles
<1>2. Stream!TypeOK /\ StreamRuns /\ WrittenByRuns /\ StreamWatched /\ StreamEnds BY DEF StreamInvariant
<1>3. watcher \in [root : Stream!Root, found : StreamFiles, shown : StreamFiles] BY <1>2, StreamTypes
<1>4. written[watcher.root] \in StreamFiles BY <1>2, ServeTypes
<1>5. /\ watcher' \in [root : Stream!Root, found : StreamFiles, shown : StreamFiles]
      /\ watcher'.root = watcher.root /\ watcher'.shown = watcher.shown
  BY <1>1, <1>3, <1>4
<1>6. Stream!TypeOK' BY <1>1, <1>2, <1>5, StreamTypes, StreamTypesAfter
<1>7. StreamRuns' BY <1>1, <1>2, <1>5 DEF StreamRuns
<1>8. WrittenByRuns' BY <1>1, <1>2 DEF WrittenByRuns
<1>9. StreamWatched' BY <1>1, <1>2, <1>5 DEF StreamWatched
<1>10. StreamEnds' BY <1>1, <1>2 DEF StreamEnds
<1>11. QED BY <1>6, <1>7, <1>8, <1>9, <1>10 DEF StreamInvariant

LEMMA ScanEnds ==
    ASSUME StreamInvariant, Stream!scan
    PROVE  StreamInvariant'
<1>1. /\ watcher.found # Stream!NoFiles /\ serve.at # "scanning"
      /\ response' = response \o Stream!CodeDeltas
      /\ watcher' = [watcher EXCEPT !.found = Stream!NoFiles, !.shown = Stream!Shown]
      /\ UNCHANGED <<streamMode, operation, serve, execs, written>>
  BY DEF Stream!scan
<1>2. Stream!TypeOK /\ StreamRuns /\ WrittenByRuns /\ StreamWatched /\ StreamEnds BY DEF StreamInvariant
<1>3. watcher \in [root : Stream!Root, found : StreamFiles, shown : StreamFiles] BY <1>2, StreamTypes
<1>4. Stream!Shown \in StreamFiles BY <1>3 DEF Stream!Shown, StreamFiles
<1>5. /\ watcher' \in [root : Stream!Root, found : StreamFiles, shown : StreamFiles]
      /\ watcher'.root = watcher.root /\ watcher'.shown = Stream!Shown
  BY <1>1, <1>3, <1>4, NoFileTypes
<1>6. /\ Stream!CodeDeltas \in Lines /\ NoResult(Stream!CodeDeltas)
      /\ \A p \in Stream!Path : Stream!Shown[p] # Stream!NoFile =>
            ShownLast(response \o Stream!CodeDeltas, p, Stream!Shown[p])
  BY <1>2, ServeTypes, DeltasWritten DEF StreamWatched, StreamFiles
<1>7. response' \in Lines BY <1>1, <1>2, <1>6, ServeTypes, Joined
<1>8. Stream!TypeOK' BY <1>1, <1>2, <1>5, <1>7, StreamTypes, StreamTypesAfter
<1>9. serve.at \in {"executing", "switching", "stopping"}
  BY <1>1, <1>2, ServeTypes DEF StreamWatched, ServeAt
<1>10. StreamRuns' BY <1>1, <1>2, <1>5 DEF StreamRuns
<1>11. WrittenByRuns' BY <1>1, <1>2 DEF WrittenByRuns
<1>12. StreamWatched' BY <1>1, <1>5, <1>6, <1>9 DEF StreamWatched
<1>13. StreamEnds'
  <2>1. NoResult(response') BY <1>1, <1>2, <1>6, <1>9, ServeTypes, ResultsJoined DEF StreamEnds
  <2>2. QED BY <1>1, <1>2, <1>9, <2>1 DEF StreamEnds
<1>14. QED BY <1>8, <1>10, <1>11, <1>12, <1>13 DEF StreamInvariant

LEMMA StopKeeps ==
    ASSUME StreamInvariant, Stream!stop
    PROVE  StreamInvariant'
<1>1. /\ serve.at = "stopping"
      /\ serve' = [serve EXCEPT !.at = "scanning"]
      /\ watcher' = [watcher EXCEPT !.found = written[watcher.root]]
      /\ UNCHANGED <<streamMode, operation, execs, written, response>>
  BY DEF Stream!stop, Stream!readWorkspaceCodeFiles
<1>2. Stream!TypeOK /\ StreamRuns /\ WrittenByRuns /\ StreamWatched /\ StreamEnds BY DEF StreamInvariant
<1>3. watcher \in [root : Stream!Root, found : StreamFiles, shown : StreamFiles] BY <1>2, StreamTypes
<1>4. written[watcher.root] \in StreamFiles BY <1>2, ServeTypes
<1>5. /\ watcher' \in [root : Stream!Root, found : StreamFiles, shown : StreamFiles]
      /\ watcher'.root = watcher.root /\ watcher'.shown = watcher.shown
      /\ watcher'.found = written[watcher.root]
  BY <1>1, <1>3, <1>4
<1>6. /\ serve' \in StreamServe
      /\ serve'.at = "scanning" /\ serve'.lane = serve.lane /\ serve'.tried = serve.tried
      /\ serve'.laneAttempt = serve.laneAttempt /\ serve'.executed = serve.executed
  <2>1. serve \in StreamServe BY <1>2, StreamTypes
  <2>2. QED BY <1>1, <2>1 DEF StreamServe, ServeAt
<1>7. Stream!TypeOK' BY <1>1, <1>2, <1>5, <1>6, StreamTypes, StreamTypesAfter
<1>8. StreamRuns' BY <1>1, <1>2, <1>5, <1>6 DEF StreamRuns
<1>9. WrittenByRuns' BY <1>1, <1>2 DEF WrittenByRuns
<1>10. StreamWatched' BY <1>1, <1>2, <1>5, <1>6 DEF StreamWatched
<1>11. StreamEnds' BY <1>1, <1>2, <1>6 DEF StreamEnds
<1>12. QED BY <1>7, <1>8, <1>9, <1>10, <1>11 DEF StreamInvariant

\* Another lane is only asked for while the stream may have one.
LEMMA RetriesAreBounded ==
    ASSUME Stream!TypeOK, NEW status, NEW givenUp, Stream!RetryLane(status, givenUp)
    PROVE  \E at \in {"switching", "stopping"},
              t \in {<<>>, <<Stream!Notice("runtime_lane_retry_exhausted")>>} :
            /\ serve' = [serve EXCEPT !.at = at, !.executed = givenUp]
            /\ response' = response \o t
            /\ at = "switching" => streamMode = "spawn" /\ serve.laneAttempt < LaneRetries
<1> DEFINE again == Stream!runtimeLaneRetryReason(status) /\ streamMode = "spawn" /\ serve.laneAttempt < LaneRetries
           t == IF Stream!runtimeLaneRetryReason(status) THEN <<Stream!Notice("runtime_lane_retry_exhausted")>> ELSE <<>>
<1>1. CASE again
  <2>1. serve' = [serve EXCEPT !.at = "switching", !.executed = givenUp] /\ response' = response
    BY <1>1 DEF Stream!RetryLane
  <2>2. response' = response \o <<>> BY <2>1, ServeTypes, NothingSaid
  <2>3. QED BY <1>1, <2>1, <2>2
<1>2. CASE ~again
  <2>1. serve' = [serve EXCEPT !.at = "stopping", !.executed = givenUp] /\ response' = response \o t
    BY <1>2 DEF Stream!RetryLane
  <2>2. t \in {<<>>, <<Stream!Notice("runtime_lane_retry_exhausted")>>} OBVIOUS
  <2>3. "stopping" # "switching" OBVIOUS
  <2>4. QED BY <2>1, <2>2, <2>3
<1>3. QED BY <1>1, <1>2

AttemptStep(at, n, e, state, t) ==
    /\ serve' = [serve EXCEPT !.at = at, !.attempt = n, !.executed = e]
    /\ execs' = [execs EXCEPT ![Len(execs)].state = state]
    /\ response' = response \o t
    /\ at = "switching" => streamMode = "spawn" /\ serve.laneAttempt < LaneRetries
    /\ e.success => at = "stopping" /\ state = "over"
    /\ UNCHANGED <<streamMode, operation, written, watcher>>

\* An attempt ends, or is made again on the same lane.
LEMMA AttemptKeeps ==
    ASSUME StreamInvariant, serve.at = "executing",
           NEW at \in {"executing", "switching", "stopping"}, NEW n \in 0 .. CapacityRetries,
           NEW e \in Execution, NEW state \in {"running", "stray", "over"},
           NEW t \in {<<>>, <<Stream!Notice("runtime_lane_retry_exhausted")>>},
           AttemptStep(at, n, e, state, t)
    PROVE  StreamInvariant'
<1>1. /\ serve' = [serve EXCEPT !.at = at, !.attempt = n, !.executed = e]
      /\ execs' = [execs EXCEPT ![Len(execs)].state = state]
      /\ response' = response \o t
      /\ at = "switching" => streamMode = "spawn" /\ serve.laneAttempt < LaneRetries
      /\ e.success => at = "stopping" /\ state = "over"
      /\ UNCHANGED <<streamMode, operation, written, watcher>>
  BY DEF AttemptStep
<1>2. Stream!TypeOK /\ StreamRuns /\ WrittenByRuns /\ StreamWatched /\ StreamEnds BY DEF StreamInvariant
<1>3. /\ serve' \in StreamServe
      /\ serve'.at = at /\ serve'.lane = serve.lane /\ serve'.tried = serve.tried
      /\ serve'.laneAttempt = serve.laneAttempt /\ serve'.executed = e
  <2>1. serve \in StreamServe BY <1>2, StreamTypes
  <2>2. QED BY <1>1, <2>1 DEF StreamServe, ServeAt
<1>4. /\ execs' \in Seq(StreamExec) /\ Len(execs') = Len(execs)
      /\ \A m \in 1 .. Len(execs) : execs'[m].root = execs[m].root
      /\ execs'[Len(execs)].state = state /\ Len(execs) \in 1 .. Len(execs)
  <2>1. execs \in Seq(StreamExec) /\ Len(execs) \in Nat /\ serve.laneAttempt \in Nat BY <1>2, ServeTypes
  <2>2. Len(execs) \in 1 .. Len(execs) BY <1>2, <2>1 DEF StreamRuns
  <2>3. execs[Len(execs)] \in StreamExec BY <2>1, <2>2
  <2>4. PICK last \in StreamExec : last = [execs[Len(execs)] EXCEPT !.state = state]
    BY <2>3 DEF StreamExec
  <2>5. last.state = state /\ last.root = execs[Len(execs)].root BY <2>3, <2>4 DEF StreamExec
  <2>6. execs' = [execs EXCEPT ![Len(execs)] = last] BY <1>1, <2>4
  <2>7. QED BY <2>1, <2>2, <2>4, <2>5, <2>6
<1>5. t \in Lines /\ NoResult(t) /\ \A p : Quiet(t, p) BY Noticed, NothingSaid
<1>6. response \in Lines /\ response' \in Lines BY <1>1, <1>2, <1>5, ServeTypes, Joined
<1>7. Stream!TypeOK' BY <1>1, <1>2, <1>3, <1>4, <1>6, StreamTypes, StreamTypesAfter
<1>8. StreamRuns'
  <2>1. 1 \in 1 .. Len(execs) /\ \A m \in 1 .. Len(execs) - 1 : m \in 1 .. Len(execs) BY <1>4
  <2>2. QED BY <1>1, <1>2, <1>3, <1>4, <2>1 DEF StreamRuns
<1>9. WrittenByRuns' BY <1>1, <1>2, <1>4 DEF WrittenByRuns
<1>10. StreamWatched'
  <2>1. ASSUME NEW p \in Stream!Path, watcher.shown[p] # Stream!NoFile
        PROVE  ShownLast(response', p, watcher.shown[p])
    BY <1>1, <1>2, <1>5, <1>6, <2>1, ShownStays DEF StreamWatched
  <2>2. QED BY <1>1, <1>2, <1>3, <2>1 DEF StreamWatched
<1>11. StreamEnds'
  <2>1. NoResult(response') BY <1>1, <1>2, <1>5, <1>6, ResultsJoined DEF StreamEnds
  <2>2. QED BY <1>1, <1>2, <1>3, <2>1 DEF StreamEnds
<1>12. QED BY <1>7, <1>8, <1>9, <1>10, <1>11 DEF StreamInvariant

LEMMA GivenUpFails ==
    /\ Stream!Thrown \in Execution /\ ~Stream!Thrown.success
    /\ Stream!failedExecutionResponse \in Execution /\ ~Stream!failedExecutionResponse.success
BY DEF Stream!Thrown, Stream!failedExecutionResponse, Execution

LEMMA SameAttempt ==
    ASSUME Stream!TypeOK, NEW at, NEW e, serve' = [serve EXCEPT !.at = at, !.executed = e]
    PROVE  serve' = [serve EXCEPT !.at = at, !.attempt = serve.attempt, !.executed = e]
<1>1. serve \in StreamServe BY StreamTypes
<1>2. QED BY <1>1 DEF StreamServe

\* The attempt is given up, whatever its backend still does.
LEMMA GivenUpKeeps ==
    ASSUME StreamInvariant, serve.at = "executing",
           NEW status, NEW givenUp \in Execution, ~givenUp.success, Stream!RetryLane(status, givenUp),
           NEW state \in {"stray", "over"}, execs' = [execs EXCEPT ![Len(execs)].state = state],
           UNCHANGED <<streamMode, operation, written, watcher>>
    PROVE  StreamInvariant'
<1>1. Stream!TypeOK BY DEF StreamInvariant
<1>2. PICK at \in {"switching", "stopping"},
           t \in {<<>>, <<Stream!Notice("runtime_lane_retry_exhausted")>>} :
            /\ serve' = [serve EXCEPT !.at = at, !.executed = givenUp]
            /\ response' = response \o t
            /\ at = "switching" => streamMode = "spawn" /\ serve.laneAttempt < LaneRetries
  BY <1>1, RetriesAreBounded
<1>3. serve' = [serve EXCEPT !.at = at, !.attempt = serve.attempt, !.executed = givenUp]
  BY <1>1, <1>2, SameAttempt
<1>4. AttemptStep(at, serve.attempt, givenUp, state, t) BY <1>2, <1>3 DEF AttemptStep
<1>5. serve.attempt \in 0 .. CapacityRetries BY <1>1, ServeTypes
<1>6. QED BY <1>4, <1>5, AttemptKeeps

LEMMA ExecutedKeeps ==
    ASSUME StreamInvariant, NEW answer \in Stream!Answer, Stream!executed(answer)
    PROVE  StreamInvariant'
<1>1. /\ serve.at = "executing"
      /\ execs' = [execs EXCEPT ![Len(execs)].state = "over"]
      /\ UNCHANGED <<streamMode, operation, written, watcher>>
  BY DEF Stream!executed
<1>2. CASE ~answer.success /\ streamMode = "spawn"
  <2>1. Stream!RetryLane("failed", Stream!failedExecutionResponse) BY <1>2 DEF Stream!executed
  <2>2. PICK status : status = "failed" OBVIOUS
  <2>3. PICK state : state = "over" OBVIOUS
  <2>4. Stream!RetryLane(status, Stream!failedExecutionResponse) BY <2>1, <2>2
  <2>5. QED BY <1>1, <2>3, <2>4, GivenUpFails, GivenUpKeeps
<1>3. CASE ~(~answer.success /\ streamMode = "spawn")
  <2>1. serve' = [serve EXCEPT !.at = "stopping", !.executed = answer] /\ response' = response
    BY <1>3 DEF Stream!executed
  <2>2. Stream!TypeOK BY DEF StreamInvariant
  <2>3. response' = response \o <<>> BY <2>1, <2>2, ServeTypes, NothingSaid
  <2>4. PICK at : at = "stopping" OBVIOUS
  <2>5. PICK state : state = "over" OBVIOUS
  <2>6. serve' = [serve EXCEPT !.at = at, !.attempt = serve.attempt, !.executed = answer]
    BY <2>1, <2>2, <2>4, SameAttempt
  <2>7. AttemptStep(at, serve.attempt, answer, state, <<>>)
    BY <1>1, <2>3, <2>4, <2>5, <2>6 DEF AttemptStep
  <2>8. serve.attempt \in 0 .. CapacityRetries /\ answer \in Execution BY <2>2, ServeTypes DEF Execution
  <2>9. QED BY <1>1, <2>4, <2>5, <2>7, <2>8, AttemptKeeps
<1>4. QED BY <1>2, <1>3

LEMMA CapacityKeeps ==
    ASSUME Stream!Assumptions, StreamInvariant, Stream!executeWithCapacityRetry
    PROVE  StreamInvariant'
<1>1. serve.at = "executing" /\ UNCHANGED <<streamMode, operation, written, watcher>>
  BY DEF Stream!executeWithCapacityRetry
<1>2. Stream!TypeOK /\ StreamRuns BY DEF StreamInvariant
<1>3. CASE serve.attempt < CapacityRetries
  <2>1. serve' = [serve EXCEPT !.attempt = serve.attempt + 1] /\ execs' = execs /\ response' = response
    BY <1>3 DEF Stream!executeWithCapacityRetry
  <2>2. serve.attempt \in 0 .. CapacityRetries /\ serve.executed \in Execution BY <1>2, ServeTypes
  <2>3. serve.attempt + 1 \in 0 .. CapacityRetries BY <1>3, <2>2 DEF Stream!Assumptions
  <2>4. PICK at : at = serve.at OBVIOUS
  <2>5. serve' = [serve EXCEPT !.at = at, !.attempt = serve.attempt + 1, !.executed = serve.executed]
    <3>1. serve \in StreamServe BY <1>2, StreamTypes
    <3>2. QED BY <2>1, <2>4, <3>1 DEF StreamServe
  <2>6. execs \in Seq(StreamExec) /\ Len(execs) \in 1 .. Len(execs)
    <3>1. execs \in Seq(StreamExec) /\ serve.laneAttempt \in Nat BY <1>2, ServeTypes
    <3>2. QED BY <1>2, <3>1 DEF StreamRuns
  <2>7. execs[Len(execs)] \in StreamExec BY <2>6
  <2>8. PICK state \in {"running", "stray", "over"} : state = execs[Len(execs)].state
    BY <2>7 DEF StreamExec
  <2>9. execs[Len(execs)] = [execs[Len(execs)] EXCEPT !.state = state] BY <2>7, <2>8 DEF StreamExec
  <2>10. execs' = [execs EXCEPT ![Len(execs)].state = state] BY <2>1, <2>6, <2>9
  <2>11. response' = response \o <<>> BY <1>2, <2>1, ServeTypes, NothingSaid
  <2>12. ~serve.executed.success /\ at = "executing" BY <1>1, <1>2, <2>4 DEF StreamRuns
  <2>13. AttemptStep(at, serve.attempt + 1, serve.executed, state, <<>>)
    BY <1>1, <2>5, <2>10, <2>11, <2>12 DEF AttemptStep
  <2>14. QED BY <1>1, <2>2, <2>3, <2>8, <2>12, <2>13, AttemptKeeps
<1>4. CASE ~(serve.attempt < CapacityRetries)
  <2>1. Stream!RetryLane("capacity", Stream!Thrown) /\ execs' = [execs EXCEPT ![Len(execs)].state = "over"]
    BY <1>4 DEF Stream!executeWithCapacityRetry
  <2>2. PICK status : status = "capacity" OBVIOUS
  <2>3. PICK state : state = "over" OBVIOUS
  <2>4. Stream!RetryLane(status, Stream!Thrown) BY <2>1, <2>2
  <2>5. QED BY <1>1, <2>1, <2>3, <2>4, GivenUpFails, GivenUpKeeps
<1>5. QED BY <1>3, <1>4

LEMMA FailedRequestKeeps ==
    ASSUME StreamInvariant, NEW status, Stream!requestFails(status)
    PROVE  StreamInvariant'
<1>1. /\ serve.at = "executing"
      /\ execs' = [execs EXCEPT ![Len(execs)].state = "stray"]
      /\ Stream!RetryLane(status, Stream!Thrown)
      /\ UNCHANGED <<streamMode, operation, written, watcher>>
  BY DEF Stream!requestFails
<1>2. PICK state : state = "stray" OBVIOUS
<1>3. QED BY <1>1, <1>2, GivenUpFails, GivenUpKeeps

\* The lane that is left keeps its runs and its files.
LEMMA SwitchedLaneKeeps ==
    ASSUME Stream!Assumptions, StreamInvariant, NEW l \in Lane, Stream!switchLane(l)
    PROVE  StreamInvariant'
<1> DEFINE t == <<Stream!Notice("runtime_lane_retry_started")>> \o <<Stream!Notice("runtime_lane_assigned")>>
           run == [root |-> RootOf[l], state |-> "running"]
<1>1. /\ serve.at = "switching" /\ l \notin serve.tried
      /\ serve' = [serve EXCEPT !.at = "executing", !.lane = l, !.tried = serve.tried \cup {l},
                                !.laneAttempt = serve.laneAttempt + 1, !.attempt = 0]
      /\ execs' = Append(execs, run)
      /\ UNCHANGED <<streamMode, operation, written, watcher>>
  BY DEF Stream!switchLane
<1>2. Stream!TypeOK /\ StreamRuns /\ WrittenByRuns /\ StreamWatched /\ StreamEnds BY DEF StreamInvariant
<1>3. t \in Lines /\ NoResult(t) /\ \A p : Quiet(t, p)
  BY Noticed, Joined, ResultsJoined, QuietJoined
<1>4. response' = response \o t BY DEF Stream!switchLane
<1>5. response \in Lines /\ response' \in Lines BY <1>2, <1>3, <1>4, ServeTypes, Joined
<1>6. serve.laneAttempt + 1 \in 0 .. LaneRetries /\ 0 \in 0 .. CapacityRetries /\ serve.laneAttempt \in Nat
  <2>1. serve.laneAttempt \in 0 .. LaneRetries /\ serve.laneAttempt < LaneRetries
    BY <1>1, <1>2, ServeTypes DEF StreamRuns
  <2>2. QED BY <2>1 DEF Stream!Assumptions
<1>7. /\ serve' \in StreamServe
      /\ serve'.at = "executing" /\ serve'.lane = l /\ serve'.tried = serve.tried \cup {l}
      /\ serve'.laneAttempt = serve.laneAttempt + 1 /\ serve'.executed = serve.executed
  <2>1. serve \in StreamServe BY <1>2, StreamTypes
  <2>2. QED BY <1>1, <1>6, <2>1 DEF StreamServe, ServeAt
<1>8. run \in StreamExec BY DEF StreamExec, Stream!Root
<1>9. run.root = RootOf[l] OBVIOUS
<1> HIDE DEF run, t
<1>10. /\ execs' \in Seq(StreamExec) /\ Len(execs') = Len(execs) + 1
       /\ \A m \in 1 .. Len(execs) : execs'[m] = execs[m]
       /\ execs'[Len(execs) + 1] = run /\ Len(execs) \in 1 .. Len(execs) /\ Len(execs) \in Nat
  <2>1. execs \in Seq(StreamExec) BY <1>2, ServeTypes
  <2>2. Len(execs) = serve.laneAttempt + 1 BY <1>2 DEF StreamRuns
  <2>3. QED BY <1>1, <1>6, <1>8, <2>1, <2>2
<1>11. Stream!TypeOK' BY <1>1, <1>2, <1>5, <1>7, <1>10, StreamTypes, StreamTypesAfter
<1>12. StreamRuns'
  <2>1. ~serve.executed.success /\ streamMode = "spawn" BY <1>1, <1>2 DEF StreamRuns
  <2>2. \A m \in 1 .. Len(execs) - 1 : \E k \in serve.tried \ {serve.lane} : execs[m].root = RootOf[k]
    BY <1>2 DEF StreamRuns
  <2>3. execs[Len(execs)].root = RootOf[serve.lane] /\ serve.lane \in serve.tried BY <1>2 DEF StreamRuns
  <2>4. ASSUME NEW m \in 1 .. Len(execs') - 1
        PROVE  \E k \in serve'.tried \ {serve'.lane} : execs'[m].root = RootOf[k]
    <3>1. m \in 1 .. Len(execs) /\ execs'[m] = execs[m] BY <1>10, <2>4
    <3>2. serve.tried \subseteq serve'.tried \ {serve'.lane} BY <1>1, <1>7
    <3>3. CASE m = Len(execs) BY <2>3, <3>1, <3>2, <3>3
    <3>4. CASE m # Len(execs)
      <4>1. m \in 1 .. Len(execs) - 1 BY <1>10, <3>1, <3>4
      <4>2. QED BY <2>2, <3>1, <3>2, <4>1
    <3>5. QED BY <3>3, <3>4
  <2>5. watcher.root = execs[1].root /\ execs'[1] = execs[1]
    <3>1. 1 \in 1 .. Len(execs) BY <1>10
    <3>2. QED BY <1>2, <1>10, <3>1 DEF StreamRuns
  <2>6. execs'[Len(execs')].root = RootOf[serve'.lane] BY <1>7, <1>9, <1>10
  <2>7. Len(execs') = serve'.laneAttempt + 1 BY <1>2, <1>6, <1>7, <1>10 DEF StreamRuns
  <2>8. QED BY <1>1, <1>7, <2>1, <2>4, <2>5, <2>6, <2>7 DEF StreamRuns
<1>13. WrittenByRuns'
  <2>1. \A m \in 1 .. Len(execs) : m \in 1 .. Len(execs') /\ execs'[m] = execs[m] BY <1>10
  <2>2. QED BY <1>1, <1>2, <2>1 DEF WrittenByRuns
<1>14. StreamWatched'
  <2>1. ASSUME NEW p \in Stream!Path, watcher.shown[p] # Stream!NoFile
        PROVE  ShownLast(response', p, watcher.shown[p])
    BY <1>2, <1>3, <1>4, <1>5, <2>1, ShownStays DEF StreamWatched
  <2>2. QED BY <1>1, <1>2, <1>7, <2>1 DEF StreamWatched
<1>15. StreamEnds'
  <2>1. NoResult(response') BY <1>1, <1>2, <1>3, <1>4, <1>5, ResultsJoined DEF StreamEnds
  <2>2. QED BY <1>1, <1>2, <1>7, <2>1 DEF StreamEnds
<1>16. QED BY <1>11, <1>12, <1>13, <1>14, <1>15 DEF StreamInvariant

LEMMA FailedSwitchKeeps ==
    ASSUME StreamInvariant, NEW acquired \in BOOLEAN, Stream!switchFails(acquired)
    PROVE  StreamInvariant'
<1>1. /\ serve.at = "switching"
      /\ UNCHANGED <<streamMode, operation, execs, written, watcher>>
  BY DEF Stream!switchFails
<1>2. Stream!TypeOK /\ StreamRuns /\ WrittenByRuns /\ StreamWatched /\ StreamEnds BY DEF StreamInvariant
<1>3. PICK e \in Execution, t \in {<<>>, <<Stream!Notice("runtime_lane_retry_exhausted")>>} :
        serve' = [serve EXCEPT !.at = "stopping", !.executed = e] /\ response' = response \o t /\ ~e.success
  <2>1. CASE acquired
    <3>1. serve' = [serve EXCEPT !.at = "stopping", !.executed = Stream!Thrown] /\ response' = response \o <<>>
      BY <2>1 DEF Stream!switchFails
    <3>2. QED BY <3>1, GivenUpFails
  <2>2. CASE ~acquired
    <3>1. /\ serve' = [serve EXCEPT !.at = "stopping", !.executed = serve.executed]
          /\ response' = response \o <<Stream!Notice("runtime_lane_retry_exhausted")>>
      BY <2>2 DEF Stream!switchFails
    <3>2. serve.executed \in Execution /\ ~serve.executed.success BY <1>1, <1>2, ServeTypes DEF StreamRuns
    <3>3. QED BY <3>1, <3>2
  <2>3. QED BY <2>1, <2>2
<1>4. t \in Lines /\ NoResult(t) /\ \A p : Quiet(t, p) BY Noticed, NothingSaid
<1>5. response \in Lines /\ response' \in Lines BY <1>2, <1>3, <1>4, ServeTypes, Joined
<1>6. /\ serve' \in StreamServe
      /\ serve'.at = "stopping" /\ serve'.lane = serve.lane /\ serve'.tried = serve.tried
      /\ serve'.laneAttempt = serve.laneAttempt /\ ~serve'.executed.success
  <2>1. serve \in StreamServe BY <1>2, StreamTypes
  <2>2. QED BY <1>3, <2>1 DEF StreamServe, ServeAt
<1>7. Stream!TypeOK' BY <1>1, <1>2, <1>5, <1>6, StreamTypes, StreamTypesAfter
<1>8. StreamRuns' BY <1>1, <1>2, <1>6 DEF StreamRuns
<1>9. WrittenByRuns' BY <1>1, <1>2 DEF WrittenByRuns
<1>10. StreamWatched'
  <2>1. ASSUME NEW p \in Stream!Path, watcher.shown[p] # Stream!NoFile
        PROVE  ShownLast(response', p, watcher.shown[p])
    BY <1>2, <1>3, <1>4, <1>5, <2>1, ShownStays DEF StreamWatched
  <2>2. QED BY <1>1, <1>2, <1>6, <2>1 DEF StreamWatched
<1>11. StreamEnds'
  <2>1. NoResult(response') BY <1>1, <1>2, <1>3, <1>4, <1>5, ResultsJoined DEF StreamEnds
  <2>2. QED BY <1>1, <1>2, <1>6, <2>1 DEF StreamEnds
<1>12. QED BY <1>7, <1>8, <1>9, <1>10, <1>11 DEF StreamInvariant

LEMMA CancelledStreamKeeps ==
    ASSUME StreamInvariant, Stream!cancelAgents
    PROVE  StreamInvariant'
<1>1. /\ streamMode = "refine" /\ operation.status = "running"
      /\ operation' = [operation EXCEPT !.status = "cancelled"]
      /\ UNCHANGED <<streamMode, serve, execs, written, watcher, response>>
  BY DEF Stream!cancelAgents
<1>2. Stream!TypeOK /\ StreamRuns /\ WrittenByRuns /\ StreamWatched /\ StreamEnds BY DEF StreamInvariant
<1>3. operation' \in [status : {"running", "cancelled", "completed", "failed"}, root : Stream!Root]
      /\ operation'.status = "cancelled"
  <2>1. operation \in [status : {"running", "cancelled", "completed", "failed"}, root : Stream!Root]
    BY <1>2, StreamTypes
  <2>2. QED BY <1>1, <2>1
<1>4. Stream!TypeOK' BY <1>1, <1>2, <1>3, StreamTypes, StreamTypesAfter
<1>5. StreamRuns' BY <1>1, <1>2 DEF StreamRuns
<1>6. WrittenByRuns' BY <1>1, <1>2 DEF WrittenByRuns
<1>7. StreamWatched' BY <1>1, <1>2 DEF StreamWatched, OnlyRunOver
<1>8. StreamEnds'
  <2>1. ~PageSaved /\ ~FailureSaved BY <1>1 DEF PageSaved, FailureSaved
  <2>2. serve.at \notin {"saving", "ended"} BY <1>2, <2>1 DEF StreamEnds
  <2>3. QED BY <1>1, <1>2, <1>3, <2>2 DEF StreamEnds
<1>9. QED BY <1>4, <1>5, <1>6, <1>7, <1>8 DEF StreamInvariant

LEMMA OperationUpdated ==
    ASSUME Stream!TypeOK, operation.status \in {"running", "cancelled"},
           NEW status \in {"completed", "failed"}, Stream!updateRefineOperationForStream(status)
    PROVE  /\ operation' \in [status : {"running", "cancelled", "completed", "failed"}, root : Stream!Root]
           /\ operation'.status \in {"running", "cancelled", status}
           /\ streamMode = "refine" => operation'.status # "running"
           /\ operation'.status = "completed" =>
                streamMode = "refine" /\ operation'.root = RootOf[serve.lane]
<1>1. operation \in [status : {"running", "cancelled", "completed", "failed"}, root : Stream!Root]
  BY StreamTypes
<1>2. CASE streamMode = "refine" /\ operation.status # "cancelled"
  <2>1. operation' = [status |-> status, root |-> RootOf[serve.lane]]
    BY <1>2 DEF Stream!updateRefineOperationForStream
  <2>2. operation'.status = status /\ operation'.root = RootOf[serve.lane] /\ RootOf[serve.lane] \in Stream!Root
    BY <2>1, ServeTypes
  <2>3. QED BY <1>2, <2>1, <2>2
<1>3. CASE ~(streamMode = "refine" /\ operation.status # "cancelled")
  <2>1. operation' = operation BY <1>3 DEF Stream!updateRefineOperationForStream
  <2>2. QED BY <1>1, <1>3, <2>1
<1>4. QED BY <1>2, <1>3

\* The last scan reads what was written, if nobody writes any more.
LEMMA LastScanKeeps ==
    ASSUME StreamInvariant, Stream!lastScan
    PROVE  StreamInvariant'
<1> DEFINE answer == serve.executed
           failed == Stream!runtimeCwdDrift(answer.events) \/ ~answer.success
           t == Stream!TranscriptLines(answer.events)
           own == Stream!OwnError(answer)
<1>1. /\ serve.at = "scanning"
      /\ response' = (response \o Stream!CodeDeltas) \o t
      /\ watcher' = [watcher EXCEPT !.found = Stream!NoFiles, !.shown = Stream!Shown]
      /\ UNCHANGED <<streamMode, execs, written>>
  BY DEF Stream!lastScan
<1>2. IF failed
      THEN /\ serve' = [serve EXCEPT !.at = "saving", !.last = own]
           /\ Stream!updateRefineOperationForStream("failed")
      ELSE serve' = [serve EXCEPT !.at = "reading"] /\ operation' = operation
  BY DEF Stream!lastScan
<1>3. Stream!TypeOK /\ StreamRuns /\ WrittenByRuns /\ StreamWatched /\ StreamEnds BY DEF StreamInvariant
<1>4. answer \in Execution BY <1>3, ServeTypes
<1>5. /\ t \in Lines /\ NoResult(t) /\ \A p : Quiet(t, p)
      /\ own \in {<<>>, <<Stream!Notice("error")>>}
      /\ own = <<>> => DecidesLast(t, "failed")
  BY <1>4, TranscriptWritten
<1>6. ~failed => answer.success OBVIOUS
<1> HIDE DEF t, own, failed
<1>7. watcher \in [root : Stream!Root, found : StreamFiles, shown : StreamFiles] BY <1>3, StreamTypes
<1>8. Stream!Shown \in StreamFiles BY <1>7 DEF Stream!Shown, StreamFiles
<1>9. /\ watcher' \in [root : Stream!Root, found : StreamFiles, shown : StreamFiles]
      /\ watcher'.root = watcher.root /\ watcher'.shown = Stream!Shown /\ watcher'.found = Stream!NoFiles
  BY <1>1, <1>7, <1>8, NoFileTypes
<1>10. /\ Stream!CodeDeltas \in Lines /\ NoResult(Stream!CodeDeltas)
       /\ \A p \in Stream!Path : Stream!Shown[p] # Stream!NoFile =>
             ShownLast(response \o Stream!CodeDeltas, p, Stream!Shown[p])
  BY <1>3, ServeTypes, DeltasWritten DEF StreamWatched, StreamFiles
<1>11. NoResult(response) /\ response \in Lines /\ operation.status \in {"running", "cancelled"}
  BY <1>1, <1>3, ServeTypes DEF StreamEnds
<1>12. response \o Stream!CodeDeltas \in Lines /\ NoResult(response \o Stream!CodeDeltas)
  BY <1>10, <1>11, Joined, ResultsJoined
<1>13. response' \in Lines /\ NoResult(response') BY <1>1, <1>5, <1>12, Joined, ResultsJoined
<1>14. ASSUME NEW p \in Stream!Path, Stream!Shown[p] # Stream!NoFile
       PROVE  ShownLast(response', p, Stream!Shown[p])
  BY <1>1, <1>5, <1>10, <1>12, <1>14, ShownStays
<1>15. PICK at \in {"saving", "reading"}, last \in Lines :
        /\ serve' = [serve EXCEPT !.at = at, !.last = last]
        /\ at = "saving" => failed /\ last = own
        /\ at = "reading" => ~failed
  <2>1. CASE failed
    <3>1. serve' = [serve EXCEPT !.at = "saving", !.last = own] BY <1>2, <2>1
    <3>2. own \in Lines BY <1>5, Noticed, NothingSaid
    <3>3. "saving" # "reading" OBVIOUS
    <3>4. QED BY <2>1, <3>1, <3>2, <3>3
  <2>2. CASE ~failed
    <3>1. serve \in StreamServe BY <1>3, StreamTypes
    <3>2. serve' = [serve EXCEPT !.at = "reading", !.last = serve.last]
      BY <1>2, <2>2, <3>1 DEF StreamServe
    <3>3. serve.last \in Lines BY <1>3, ServeTypes
    <3>4. "saving" # "reading" OBVIOUS
    <3>5. QED BY <2>2, <3>2, <3>3, <3>4
  <2>3. QED BY <2>1, <2>2
<1>16. /\ serve' \in StreamServe
       /\ serve'.at = at /\ serve'.lane = serve.lane /\ serve'.tried = serve.tried /\ serve'.last = last
       /\ serve'.laneAttempt = serve.laneAttempt /\ serve'.executed = serve.executed
  <2>1. serve \in StreamServe BY <1>3, StreamTypes
  <2>2. QED BY <1>15, <2>1 DEF StreamServe, ServeAt
<1>17. /\ operation' \in [status : {"running", "cancelled", "completed", "failed"}, root : Stream!Root]
       /\ at = "saving" => /\ operation'.status \in {"running", "cancelled", "failed"}
                           /\ streamMode = "refine" => operation'.status # "running"
       /\ at = "reading" => operation' = operation
  <2>1. CASE failed
    <3>1. PICK status \in {"completed", "failed"} : status = "failed" OBVIOUS
    <3>2. Stream!updateRefineOperationForStream(status) BY <1>2, <2>1, <3>1
    <3>3. QED BY <1>3, <1>11, <1>15, <2>1, <3>1, <3>2, OperationUpdated
  <2>2. CASE ~failed
    <3>1. operation' = operation BY <1>2, <2>2
    <3>2. QED BY <1>3, <1>15, <2>2, <3>1, StreamTypes
  <2>3. QED BY <2>1, <2>2
<1>18. Stream!TypeOK' BY <1>1, <1>3, <1>9, <1>13, <1>16, <1>17, StreamTypes, StreamTypesAfter
<1>19. StreamRuns' BY <1>1, <1>3, <1>9, <1>15, <1>16 DEF StreamRuns
<1>20. WrittenByRuns' BY <1>1, <1>3 DEF WrittenByRuns
<1>21. StreamWatched'
  <2>1. ASSUME OnlyRunOver', NEW p \in Stream!Path, written'[watcher'.root][p] # Stream!NoFile
        PROVE  watcher'.shown[p] = written'[watcher'.root][p]
    <3>1. OnlyRunOver BY <1>16, <2>1 DEF OnlyRunOver
    <3>2. watcher.found = written[watcher.root] BY <1>1, <1>3, <3>1 DEF StreamWatched
    <3>3. Stream!Shown[p] = watcher.found[p] BY <1>1, <1>9, <2>1, <3>2 DEF Stream!Shown
    <3>4. QED BY <1>1, <1>9, <3>2, <3>3
  <2>2. serve'.at # "scanning" BY <1>15, <1>16
  <2>3. QED BY <1>9, <1>14, <2>1, <2>2 DEF StreamWatched
<1>22. StreamEnds'
  <2>1. CASE at = "saving"
    <3>1. own = <<>> => DecidesLast(response', "failed")
      BY <1>1, <1>5, <1>12, DecisionAdds
    <3>2. serve'.last = own /\ serve'.at = "saving" BY <1>15, <1>16, <2>1
    <3>3. FailureSaved' BY <1>1, <1>5, <1>13, <1>17, <2>1, <3>1, <3>2 DEF FailureSaved
    <3>4. QED BY <3>2, <3>3 DEF StreamEnds
  <2>2. CASE at = "reading"
    <3>1. serve'.executed.success BY <1>6, <1>15, <1>16, <2>2
    <3>2. QED BY <1>11, <1>13, <1>16, <1>17, <2>2, <3>1 DEF StreamEnds
  <2>3. QED BY <1>15, <2>1, <2>2
<1>23. QED BY <1>18, <1>19, <1>20, <1>21, <1>22 DEF StreamInvariant

LEMMA PageLines ==
    ASSUME NEW p \in Stream!Path, NEW c \in Stream!Content
    PROVE  /\ LET t == <<Stream!Line("file_delta", p, c)>> IN t \in Lines /\ NoResult(t) /\ \A q : Quiet(t, q)
           /\ LET t == <<Stream!Line("result", p, c)>>
              IN  t \in Lines /\ (\A q : Quiet(t, q)) /\ DecidesLast(t, "completed")
<1> DEFINE delta == Stream!Line("file_delta", p, c)
           result == Stream!Line("result", p, c)
<1>1. /\ delta = [type |-> "file_delta", path |-> p, content |-> c]
      /\ result = [type |-> "result", path |-> p, content |-> c]
  BY DEF Stream!Line
<1>2. delta = Stream!Line("file_delta", p, c) /\ result = Stream!Line("result", p, c) OBVIOUS
<1> HIDE DEF delta, result
<1>3. delta \in Stream!NdjsonLine /\ result \in Stream!NdjsonLine BY <1>1 DEF Stream!NdjsonLine
<1>4. delta.type = "file_delta" /\ result.type = "result" BY <1>1
<1>5. Stream!toDesignEvent(result) = "completed" BY <1>4 DEF Stream!toDesignEvent
<1>6. /\ DOMAIN <<delta>> = {1} /\ <<delta>>[1] = delta
      /\ DOMAIN <<result>> = {1} /\ <<result>>[1] = result /\ Len(<<result>>) = 1
  OBVIOUS
<1>7. <<delta>> \in Lines /\ <<result>> \in Lines BY <1>3 DEF Lines
<1>8. NoResult(<<delta>>) /\ \A q : Quiet(<<delta>>, q) BY <1>4, <1>6 DEF NoResult, Quiet
<1>9. \A q : Quiet(<<result>>, q) BY <1>4, <1>6 DEF Quiet
<1>10. DecidesLast(<<result>>, "completed")
  <2>1. \A j \in 1 + 1 .. 1 : FALSE OBVIOUS
  <2>2. QED BY <1>5, <1>6, <2>1 DEF DecidesLast
<1>11. QED BY <1>2, <1>7, <1>8, <1>9, <1>10

\* What is in the workspace of the last run was there before or is its own.
LEMMA OwnPages ==
    ASSUME StreamInvariant, Stream!OwnWorkspaces, NEW p \in Stream!Path
    PROVE  written[RootOf[serve.lane]][p].by \in {0, Len(execs)}
<1>1. Stream!TypeOK /\ StreamRuns /\ WrittenByRuns BY DEF StreamInvariant
<1>2. PICK n : n = written[RootOf[serve.lane]][p].by OBVIOUS
<1>3. n = 0 \/ (n \in 1 .. Len(execs) /\ execs[n].root = RootOf[serve.lane])
  BY <1>1, <1>2, ServeTypes DEF WrittenByRuns
<1>4. ASSUME n \in 1 .. Len(execs), execs[n].root = RootOf[serve.lane], n # Len(execs) PROVE FALSE
  <2>1. Len(execs) \in Nat BY <1>1, ServeTypes
  <2>2. n \in 1 .. Len(execs) - 1 BY <1>4, <2>1
  <2>3. PICK l \in serve.tried \ {serve.lane} : execs[n].root = RootOf[l] BY <1>1, <2>2 DEF StreamRuns
  <2>4. l \in Lane /\ serve.lane \in Lane BY <1>1, <2>3, ServeTypes
  <2>5. QED BY <1>4, <2>3, <2>4 DEF Stream!OwnWorkspaces
<1>5. QED BY <1>2, <1>3, <1>4

LEMMA ReadKeeps ==
    ASSUME StreamInvariant, Stream!readArtifact
    PROVE  StreamInvariant'
<1> DEFINE entry == IF written[RootOf[serve.lane]][Stream!EntryPath[1]] # Stream!NoFile
                    THEN Stream!EntryPath[1] ELSE Stream!EntryPath[2]
<1>1. PICK p, c : p = entry /\ c = written[RootOf[serve.lane]][p] OBVIOUS
<1>2. Stream!artifactOfStream = [path |-> p, content |-> c]
      /\ Stream!readWorkspaceArtifact(RootOf[serve.lane]) = [path |-> p, content |-> c]
  BY <1>1 DEF Stream!artifactOfStream, Stream!readWorkspaceArtifact
<1>3. Stream!TypeOK /\ StreamRuns /\ WrittenByRuns /\ StreamWatched /\ StreamEnds BY DEF StreamInvariant
<1>4. p \in Stream!Path BY <1>1, EntryPaths
<1> HIDE DEF entry
<1>5. c \in Stream!Content BY <1>1, <1>3, <1>4, ServeTypes DEF StreamFiles
<1>6. serve.at = "reading" /\ UNCHANGED <<streamMode, execs, written, watcher>>
  BY DEF Stream!readArtifact
<1>7. IF c = Stream!NoFile
      THEN /\ serve' = [serve EXCEPT !.at = "saving", !.last = <<Stream!Notice("error")>>]
           /\ Stream!updateRefineOperationForStream("failed") /\ response' = response
      ELSE /\ serve' = [serve EXCEPT !.at = "saving", !.last = <<Stream!Line("result", p, c)>>]
           /\ Stream!updateRefineOperationForStream("completed")
           /\ response' = Append(response, Stream!Line("file_delta", p, c))
  BY <1>2 DEF Stream!readArtifact
<1> DEFINE last == IF c = Stream!NoFile THEN <<Stream!Notice("error")>> ELSE <<Stream!Line("result", p, c)>>
           t == IF c = Stream!NoFile THEN <<>> ELSE <<Stream!Line("file_delta", p, c)>>
<1>8. NoResult(response) /\ response \in Lines /\ operation.status \in {"running", "cancelled"}
      /\ serve.executed.success
  BY <1>3, <1>6, ServeTypes DEF StreamEnds
<1>9. last \in Lines BY <1>4, <1>5, Noticed, PageLines
<1>10. t \in Lines /\ NoResult(t) /\ \A q : Quiet(t, q) BY <1>4, <1>5, NothingSaid, PageLines
<1>11. response' = response \o t
  <2>1. CASE c = Stream!NoFile BY <1>7, <1>8, <2>1, NothingSaid
  <2>2. CASE c # Stream!NoFile
    <3>1. PICK line : line = Stream!Line("file_delta", p, c) OBVIOUS
    <3>2. line \in Stream!NdjsonLine
      <4>1. <<line>> \in Lines BY <1>4, <1>5, <3>1, PageLines
      <4>2. <<line>>[1] \in Stream!NdjsonLine BY <4>1 DEF Lines
      <4>3. QED BY <4>2
    <3>3. response' = Append(response, line) /\ t = <<line>> BY <1>7, <2>2, <3>1
    <3>4. Append(response, line) = response \o <<line>> BY <1>8, <3>2 DEF Lines
    <3>5. QED BY <3>3, <3>4
  <2>3. QED BY <2>1, <2>2
<1>12. serve' = [serve EXCEPT !.at = "saving", !.last = last] BY <1>7
<1>13. last = IF c = Stream!NoFile THEN <<Stream!Notice("error")>> ELSE <<Stream!Line("result", p, c)>>
  OBVIOUS
<1> HIDE DEF last, t
<1>14. /\ serve' \in StreamServe
       /\ serve'.at = "saving" /\ serve'.lane = serve.lane /\ serve'.tried = serve.tried /\ serve'.last = last
       /\ serve'.laneAttempt = serve.laneAttempt /\ serve'.executed = serve.executed
  <2>1. serve \in StreamServe BY <1>3, StreamTypes
  <2>2. QED BY <1>9, <1>12, <2>1 DEF StreamServe, ServeAt
<1>15. response' \in Lines /\ NoResult(response') BY <1>8, <1>10, <1>11, Joined, ResultsJoined
<1>16. PICK status \in {"completed", "failed"} :
        /\ Stream!updateRefineOperationForStream(status)
        /\ status = "completed" <=> c # Stream!NoFile
  <2>1. CASE c = Stream!NoFile
    <3>1. PICK status \in {"completed", "failed"} : status = "failed" OBVIOUS
    <3>2. status # "completed" BY <3>1
    <3>3. QED BY <1>7, <2>1, <3>1, <3>2
  <2>2. CASE c # Stream!NoFile
    <3>1. PICK status \in {"completed", "failed"} : status = "completed" OBVIOUS
    <3>2. QED BY <1>7, <2>2, <3>1
  <2>3. QED BY <2>1, <2>2
<1>17. /\ operation' \in [status : {"running", "cancelled", "completed", "failed"}, root : Stream!Root]
       /\ operation'.status \in {"running", "cancelled", status}
       /\ streamMode = "refine" => operation'.status # "running"
       /\ operation'.status = "completed" => streamMode = "refine" /\ operation'.root = RootOf[serve.lane]
  BY <1>3, <1>8, <1>16, OperationUpdated
<1>18. Stream!TypeOK' BY <1>3, <1>6, <1>14, <1>15, <1>17, StreamTypes, StreamTypesAfter
<1>19. StreamRuns' BY <1>3, <1>6, <1>14 DEF StreamRuns
<1>20. WrittenByRuns' BY <1>3, <1>6 DEF WrittenByRuns
<1>21. StreamWatched'
  <2>1. ASSUME NEW q \in Stream!Path, watcher.shown[q] # Stream!NoFile
        PROVE  ShownLast(response', q, watcher.shown[q])
    BY <1>3, <1>8, <1>10, <1>11, <2>1, ShownStays DEF StreamWatched
  <2>2. OnlyRunOver' <=> OnlyRunOver BY <1>14 DEF OnlyRunOver
  <2>3. QED BY <1>3, <1>6, <1>14, <2>1, <2>2 DEF StreamWatched
<1>22. StreamEnds'
  <2>1. CASE c = Stream!NoFile
    <3>1. last = <<Stream!Notice("error")>> /\ last # <<>> BY <1>13, <2>1
    <3>2. operation'.status \in {"running", "cancelled", "failed"} BY <1>16, <1>17, <2>1
    <3>3. FailureSaved' BY <1>6, <1>14, <1>15, <1>17, <3>1, <3>2 DEF FailureSaved
    <3>4. QED BY <1>14, <3>3 DEF StreamEnds
  <2>2. CASE c # Stream!NoFile
    <3>1. operation'.status \in {"running", "cancelled", "completed"} BY <1>16, <1>17, <2>2
    <3>2. Stream!OwnWorkspaces => c.by \in {0, Len(execs)} BY <1>1, <1>4, OwnPages
    <3>3. last = <<Stream!Line("result", p, c)>> BY <1>13, <2>2
    <3>4. Stream!readWorkspaceArtifact(RootOf[serve.lane])' = [path |-> p, content |-> c]
      BY <1>2, <1>6, <1>14 DEF Stream!readWorkspaceArtifact
    <3>5. PageSaved'
      BY <1>4, <1>5, <1>6, <1>8, <1>14, <1>15, <1>17, <2>2, <3>1, <3>2, <3>3, <3>4
      DEF PageSaved, Stream!OwnWorkspaces
    <3>6. QED BY <1>14, <3>5 DEF StreamEnds
  <2>3. QED BY <2>1, <2>2
<1>23. QED BY <1>18, <1>19, <1>20, <1>21, <1>22 DEF StreamInvariant

LEMMA EndKeeps ==
    ASSUME StreamInvariant, Stream!end
    PROVE  StreamInvariant'
<1>1. /\ serve.at = "saving"
      /\ response' = response \o serve.last
      /\ serve' = [serve EXCEPT !.at = "ended"]
      /\ UNCHANGED <<streamMode, operation, execs, written, watcher>>
  BY DEF Stream!end
<1>2. Stream!TypeOK /\ StreamRuns /\ WrittenByRuns /\ StreamWatched /\ StreamEnds BY DEF StreamInvariant
<1>3. /\ serve' \in StreamServe
      /\ serve'.at = "ended" /\ serve'.lane = serve.lane /\ serve'.tried = serve.tried /\ serve'.last = serve.last
      /\ serve'.laneAttempt = serve.laneAttempt /\ serve'.executed = serve.executed
  <2>1. serve \in StreamServe BY <1>2, StreamTypes
  <2>2. QED BY <1>1, <2>1 DEF StreamServe, ServeAt
<1>4. response \in Lines /\ serve.last \in Lines /\ response' \in Lines BY <1>1, <1>2, ServeTypes, Joined
<1>5. PageSaved \/ FailureSaved BY <1>1, <1>2 DEF StreamEnds
<1>6. \A q : Quiet(serve.last, q)
  <2>1. CASE PageSaved
    <3>1. PICK p \in Stream!Path, c \in Stream!Content : serve.last = <<Stream!Line("result", p, c)>>
      BY <2>1 DEF PageSaved
    <3>2. QED BY <3>1, PageLines
  <2>2. CASE FailureSaved BY <2>2, Noticed, NothingSaid DEF FailureSaved
  <2>3. QED BY <1>5, <2>1, <2>2
<1>7. Stream!TypeOK' BY <1>1, <1>2, <1>3, <1>4, StreamTypes, StreamTypesAfter
<1>8. StreamRuns' BY <1>1, <1>2, <1>3 DEF StreamRuns
<1>9. WrittenByRuns' BY <1>1, <1>2 DEF WrittenByRuns
<1>10. StreamWatched'
  <2>1. ASSUME NEW q \in Stream!Path, watcher.shown[q] # Stream!NoFile
        PROVE  ShownLast(response', q, watcher.shown[q])
    BY <1>1, <1>2, <1>4, <1>6, <2>1, ShownStays DEF StreamWatched
  <2>2. OnlyRunOver' <=> OnlyRunOver BY <1>3 DEF OnlyRunOver
  <2>3. QED BY <1>1, <1>2, <1>3, <2>1, <2>2 DEF StreamWatched
<1>11. PageSaved => PageSaved'
  <2>1. SUFFICES ASSUME PageSaved PROVE PageSaved' OBVIOUS
  <2>2. PICK p \in Stream!Path, c \in Stream!Content :
        /\ c # Stream!NoFile
        /\ serve.last = <<Stream!Line("result", p, c)>>
        /\ serve.executed.success
        /\ Stream!OwnWorkspaces => c.by \in {0, Len(execs)}
        /\ serve.laneAttempt = 0 =>
            Stream!readWorkspaceArtifact(RootOf[serve.lane]) = [path |-> p, content |-> c]
        /\ operation.status \in {"running", "cancelled", "completed"}
        /\ operation.status = "completed" => streamMode = "refine" /\ operation.root = RootOf[serve.lane]
        /\ streamMode = "refine" => operation.status # "running"
        /\ NoResult(response)
    BY <1>1, <2>1 DEF PageSaved
  <2>3. Stream!readWorkspaceArtifact(RootOf[serve.lane])' = Stream!readWorkspaceArtifact(RootOf[serve.lane])
    BY <1>1, <1>3 DEF Stream!readWorkspaceArtifact
  <2>4. \E s \in Lines : NoResult(s) /\ response' = s \o serve.last BY <1>1, <1>4, <2>2
  <2>5. QED BY <1>1, <1>3, <2>2, <2>3, <2>4 DEF PageSaved, Stream!OwnWorkspaces
<1>12. FailureSaved => FailureSaved'
  <2>1. SUFFICES ASSUME FailureSaved PROVE FailureSaved' OBVIOUS
  <2>2. NoResult(response') /\ DecidesLast(response', "failed")
    <3>1. CASE serve.last = <<>>
      <4>1. response' = response BY <1>1, <1>4, <3>1, NothingSaid
      <4>2. QED BY <2>1, <3>1, <4>1 DEF FailureSaved
    <3>2. CASE serve.last = <<Stream!Notice("error")>>
      <4>1. NoResult(serve.last) /\ DecidesLast(serve.last, "failed") BY <3>2, Noticed
      <4>2. NoResult(response) BY <2>1 DEF FailureSaved
      <4>3. QED BY <1>1, <1>4, <4>1, <4>2, ResultsJoined, DecisionAdds
    <3>3. QED BY <2>1, <3>1, <3>2 DEF FailureSaved
  <2>3. QED BY <1>1, <1>3, <2>1, <2>2 DEF FailureSaved
<1>13. StreamEnds' BY <1>3, <1>5, <1>11, <1>12 DEF StreamEnds
<1>14. QED BY <1>7, <1>8, <1>9, <1>10, <1>13 DEF StreamInvariant

LEMMA StreamKeeps ==
    ASSUME Stream!Assumptions, StreamInvariant, [Stream!Next]_(Stream!transcriptVars)
    PROVE  StreamInvariant'
<1>1. CASE UNCHANGED Stream!transcriptVars
  <2>1. UNCHANGED <<streamMode, operation, serve, execs, written, watcher, response>>
    BY <1>1 DEF Stream!transcriptVars
  <2>2. Stream!TypeOK' BY <2>1, StreamTypes, StreamTypesAfter DEF StreamInvariant
  <2>3. StreamRuns' /\ WrittenByRuns' BY <2>1 DEF StreamInvariant, StreamRuns, WrittenByRuns
  <2>4. StreamWatched' BY <2>1 DEF StreamInvariant, StreamWatched, OnlyRunOver
  <2>5. PageSaved => PageSaved' BY <2>1 DEF PageSaved, Stream!readWorkspaceArtifact, Stream!OwnWorkspaces
  <2>6. FailureSaved => FailureSaved' BY <2>1 DEF FailureSaved
  <2>7. StreamEnds' BY <2>1, <2>5, <2>6 DEF StreamInvariant, StreamEnds
  <2>8. QED BY <2>2, <2>3, <2>4, <2>7 DEF StreamInvariant
<1>2. CASE \E n \in DOMAIN execs, p \in Stream!Path : Stream!writeFile(n, p) BY <1>2, WritesKeep
<1>3. CASE Stream!runScan BY <1>3, ScanBegins
<1>4. CASE Stream!scan BY <1>4, ScanEnds
<1>5. CASE Stream!stop BY <1>5, StopKeeps
<1>6. CASE Stream!lastScan BY <1>6, LastScanKeeps
<1>7. CASE Stream!readArtifact BY <1>7, ReadKeeps
<1>8. CASE Stream!end BY <1>8, EndKeeps
<1>9. CASE Stream!cancelAgents BY <1>9, CancelledStreamKeeps
<1>10. CASE \E answer \in Stream!Answer : Stream!executed(answer) BY <1>10, ExecutedKeeps
<1>11. CASE Stream!executeWithCapacityRetry BY <1>11, CapacityKeeps
<1>12. CASE \E status \in {"timeout", "other"} : Stream!requestFails(status) BY <1>12, FailedRequestKeeps
<1>13. CASE \E l \in Lane : Stream!switchLane(l) BY <1>13, SwitchedLaneKeeps
<1>14. CASE \E acquired \in BOOLEAN : Stream!switchFails(acquired) BY <1>14, FailedSwitchKeeps
<1>15. QED
  BY <1>1, <1>2, <1>3, <1>4, <1>5, <1>6, <1>7, <1>8, <1>9, <1>10, <1>11, <1>12, <1>13, <1>14
  DEF Stream!Next

\* The last decision is the one that the operation has.
LEMMA DecidedAs ==
    ASSUME NEW v, DecidesLast(response, v), response \in Lines,
           streamMode = "refine" /\ operation.status # "cancelled" => operation.status = v
    PROVE  \E i \in Stream!Decisions :
                /\ \A j \in Stream!Decisions : j <= i
                /\ streamMode = "refine" /\ operation.status # "cancelled" =>
                    operation.status = Stream!toDesignEvent(response[i])
<1>1. PICK i \in DOMAIN response :
        /\ Stream!toDesignEvent(response[i]) = v
        /\ \A j \in i + 1 .. Len(response) : Stream!toDesignEvent(response[j]) = "progress"
  BY DEF DecidesLast
<1>2. i \in Stream!Decisions BY <1>1 DEF DecidesLast, Stream!Decisions
<1>3. ASSUME NEW j \in Stream!Decisions PROVE j <= i
  <2>1. j \in 1 .. Len(response) /\ i \in 1 .. Len(response) /\ Len(response) \in Nat
    BY <1>3 DEF Stream!Decisions, Lines
  <2>2. j \notin i + 1 .. Len(response) BY <1>1, <1>3 DEF Stream!Decisions
  <2>3. QED BY <2>1, <2>2
<1>4. QED BY <1>1, <1>2, <1>3

LEMMA NoResultTold ==
    ASSUME NoResult(response), response \in Lines, response # <<>>
    PROVE  /\ \A i \in DOMAIN response : response[i].type = "result" => i = Len(response)
           /\ response[Len(response)].type # "result"
<1>1. Len(response) \in DOMAIN response BY DEF Lines
<1>2. QED BY <1>1 DEF NoResult

LEMMA DecidedSomething ==
    ASSUME NEW s, NEW v, DecidesLast(s, v)
    PROVE  s # <<>>
BY DEF DecidesLast

LEMMA Truthful == StreamInvariant => Stream!TranscriptTruthful
<1> SUFFICES ASSUME StreamInvariant PROVE Stream!TranscriptTruthful OBVIOUS
<1>1. Stream!TypeOK /\ StreamRuns /\ WrittenByRuns /\ StreamWatched /\ StreamEnds BY DEF StreamInvariant
<1>2. response \in Lines /\ serve.at \in ServeAt BY <1>1, ServeTypes
<1>3. CASE serve.at # "ended"
  <2>1. NoResult(response) BY <1>1, <1>2, <1>3 DEF StreamEnds, ServeAt, PageSaved, FailureSaved
  <2>2. \A i \in DOMAIN response : response[i].type # "result" BY <2>1 DEF NoResult
  <2>3. QED BY <1>3, <2>2 DEF Stream!TranscriptTruthful
<1>4. CASE serve.at = "ended" /\ FailureSaved
  <2>1. NoResult(response) /\ DecidesLast(response, "failed") BY <1>4 DEF FailureSaved
  <2>2. response # <<>> BY <2>1, DecidedSomething
  <2>3. PICK v : v = "failed" OBVIOUS
  <2>4. streamMode = "refine" /\ operation.status # "cancelled" => operation.status = v
    BY <1>4, <2>3 DEF FailureSaved
  <2>5. \E i \in Stream!Decisions :
            /\ \A j \in Stream!Decisions : j <= i
            /\ streamMode = "refine" /\ operation.status # "cancelled" =>
                operation.status = Stream!toDesignEvent(response[i])
    BY <1>2, <2>1, <2>3, <2>4, DecidedAs
  <2>6. QED BY <1>2, <2>1, <2>2, <2>5, NoResultTold DEF Stream!TranscriptTruthful
<1>5. CASE serve.at = "ended" /\ PageSaved
  <2>1. PICK p \in Stream!Path, c \in Stream!Content, s \in Lines :
        /\ c # Stream!NoFile
        /\ serve.last = <<Stream!Line("result", p, c)>>
        /\ serve.executed.success
        /\ Stream!OwnWorkspaces => c.by \in {0, Len(execs)}
        /\ serve.laneAttempt = 0 =>
            Stream!readWorkspaceArtifact(RootOf[serve.lane]) = [path |-> p, content |-> c]
        /\ operation.status \in {"running", "cancelled", "completed"}
        /\ operation.status = "completed" => streamMode = "refine" /\ operation.root = RootOf[serve.lane]
        /\ streamMode = "refine" => operation.status # "running"
        /\ NoResult(s) /\ response = s \o serve.last
    BY <1>5 DEF PageSaved
  <2>2. serve.last \in Lines /\ DecidesLast(serve.last, "completed") BY <2>1, PageLines
  <2>3. DecidesLast(response, "completed") BY <2>1, <2>2, DecisionAdds
  <2>4. PICK v : v = "completed" OBVIOUS
  <2>5. \E i \in Stream!Decisions :
            /\ \A j \in Stream!Decisions : j <= i
            /\ streamMode = "refine" /\ operation.status # "cancelled" =>
                operation.status = Stream!toDesignEvent(response[i])
    <3>1. streamMode = "refine" /\ operation.status # "cancelled" => operation.status = v
      BY <2>1, <2>4
    <3>2. QED BY <1>2, <2>3, <2>4, <3>1, DecidedAs
  <2>6. PICK line : line = Stream!Line("result", p, c) OBVIOUS
  <2>7. line.type = "result" /\ line.path = p /\ line.content = c BY <2>6 DEF Stream!Line
  <2>8. /\ Len(response) = Len(s) + 1 /\ Len(s) \in Nat /\ response[Len(response)] = line
        /\ \A i \in 1 .. Len(s) : response[i] = s[i]
    <3>1. Len(serve.last) = 1 /\ serve.last[1] = line BY <2>1, <2>6
    <3>2. Len(s) \in Nat /\ 1 \in 1 .. Len(serve.last) BY <3>1 DEF Lines
    <3>3. QED BY <2>1, <2>2, <3>1, <3>2, Joined
  <2>9. ASSUME NEW i \in DOMAIN response, response[i].type = "result" PROVE i = Len(response)
    <3>1. i \in 1 .. Len(s) + 1 BY <1>2, <2>8, <2>9 DEF Lines
    <3>2. ASSUME i \in 1 .. Len(s) PROVE FALSE
      <4>1. i \in DOMAIN s /\ response[i] = s[i] BY <2>8, <3>2 DEF Lines
      <4>2. QED BY <2>1, <2>9, <4>1 DEF NoResult
    <3>3. QED BY <2>8, <3>1, <3>2
  <2>10. operation.status = "completed" => Stream!handleRefineOperation = c
    <3>1. SUFFICES ASSUME operation.status = "completed" PROVE Stream!handleRefineOperation = c OBVIOUS
    <3>2. serve.laneAttempt = 0 /\ operation.root = RootOf[serve.lane] BY <1>1, <2>1, <3>1 DEF StreamRuns
    <3>3. Stream!readWorkspaceArtifact(operation.root).content = c BY <2>1, <3>2
    <3>4. QED BY <3>1, <3>3 DEF Stream!handleRefineOperation
  <2>11. ASSUME serve.laneAttempt = 0
         PROVE  \E i \in DOMAIN response :
                    /\ response[i] = Stream!Line("code_delta", p, c)
                    /\ \A j \in i + 1 .. Len(response) :
                        response[j].type = "code_delta" => response[j].path # p
    <3>1. Len(execs) = 1 /\ watcher.root = RootOf[serve.lane] BY <1>1, <2>11 DEF StreamRuns
    <3>2. written[watcher.root][p] = c
      <4>1. PICK entry \in Stream!Path :
                Stream!readWorkspaceArtifact(RootOf[serve.lane])
                    = [path |-> entry, content |-> written[RootOf[serve.lane]][entry]]
        BY EntryPaths DEF Stream!readWorkspaceArtifact
      <4>2. [path |-> entry, content |-> written[RootOf[serve.lane]][entry]] = [path |-> p, content |-> c]
        BY <2>1, <2>11, <4>1
      <4>3. QED BY <3>1, <4>2
    <3>3. OnlyRunOver BY <2>1, <2>11 DEF OnlyRunOver
    <3>4. watcher.shown[p] = c BY <1>1, <1>5, <2>1, <3>2, <3>3 DEF StreamWatched
    <3>5. ShownLast(response, p, c) BY <1>1, <2>1, <3>4 DEF StreamWatched
    <3>6. QED BY <3>5 DEF ShownLast
  <2>12. response[Len(response)].path = p /\ response[Len(response)].content = c BY <2>7, <2>8
  <2>13. QED BY <1>5, <2>1, <2>5, <2>9, <2>10, <2>11, <2>12 DEF Stream!TranscriptTruthful
<1>6. serve.at = "ended" => PageSaved \/ FailureSaved BY <1>1 DEF StreamEnds
<1>7. QED BY <1>3, <1>4, <1>5, <1>6

\* A response that has ended has decided about its variation as the refine
\* operation says, and its page is the one of the run that succeeded, for any
\* lanes and any numbers of attempts and drafts (app.ts, handleStream).
THEOREM StreamsAreTruthful ==
    Stream!Assumptions => (Stream!Spec => []Stream!TranscriptTruthful)
<1>1. SUFFICES ASSUME Stream!Assumptions PROVE Stream!Spec => []Stream!TranscriptTruthful OBVIOUS
<1>2. Stream!Init => StreamInvariant BY <1>1, StreamStarts
<1>3. StreamInvariant /\ [Stream!Next]_(Stream!transcriptVars) => StreamInvariant'
  BY <1>1, StreamKeeps
<1>4. StreamInvariant => Stream!TranscriptTruthful BY Truthful
<1>5. QED BY <1>2, <1>3, <1>4, PTL DEF Stream!Spec
=============================================================================
