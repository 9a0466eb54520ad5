----------------------------- MODULE Records_proofs -----------------------------
(***************************************************************************)
(* Proofs about the components of Records: what the row and the copy say   *)
(* of an invocation is decided where its call stands, and a record that    *)
(* refers to an artifact comes from a call whose artifact has been stored; *)
(* a version of a page is numbered so that its files are its own, and is   *)
(* made current when its assets are there, or noted as made current early. *)
(***************************************************************************)
EXTENDS Records, FiniteSets, Sequences, TLAPS

-----------------------------------------------------------------------------
(* MCP invocations.                                                        *)

Outcome == [status : {"pending", "denied", "ok", "unavailable", "error"}, run : Nat, refers : BOOLEAN]
Kept == [request : Request, result : Outcome]
InProgress == [op : Step, record : Kept, execute : BOOLEAN]

McpTypes ==
    /\ row \in Kept \cup {NoRecord} /\ copy \in Kept \cup {NoRecord}
    /\ call \in [McpCall -> InProgress \cup {Idle}]
    /\ runs \in Nat /\ races \in Nat

StoredIn(result, stored) == result.refers => result.run \in stored

\* What a record refers to is stored: of the row, of the copy, and of a call
\* that is not about to store it.
ArtifactsStored ==
    /\ \A record \in {row, copy} \ {NoRecord} : StoredIn(record.result, artifacts)
    /\ \A c \in McpCall : call[c].op \notin {"none", "storing"} => StoredIn(call[c].record.result, artifacts)

Answered == answered # Idle =>
    /\ row # NoRecord /\ row.result = answered
    /\ copy # NoRecord => copy.result = answered

\* Without overlaps and failures one call at a time is in progress, the row has
\* its result before the copy and the copy before the answer.
InTurn == races = 0 =>
    /\ \A c, d \in McpCall : call[c] # Idle /\ call[d] # Idle => c = d
    /\ ~Busy => Answered
    /\ \A c \in McpCall :
        /\ call[c].op \in {"caching", "reporting"} =>
               row # NoRecord /\ row.result = call[c].record.result
        /\ call[c].op = "reporting" => copy # NoRecord /\ copy.result = call[c].record.result
        /\ call[c].op = "replaying" => call[c].record = row /\ Answered

McpInvariant == McpTypes /\ ArtifactsStored /\ InTurn

\* One call goes on, or ends, and the others stay where they are.
Onward(c) ==
    /\ call' \in [McpCall -> InProgress \cup {Idle}]
    /\ \A d \in McpCall \ {c} : call'[d] = call[d]

LEMMA McpGoing ==
    ASSUME McpTypes, NEW c \in McpCall, call[c].op # "none", NEW o \in Step, Goto(c, o)
    PROVE  /\ Onward(c) /\ call'[c].op = o
           /\ call'[c].record = call[c].record /\ call'[c].execute = call[c].execute
<1>1. call[c] \in InProgress BY DEF McpTypes, Idle, None
<1>2. call' = [call EXCEPT ![c] = [call[c] EXCEPT !.op = o]] BY DEF Goto, McpTypes
<1>3. /\ [call[c] EXCEPT !.op = o] \in InProgress
      /\ [call[c] EXCEPT !.op = o].op = o
      /\ [call[c] EXCEPT !.op = o].record = call[c].record
      /\ [call[c] EXCEPT !.op = o].execute = call[c].execute
  BY <1>1 DEF InProgress
<1>4. QED BY <1>2, <1>3 DEF Onward, McpTypes

LEMMA McpEnding ==
    ASSUME McpTypes, NEW c \in McpCall, call' = [call EXCEPT ![c] = Idle]
    PROVE  Onward(c) /\ call'[c] = Idle /\ call'[c].op = "none"
BY DEF Onward, McpTypes, Idle, None

\* The call that is in progress is the only one while nothing has overlapped.
LEMMA Alone ==
    ASSUME McpInvariant, NEW c \in McpCall, call[c].op # "none", Onward(c), races = 0
    PROVE  /\ \A d \in McpCall \ {c} : call'[d] = Idle /\ call'[d].op = "none"
           /\ Busy' <=> call'[c] # Idle
BY DEF McpInvariant, InTurn, Onward, Busy, Idle, None

\* A call in progress whose step leaves the records alone.
LEMMA McpQuietStep ==
    ASSUME McpInvariant, NEW c \in McpCall, call[c].op # "none", Onward(c),
           \/ call'[c].op \in {"saving", "executing", "storing"}
           \/ call'[c] = Idle /\ races' > 0,
           call'[c].op \notin {"none", "storing"} => StoredIn(call'[c].record.result, artifacts'),
           artifacts \subseteq artifacts', runs' \in Nat, races' \in Nat, races' >= races,
           UNCHANGED <<row, copy, answered>>
    PROVE  McpInvariant'
<1>1. McpTypes' BY DEF McpInvariant, McpTypes, Onward
<1>2. ArtifactsStored'
  <2>1. \A record \in {row', copy'} \ {NoRecord} : StoredIn(record.result, artifacts')
    BY DEF McpInvariant, ArtifactsStored, StoredIn
  <2>2. \A d \in McpCall \ {c} :
            call'[d].op \notin {"none", "storing"} => StoredIn(call'[d].record.result, artifacts')
    BY DEF McpInvariant, ArtifactsStored, StoredIn, Onward
  <2>3. QED BY <2>1, <2>2 DEF ArtifactsStored
<1>3. InTurn'
  <2>1. SUFFICES ASSUME races' = 0 PROVE InTurn' BY DEF InTurn
  <2>2. races = 0 BY <2>1 DEF McpInvariant, McpTypes
  <2>3. /\ \A d \in McpCall \ {c} : call'[d] = Idle /\ call'[d].op = "none"
        /\ call'[c] # Idle /\ Busy'
        /\ call'[c].op \notin {"caching", "reporting", "replaying"}
    BY <2>1, <2>2, Alone DEF Idle, None
  <2>4. QED BY <2>3 DEF InTurn
<1>4. QED BY <1>1, <1>2, <1>3 DEF McpInvariant

\* A call begins.
LEMMA McpBegin ==
    ASSUME McpInvariant, NEW c \in McpCall, NEW step \in InProgress, Begin(c, step),
           step.op \in {"auditing", "replaying"}, StoredIn(step.record.result, artifacts),
           step.op = "replaying" => step.record = row,
           UNCHANGED <<row, copy, artifacts, runs, answered>>
    PROVE  McpInvariant'
<1>1. /\ call' \in [McpCall -> InProgress \cup {Idle}]
      /\ call'[c] = step /\ \A d \in McpCall \ {c} : call'[d] = call[d]
  BY DEF Begin, McpInvariant, McpTypes
<1>2. races' \in Nat /\ (races' = 0 => races = 0 /\ ~Busy)
  BY DEF Begin, McpInvariant, McpTypes
<1>3. McpTypes' BY <1>1, <1>2 DEF McpInvariant, McpTypes
<1>4. ArtifactsStored' BY <1>1 DEF McpInvariant, ArtifactsStored, StoredIn
<1>5. InTurn'
  <2>1. SUFFICES ASSUME races' = 0 PROVE InTurn' BY DEF InTurn
  <2>2. \A d \in McpCall \ {c} : call'[d] = Idle /\ call'[d].op = "none"
    BY <1>1, <1>2, <2>1 DEF Busy, Idle, None
  <2>3. step # Idle /\ Busy' BY <1>1 DEF Busy, Idle, None
  <2>4. Answered' BY <1>2, <2>1 DEF McpInvariant, InTurn, Answered
  <2>5. QED BY <1>1, <2>2, <2>3, <2>4 DEF InTurn
<1>6. QED BY <1>3, <1>4, <1>5 DEF McpInvariant

LEMMA McpSaveRow ==
    ASSUME McpInvariant, NEW c \in McpCall, saveRow(c)
    PROVE  McpInvariant'
<1>. DEFINE record == call[c].record
<1>1. /\ call[c].op = "saving" /\ row' = upsert(record)
      /\ UNCHANGED <<copy, artifacts, runs, answered, races>>
      /\ Goto(c, "caching")
  BY DEF saveRow
<1>2. Onward(c) /\ call'[c].op = "caching" /\ call'[c].record = record
  BY <1>1, McpGoing DEF McpInvariant, Step
<1>3. record \in Kept /\ StoredIn(record.result, artifacts)
  BY <1>1 DEF McpInvariant, McpTypes, ArtifactsStored, InProgress, Kept, Idle, None
<1>4. row' \in Kept /\ row' # NoRecord /\ row'.result = record.result
  <2>1. CASE row = NoRecord
    BY <1>1, <1>3, <2>1 DEF upsert, Kept, NoRecord, None, Request
  <2>2. CASE row # NoRecord
    <3>1. row \in Kept BY <2>2 DEF McpInvariant, McpTypes
    <3>2. row' = [row EXCEPT !.result = record.result] BY <1>1, <2>2 DEF upsert
    <3>3. row' \in Kept /\ row'.result = record.result BY <1>3, <3>1, <3>2 DEF Kept
    <3>4. row'.request \in Request BY <3>3 DEF Kept
    <3>5. QED BY <3>3, <3>4 DEF NoRecord, None, Request
  <2>3. QED BY <2>1, <2>2
<1>. HIDE DEF record
<1>5. McpTypes' BY <1>1, <1>2, <1>4 DEF McpInvariant, McpTypes, Onward
<1>6. ArtifactsStored'
  <2>1. \A r \in {row', copy'} \ {NoRecord} : StoredIn(r.result, artifacts')
    BY <1>1, <1>3, <1>4 DEF McpInvariant, ArtifactsStored
  <2>2. \A d \in McpCall :
            call'[d].op \notin {"none", "storing"} => StoredIn(call'[d].record.result, artifacts')
    BY <1>1, <1>2, <1>3 DEF McpInvariant, ArtifactsStored, Onward
  <2>3. QED BY <2>1, <2>2 DEF ArtifactsStored
<1>7. InTurn'
  <2>1. SUFFICES ASSUME races = 0 PROVE InTurn' BY <1>1 DEF InTurn
  <2>2. /\ \A d \in McpCall \ {c} : call'[d] = Idle /\ call'[d].op = "none"
        /\ call'[c] # Idle /\ Busy'
    BY <1>1, <1>2, <2>1, Alone DEF Idle, None
  <2>3. QED BY <1>2, <1>4, <2>2 DEF InTurn
<1>8. QED BY <1>5, <1>6, <1>7 DEF McpInvariant

LEMMA McpSaveCopy ==
    ASSUME McpInvariant, NEW c \in McpCall, saveCopy(c)
    PROVE  McpInvariant'
<1>. DEFINE record == call[c].record
<1>1. /\ call[c].op = "caching" /\ copy' = record
      /\ UNCHANGED <<row, artifacts, runs, races>>
      /\ \/ Goto(c, "executing") /\ UNCHANGED answered
         \/ Answer(c, record.result)
         \/ Goto(c, "reporting") /\ UNCHANGED answered
  BY DEF saveCopy
<1>2. record \in Kept /\ StoredIn(record.result, artifacts)
  BY <1>1 DEF McpInvariant, McpTypes, ArtifactsStored, InProgress, Kept, Idle, None
<1>3. record # NoRecord BY <1>2 DEF Kept, NoRecord, None, Request
<1>4. /\ Onward(c)
      /\ \/ call'[c].op \in {"executing", "reporting"} /\ call'[c].record = record
         \/ call'[c] = Idle /\ answered' = record.result
  <2>1. ASSUME NEW o \in {"executing", "reporting"}, Goto(c, o)
        PROVE  Onward(c) /\ call'[c].op = o /\ call'[c].record = record
    BY <1>1, <2>1, McpGoing DEF McpInvariant, Step
  <2>2. CASE Answer(c, record.result)
    BY <2>2, McpEnding DEF McpInvariant, Answer
  <2>3. QED BY <1>1, <2>1, <2>2
<1>5. McpTypes' BY <1>1, <1>2, <1>4 DEF McpInvariant, McpTypes, Onward
<1>6. ArtifactsStored'
  <2>1. \A r \in {row', copy'} \ {NoRecord} : StoredIn(r.result, artifacts')
    BY <1>1, <1>2 DEF McpInvariant, ArtifactsStored
  <2>2. \A d \in McpCall :
            call'[d].op \notin {"none", "storing"} => StoredIn(call'[d].record.result, artifacts')
    BY <1>1, <1>2, <1>4 DEF McpInvariant, ArtifactsStored, Onward, Idle, None
  <2>3. QED BY <2>1, <2>2 DEF ArtifactsStored
<1>7. InTurn'
  <2>1. SUFFICES ASSUME races = 0 PROVE InTurn' BY <1>1 DEF InTurn
  <2>2. /\ \A d \in McpCall \ {c} : call'[d] = Idle /\ call'[d].op = "none"
        /\ Busy' <=> call'[c] # Idle
    BY <1>1, <1>4, <2>1, Alone
  <2>3. row # NoRecord /\ row.result = record.result
    BY <1>1, <2>1 DEF McpInvariant, InTurn
  <2>. HIDE DEF record
  <2>4. call'[c] = Idle => Answered'
    BY <1>1, <1>3, <1>4, <2>3 DEF Answered, Idle, None
  <2>5. QED BY <1>1, <1>3, <1>4, <2>2, <2>3, <2>4 DEF InTurn, Idle, None
<1>8. QED BY <1>5, <1>6, <1>7 DEF McpInvariant

\* A call after the tool has been executed.
Executed(p, o, outcome) == [p EXCEPT !.op = o, !.record.result = outcome]

LEMMA McpExecuted ==
    ASSUME NEW p \in InProgress, NEW o \in Step, NEW outcome \in Outcome
    PROVE  /\ Executed(p, o, outcome) \in InProgress
           /\ Executed(p, o, outcome).op = o /\ Executed(p, o, outcome).record.result = outcome
<1>1. p.record \in Kept BY DEF InProgress
<1>2. [p.record EXCEPT !.result = outcome] \in Kept /\ [p.record EXCEPT !.result = outcome].result = outcome
  BY <1>1 DEF Kept
<1>3. Executed(p, o, outcome) = [p EXCEPT !.op = o, !.record = [p.record EXCEPT !.result = outcome]]
  BY DEF InProgress, Executed
<1>4. QED BY <1>2, <1>3 DEF InProgress

LEMMA McpExecute ==
    ASSUME McpInvariant, NEW c \in McpCall, execute(c)
    PROVE  McpInvariant'
<1>1. call[c].op = "executing" /\ runs' = runs + 1 /\ UNCHANGED <<row, copy, artifacts, answered, races>>
  BY DEF execute
<1>2. runs' \in Nat BY <1>1 DEF McpInvariant, McpTypes
<1>3. PICK status \in {"ok", "unavailable", "error"}, refers \in BOOLEAN :
         call' = [call EXCEPT ![c].op = IF refers THEN "storing" ELSE "saving",
                     ![c].record.result = [status |-> status, run |-> runs', refers |-> refers]]
  BY DEF execute
<1>. DEFINE result == [status |-> status, run |-> runs', refers |-> refers]
            op == IF refers THEN "storing" ELSE "saving"
            step == Executed(call[c], op, result)
<1>4. call[c] \in InProgress BY <1>1 DEF McpInvariant, McpTypes, Idle, None
<1>5. call' = [call EXCEPT ![c] = step] BY <1>3 DEF McpInvariant, McpTypes, Executed
<1>6. step \in InProgress /\ step.op = op /\ step.record.result.refers = refers
  <2>1. result \in Outcome /\ result.refers = refers BY <1>2 DEF Outcome
  <2>2. op \in Step BY DEF Step
  <2>. HIDE DEF result, op
  <2>3. QED BY <1>4, <2>1, <2>2, McpExecuted
<1>. HIDE DEF step
<1>7. Onward(c) /\ call'[c] = step BY <1>5, <1>6 DEF Onward, McpInvariant, McpTypes
<1>8. call'[c].op \notin {"none", "storing"} => StoredIn(call'[c].record.result, artifacts')
  BY <1>6, <1>7 DEF StoredIn
<1>9. races' \in Nat /\ races' >= races BY <1>1 DEF McpInvariant, McpTypes
<1>10. call'[c].op \in {"saving", "executing", "storing"} BY <1>6, <1>7
<1>11. QED BY <1>1, <1>2, <1>7, <1>8, <1>9, <1>10, McpQuietStep

LEMMA McpReport ==
    ASSUME McpInvariant, NEW c \in McpCall, reportExecution(c)
    PROVE  McpInvariant'
<1>1. /\ call[c].op = "reporting" /\ UNCHANGED <<row, copy, artifacts, runs, races>>
      /\ Onward(c) /\ call'[c] = Idle /\ answered' = call[c].record.result
  BY McpEnding DEF reportExecution, Answer, McpInvariant
<1>2. McpTypes' BY <1>1 DEF McpInvariant, McpTypes, Onward
<1>3. ArtifactsStored'
  BY <1>1 DEF McpInvariant, ArtifactsStored, Onward, Idle, None
<1>4. InTurn'
  <2>1. SUFFICES ASSUME races = 0 PROVE InTurn' BY <1>1 DEF InTurn
  <2>2. \A d \in McpCall : call'[d] = Idle /\ call'[d].op = "none"
    BY <1>1, <2>1, Alone DEF Idle, None
  <2>3. /\ row # NoRecord /\ row.result = call[c].record.result
        /\ copy # NoRecord /\ copy.result = call[c].record.result
    BY <1>1, <2>1 DEF McpInvariant, InTurn
  <2>4. Answered' BY <1>1, <2>3 DEF Answered
  <2>5. QED BY <2>2, <2>4 DEF InTurn
<1>5. QED BY <1>2, <1>3, <1>4 DEF McpInvariant

LEMMA McpCacheReplayed ==
    ASSUME McpInvariant, NEW c \in McpCall, cacheReplayed(c)
    PROVE  McpInvariant'
<1>. DEFINE record == call[c].record
<1>1. /\ call[c].op = "replaying" /\ UNCHANGED <<row, artifacts, runs, answered, races>>
      /\ Onward(c) /\ call'[c] = Idle /\ copy' = record
  BY McpEnding DEF cacheReplayed, McpInvariant
<1>2. record \in Kept /\ StoredIn(record.result, artifacts)
  BY <1>1 DEF McpInvariant, McpTypes, ArtifactsStored, InProgress, Kept, Idle, None
<1>3. McpTypes' BY <1>1, <1>2 DEF McpInvariant, McpTypes, Onward
<1>4. ArtifactsStored'
  <2>1. \A r \in {row', copy'} \ {NoRecord} : StoredIn(r.result, artifacts')
    BY <1>1, <1>2 DEF McpInvariant, ArtifactsStored
  <2>2. \A d \in McpCall :
            call'[d].op \notin {"none", "storing"} => StoredIn(call'[d].record.result, artifacts')
    BY <1>1 DEF McpInvariant, ArtifactsStored, Onward, Idle, None
  <2>3. QED BY <2>1, <2>2 DEF ArtifactsStored
<1>5. InTurn'
  <2>1. SUFFICES ASSUME races = 0 PROVE InTurn' BY <1>1 DEF InTurn
  <2>2. \A d \in McpCall : call'[d] = Idle /\ call'[d].op = "none"
    BY <1>1, <2>1, Alone DEF Idle, None
  <2>3. record = row /\ Answered BY <1>1, <2>1 DEF McpInvariant, InTurn
  <2>. HIDE DEF record
  <2>4. Answered' BY <1>1, <2>3 DEF Answered
  <2>5. QED BY <2>2, <2>4 DEF InTurn
<1>6. QED BY <1>3, <1>4, <1>5 DEF McpInvariant

LEMMA McpRestart ==
    ASSUME McpInvariant, restart
    PROVE  McpInvariant'
<1>1. /\ \A d \in McpCall : call'[d] = Idle /\ call'[d].op = "none"
      /\ call' \in [McpCall -> InProgress \cup {Idle}]
      /\ copy' = row /\ UNCHANGED <<row, artifacts, runs, answered>>
  BY DEF restart, Idle, None
<1>2. races' \in Nat /\ (races' = 0 => races = 0 /\ ~Busy)
  BY DEF restart, McpInvariant, McpTypes
<1>3. McpTypes' BY <1>1, <1>2 DEF McpInvariant, McpTypes
<1>4. ArtifactsStored' BY <1>1 DEF McpInvariant, ArtifactsStored
<1>5. InTurn'
  <2>1. SUFFICES ASSUME races' = 0 PROVE InTurn' BY DEF InTurn
  <2>2. Answered BY <1>2, <2>1 DEF McpInvariant, InTurn
  <2>3. Answered' BY <1>1, <2>2 DEF Answered
  <2>4. QED BY <1>1, <2>3 DEF InTurn
<1>6. QED BY <1>3, <1>4, <1>5 DEF McpInvariant

LEMMA McpInit ==
    ASSUME Init
    PROVE  McpInvariant
<1>1. /\ row = NoRecord /\ copy = NoRecord /\ answered = Idle
      /\ \A c \in McpCall : call[c] = Idle /\ call[c].op = "none"
  BY DEF Init, Idle, None
<1>2. McpTypes BY DEF Init, McpTypes
<1>3. ArtifactsStored BY <1>1 DEF ArtifactsStored
<1>4. InTurn BY <1>1 DEF InTurn, Answered
<1>5. QED BY <1>2, <1>3, <1>4 DEF McpInvariant

LEMMA McpStep ==
    ASSUME McpInvariant, [Next]_(vars)
    PROVE  McpInvariant'
<1>0. races \in Nat /\ runs \in Nat BY DEF McpInvariant, McpTypes
<1>1. ASSUME NEW c \in McpCall, NEW request \in Request, NEW execution \in BOOLEAN,
             ask(c, request, execution)
      PROVE  McpInvariant'
  <2>. DEFINE step == [op |-> "auditing", execute |-> execution,
                       record |-> [request |-> request, result |-> authorize(request)]]
  <2>1. step \in InProgress /\ StoredIn(step.record.result, artifacts)
    BY DEF InProgress, Kept, Outcome, Step, authorize, StoredIn
  <2>2. step.op = "auditing" /\ Begin(c, step) /\ UNCHANGED <<row, copy, artifacts, runs, answered>>
    BY <1>1 DEF ask
  <2>. HIDE DEF step
  <2>3. QED BY <2>1, <2>2, McpBegin
<1>2. ASSUME NEW c \in McpCall, replay(c) PROVE McpInvariant'
  <2>. DEFINE step == [op |-> "replaying", record |-> row, execute |-> FALSE]
  <2>1. row \in Kept /\ StoredIn(row.result, artifacts)
    BY <1>2 DEF replay, McpInvariant, McpTypes, ArtifactsStored
  <2>2. step \in InProgress /\ step.op = "replaying" /\ step.record = row
    BY <2>1 DEF InProgress, Kept, Step
  <2>3. Begin(c, step) /\ UNCHANGED <<row, copy, artifacts, runs, answered>> BY <1>2 DEF replay
  <2>. HIDE DEF step
  <2>4. QED BY <2>1, <2>2, <2>3, McpBegin
<1>3. ASSUME NEW c \in McpCall, auditAuthorization(c) PROVE McpInvariant'
  <2>1. /\ call[c].op = "auditing" /\ Goto(c, "saving")
        /\ UNCHANGED <<row, copy, artifacts, runs, answered, races>>
    BY <1>3 DEF auditAuthorization
  <2>2. Onward(c) /\ call'[c].op = "saving" /\ call'[c].record = call[c].record
    BY <2>1, McpGoing DEF McpInvariant, Step
  <2>3. StoredIn(call[c].record.result, artifacts) BY <2>1 DEF McpInvariant, ArtifactsStored
  <2>4. QED BY <1>0, <2>1, <2>2, <2>3, McpQuietStep
<1>4. ASSUME NEW c \in McpCall, storeArtifact(c) PROVE McpInvariant'
  <2>1. /\ call[c].op = "storing" /\ Goto(c, "saving")
        /\ UNCHANGED <<row, copy, runs, answered, races>>
    BY <1>4 DEF storeArtifact
  <2>2. Onward(c) /\ call'[c].op = "saving" /\ call'[c].record = call[c].record
    BY <2>1, McpGoing DEF McpInvariant, Step
  <2>3. StoredIn(call'[c].record.result, artifacts') /\ artifacts \subseteq artifacts'
    BY <1>4, <2>2 DEF StoredIn, storeArtifact
  <2>4. runs' \in Nat /\ races' \in Nat /\ races' >= races BY <1>0, <2>1
  <2>5. QED BY <2>1, <2>2, <2>3, <2>4, McpQuietStep
<1>5. ASSUME NEW c \in McpCall, failCall(c) PROVE McpInvariant'
  <2>1. /\ call[c].op # "none" /\ call' = [call EXCEPT ![c] = Idle] /\ races' = races + 1
        /\ UNCHANGED <<row, copy, artifacts, runs, answered>>
    BY <1>5 DEF failCall
  <2>2. Onward(c) /\ call'[c] = Idle /\ call'[c].op = "none"
    BY <2>1, McpEnding DEF McpInvariant
  <2>3. races' \in Nat /\ races' > 0 /\ races' >= races BY <1>0, <2>1
  <2>4. QED BY <1>0, <2>1, <2>2, <2>3, McpQuietStep
<1>6. CASE UNCHANGED vars
  BY <1>6
  DEF vars, McpInvariant, McpTypes, ArtifactsStored, StoredIn, InTurn, Answered, Busy
<1>7. QED
  BY <1>1, <1>2, <1>3, <1>4, <1>5, <1>6,
     McpSaveRow, McpSaveCopy, McpExecute, McpReport, McpCacheReplayed, McpRestart
  DEF Next

\* However many calls with an id there are: as long as none overlaps another,
\* fails or is cut off, a replay answers what the last call was answered, and
\* whatever happens a record's artifact is stored (service.ts:1022-1176).
THEOREM ReplaysAnswer == Spec => []ReplayIsTheAnswer
<1>1. McpInvariant => ReplayIsTheAnswer
  BY DEF McpInvariant, ArtifactsStored, StoredIn, InTurn, Answered, ReplayIsTheAnswer, Replayed
<1>2. Init => McpInvariant BY McpInit
<1>3. McpInvariant /\ [Next]_(vars) => McpInvariant' BY McpStep
<1>4. QED BY <1>1, <1>2, <1>3, PTL DEF Spec

-----------------------------------------------------------------------------
(* Artifacts.                                                              *)

HtmlRow == [version : 1 .. MaxPages, page : Nat, whole : BOOLEAN, failed : BOOLEAN]
Link == [row : Nat, page : Nat, revoked : BOOLEAN]
Rows == 1 .. Len(html)

ArtifactTypes ==
    /\ html \in Seq(HtmlRow) /\ shots \subseteq Rows
    /\ files \in [1 .. MaxPages -> Nat] /\ shotFiles \in [1 .. MaxPages -> Nat]
    /\ overlapped \in BOOLEAN /\ pages \in 0 .. MaxPages
    /\ DOMAIN writer = Writer /\ DOMAIN req = ArtifactRequest

\* The versions have no gap, and a stream's version is one of them or the next.
VersionsNumbered ==
    \E k \in 0 .. pages :
        /\ {html[i].version : i \in Rows} = 1 .. k
        /\ \A w \in Writer : writer[w].pc = "put" =>
               writer[w].version \in 1 .. (k + 1) /\ writer[w].version <= pages

\* A version that may be handed out.
Handed(i) == html[i].whole \/ i \in early

\* The variation's row, or a copy of it, names a version that may be handed out.
Shows(v) ==
    /\ v \in [current : Nat, shot : Nat] /\ v.current <= Len(html)
    /\ v.current # 0 => Handed(v.current)

WriterHolds(w) ==
    \/ writer[w] = Versions!Idle
    \/ writer[w].pc = "put" /\ writer[w].page \in Nat
    \/ writer[w].pc = "assets" /\ writer[w].row \in Rows
    \/ /\ writer[w].pc = "publish" /\ writer[w].row \in Rows
       /\ html[writer[w].row].whole /\ Shows(writer[w].seen)

RequestHolds(q) ==
    \/ req[q] = Versions!Idle
    \/ req[q].pc = "restore" /\ req[q].row \in Rows /\ Shows(req[q].seen)
    \/ req[q].pc = "repair" /\ req[q].row \in Rows /\ Handed(req[q].row) /\ Shows(req[q].seen)
    \/ req[q].pc = "zip" /\ req[q].row \in Rows /\ (req[q].shared => Handed(req[q].row))
    \/ req[q] \in [pc : {"revoke"}, open : SUBSET Nat]

BackgroundHolds == \A c \in background : c.row \in Rows /\ Shows(c.seen)

ScreenshotHolds(k) ==
    /\ k[1] \in Rows
    /\ jobs[k].pc = "rendered" => jobs[k].page \in Nat /\ (~overlapped => jobs[k].page = html[k[1]].page)
    /\ jobs[k].pc = "kept" => Shows(jobs[k].seen)

SharesHold ==
    /\ shares \in Seq(Link)
    /\ \A s \in DOMAIN shares :
        shares[s].row \in Rows /\ (~overlapped => shares[s].page = html[shares[s].row].page)

\* While no two streams overlapped one writes at a time, the version of a row
\* is its position, and its files are its own.
FilesApart == ~overlapped =>
    /\ \A w, o \in Writer : writer[w] # Versions!Idle /\ writer[o] # Versions!Idle => w = o
    /\ \A w \in Writer : writer[w].pc = "put" => writer[w].version = Len(html) + 1
    /\ \A i \in Rows : html[i].version = i /\ files[i] = html[i].page
    /\ \A s \in shots : shotFiles[s] = html[s].page

ArtifactsInvariant ==
    /\ ArtifactTypes /\ VersionsNumbered /\ Shows(variation)
    /\ \A w \in Writer : WriterHolds(w)
    /\ \A q \in ArtifactRequest : RequestHolds(q)
    /\ \A k \in DOMAIN jobs : ScreenshotHolds(k)
    /\ BackgroundHolds /\ SharesHold /\ FilesApart
    /\ Versions!ExportsWhole

LEMMA RowTyped ==
    ASSUME ArtifactTypes, NEW i \in Rows
    PROVE  html[i] \in HtmlRow /\ html[i].version \in 1 .. MaxPages /\ html[i].page \in Nat
<1>1. html[i] \in HtmlRow BY DEF ArtifactTypes, Rows
<1>2. QED BY <1>1 DEF HtmlRow

\* What no step takes back.
Grown ==
    /\ html' \in Seq(HtmlRow) /\ Len(html) <= Len(html')
    /\ \A i \in Rows :
        /\ html'[i].version = html[i].version /\ html'[i].page = html[i].page
        /\ html[i].whole => html'[i].whole
    /\ early \subseteq early' /\ (overlapped => overlapped')

LEMMA ShowsStill ==
    ASSUME Grown, ArtifactTypes, NEW v, Shows(v) PROVE Shows(v)'
<1>1. Rows \subseteq Rows' BY DEF Grown, ArtifactTypes, Rows
<1>2. v.current # 0 => v.current \in Rows BY DEF Shows, Rows
<1>3. QED BY <1>1, <1>2 DEF Grown, ArtifactTypes, Shows, Handed, Rows

LEMMA HandedStill ==
    ASSUME Grown, NEW i \in Rows PROVE (Handed(i) => Handed(i)') /\ i \in Rows'
BY DEF Grown, Handed, Rows

LEMMA WriterStill ==
    ASSUME Grown, ArtifactTypes, NEW w \in Writer, WriterHolds(w), writer'[w] = writer[w]
    PROVE  WriterHolds(w)'
<1>1. CASE writer[w].pc = "publish" /\ writer[w].row \in Rows
             /\ html[writer[w].row].whole /\ Shows(writer[w].seen)
  <2>1. Shows(writer[w].seen)' BY <1>1, ShowsStill
  <2>2. writer[w].row \in Rows' /\ html'[writer[w].row].whole BY <1>1, HandedStill DEF Grown
  <2>3. QED BY <1>1, <2>1, <2>2 DEF WriterHolds
<1>2. QED BY <1>1, HandedStill DEF WriterHolds

LEMMA RequestStill ==
    ASSUME Grown, ArtifactTypes, NEW q \in ArtifactRequest, RequestHolds(q), req'[q] = req[q]
    PROVE  RequestHolds(q)'
<1>1. CASE Shows(req[q].seen)
  <2>1. Shows(req[q].seen)' BY <1>1, ShowsStill
  <2>2. QED BY <2>1, HandedStill DEF RequestHolds
<1>2. QED BY <1>1, HandedStill DEF RequestHolds

LEMMA BackgroundStill ==
    ASSUME Grown, ArtifactTypes, BackgroundHolds, background' \subseteq background
    PROVE  BackgroundHolds'
<1>1. ASSUME NEW c \in background PROVE c.row \in Rows' /\ Shows(c.seen)'
  BY <1>1, ShowsStill, HandedStill DEF BackgroundHolds
<1>2. QED BY <1>1 DEF BackgroundHolds

LEMMA ScreenshotStill ==
    ASSUME Grown, ArtifactTypes, NEW k \in DOMAIN jobs, ScreenshotHolds(k), jobs'[k] = jobs[k]
    PROVE  ScreenshotHolds(k)'
<1>1. CASE Shows(jobs[k].seen)
  <2>1. Shows(jobs[k].seen)' BY <1>1, ShowsStill
  <2>2. QED BY <2>1, HandedStill DEF ScreenshotHolds, Grown
<1>2. QED BY <1>1, HandedStill DEF ScreenshotHolds, Grown

LEMMA SharesStill ==
    ASSUME Grown, ArtifactTypes, SharesHold, UNCHANGED shares PROVE SharesHold'
BY HandedStill DEF SharesHold, Grown

\* A screenshot is asked for.
LEMMA Enqueued ==
    ASSUME Grown, ArtifactTypes, \A k \in DOMAIN jobs : ScreenshotHolds(k), NEW i \in Rows, NEW reason,
           Versions!Enqueue(i, reason)
    PROVE  \A k \in DOMAIN jobs' : ScreenshotHolds(k)'
<1>1. PICK key :
        /\ key[1] = i /\ DOMAIN jobs' = DOMAIN jobs \cup {key}
        /\ \A k \in DOMAIN jobs' : jobs'[k] = IF k \in DOMAIN jobs THEN jobs[k] ELSE [pc |-> "queued"]
  <2> DEFINE k == IF reason = "repair" THEN <<i, reason, asks>> ELSE <<i, reason>>
  <2> WITNESS k
  <2> QED BY DEF Versions!Enqueue
<1>3. ASSUME NEW k \in DOMAIN jobs PROVE ScreenshotHolds(k)'
  BY <1>1, <1>3, ScreenshotStill
<1>4. CASE key \notin DOMAIN jobs
  <2>1. jobs'[key] = [pc |-> "queued"] BY <1>1, <1>4
  <2>2. jobs'[key].pc = "queued" BY <2>1
  <2>3. ScreenshotHolds(key)' BY <2>2, <1>1, HandedStill DEF ScreenshotHolds
  <2>4. QED BY <1>1, <1>3, <2>3
<1>5. QED BY <1>1, <1>3, <1>4

\* What a step leaves alone as a whole.
LEMMA WritersStill ==
    ASSUME Grown, ArtifactTypes, \A w \in Writer : WriterHolds(w), UNCHANGED writer
    PROVE  \A w \in Writer : WriterHolds(w)'
BY WriterStill

LEMMA RequestsStill ==
    ASSUME Grown, ArtifactTypes, \A q \in ArtifactRequest : RequestHolds(q), UNCHANGED req
    PROVE  \A q \in ArtifactRequest : RequestHolds(q)'
BY RequestStill

LEMMA ScreenshotsStill ==
    ASSUME Grown, ArtifactTypes, \A k \in DOMAIN jobs : ScreenshotHolds(k), UNCHANGED jobs
    PROVE  \A k \in DOMAIN jobs' : ScreenshotHolds(k)'
BY ScreenshotStill

\* What a change of the variation starts from, whichever store it is.
LEMMA BaseShows ==
    ASSUME Grown, ArtifactTypes, Shows(variation), NEW v, Shows(v)
    PROVE  Shows(Versions!Base(v)) /\ \A b : Shows(b) => Shows(b)'
BY ShowsStill DEF Versions!Base

LEMMA MadeCurrent ==
    ASSUME NEW v, Shows(v), NEW i \in Rows, Handed(i) PROVE Shows([v EXCEPT !.current = i])
BY DEF Shows, Rows, Handed

LEMMA ShotTaken ==
    ASSUME NEW v, Shows(v), NEW i \in Rows PROVE Shows([v EXCEPT !.shot = i])
<1>1. [v EXCEPT !.shot = i].current = v.current /\ [v EXCEPT !.shot = i] \in [current : Nat, shot : Nat]
  BY DEF Shows, Rows
<1>2. QED BY <1>1 DEF Shows, Handed

\* Steps that leave the pages alone.
PagesLeft == UNCHANGED <<html, files, shots, shotFiles, background, early, overlapped, pages>>

LEMMA PagesLeftGrown ==
    ASSUME ArtifactTypes, PagesLeft
    PROVE  Grown /\ \A v : Shows(v) => Shows(v)'
BY ShowsStill DEF PagesLeft, Grown, ArtifactTypes, Rows, HtmlRow

\* Nor do they change what a stream is at.
LEMMA StreamsLeft ==
    ASSUME ArtifactsInvariant, PagesLeft, UNCHANGED writer, DOMAIN req' = ArtifactRequest,
           Versions!ExportsWhole'
    PROVE  /\ ArtifactTypes' /\ VersionsNumbered' /\ FilesApart'
           /\ \A w \in Writer : WriterHolds(w)'
           /\ BackgroundHolds' /\ Versions!ExportsWhole'
<1>1. Grown BY PagesLeftGrown DEF ArtifactsInvariant
<1>2. \A w \in Writer : WriterHolds(w)' BY <1>1, WritersStill DEF ArtifactsInvariant
<1>3. ArtifactTypes' /\ VersionsNumbered' /\ FilesApart'
  BY DEF ArtifactsInvariant, PagesLeft, ArtifactTypes, VersionsNumbered, FilesApart, Rows
<1>4. BackgroundHolds' BY <1>1, BackgroundStill DEF ArtifactsInvariant, PagesLeft
<1>5. QED BY <1>2, <1>3, <1>4

LEMMA ExportsLeft ==
    ASSUME Versions!ExportsWhole, UNCHANGED exports, early \subseteq early'
    PROVE  Versions!ExportsWhole'
BY DEF Versions!ExportsWhole

\* A screenshot is rendered, attached, or asked for by an administrator.
LEMMA RenderKeeps ==
    ASSUME ArtifactsInvariant, NEW k \in DOMAIN jobs, Versions!render(k) PROVE ArtifactsInvariant'
<1>1. PagesLeft /\ Grown /\ (\A v : Shows(v) => Shows(v)')
  BY PagesLeftGrown DEF Versions!render, Versions!files_, Versions!spent, PagesLeft, ArtifactsInvariant
<1>2. UNCHANGED <<writer, req, shares, exports, variation>> BY DEF Versions!render
<1>3. ASSUME NEW j \in DOMAIN jobs' PROVE ScreenshotHolds(j)'
  <2>1. j \in DOMAIN jobs /\ ScreenshotHolds(j) /\ ScreenshotHolds(k)
    BY DEF Versions!render, ArtifactsInvariant
  <2>2. CASE j # k
    <3>1. jobs'[j] = jobs[j] BY <2>2 DEF Versions!render
    <3>2. QED BY <3>1, <2>1, <1>1, ScreenshotStill DEF ArtifactsInvariant
  <2>3. CASE j = k
    <3>1. jobs'[k] = [pc |-> "rendered", page |-> files[html[k[1]].version]] BY DEF Versions!render
    <3>2. k[1] \in Rows /\ html[k[1]].version \in 1 .. MaxPages
      BY <2>1, RowTyped DEF ScreenshotHolds, ArtifactsInvariant
    <3>3. files[html[k[1]].version] \in Nat /\ (~overlapped => files[html[k[1]].version] = html[k[1]].page)
      BY <3>2 DEF ArtifactsInvariant, ArtifactTypes, FilesApart
    <3>4. jobs'[k].pc = "rendered" /\ jobs'[k].page = files[html[k[1]].version] BY <3>1
    <3>5. QED BY <2>3, <3>2, <3>3, <3>4, <1>1 DEF ScreenshotHolds, PagesLeft, Rows
  <2>4. QED BY <2>2, <2>3
<1>4. QED BY <1>1, <1>2, <1>3, StreamsLeft, ExportsLeft, RequestsStill, SharesStill
      DEF ArtifactsInvariant, PagesLeft, ArtifactTypes

LEMMA AttachKeeps ==
    ASSUME ArtifactsInvariant, NEW k \in DOMAIN jobs, Versions!attachShot(k) PROVE ArtifactsInvariant'
<1>1. PagesLeft /\ Grown /\ (\A v : Shows(v) => Shows(v)')
  BY PagesLeftGrown DEF Versions!attachShot, Versions!files_, Versions!spent, PagesLeft, ArtifactsInvariant
<1>2. UNCHANGED <<writer, req, shares, exports>> BY DEF Versions!attachShot
<1>3. ScreenshotHolds(k) /\ jobs[k].pc = "kept" BY DEF Versions!attachShot, ArtifactsInvariant
<1>4. Shows(variation)'
  <2>1. Shows([Versions!Base(jobs[k].seen) EXCEPT !.shot = k[1]])
    BY <1>1, <1>3, BaseShows, ShotTaken DEF ScreenshotHolds, ArtifactsInvariant
  <2>2. variation' = [Versions!Base(jobs[k].seen) EXCEPT !.shot = k[1]] BY DEF Versions!attachShot
  <2>3. Shows(variation') BY <2>1, <2>2
  <2>4. QED BY <2>3, <1>1 DEF Shows, Handed, PagesLeft
<1>5. ASSUME NEW j \in DOMAIN jobs' PROVE ScreenshotHolds(j)'
  <2>1. j \in DOMAIN jobs /\ ScreenshotHolds(j) BY DEF Versions!attachShot, ArtifactsInvariant
  <2>2. CASE j # k
    <3>1. jobs'[j] = jobs[j] BY <2>2 DEF Versions!attachShot
    <3>2. QED BY <3>1, <2>1, <1>1, ScreenshotStill DEF ArtifactsInvariant
  <2>3. CASE j = k
    <3>1. jobs'[k] = [pc |-> "done"] BY DEF Versions!attachShot
    <3>2. jobs'[k].pc = "done" BY <3>1
    <3>3. QED BY <3>2, <2>1, <2>3, <1>1, HandedStill DEF ScreenshotHolds
  <2>4. QED BY <2>2, <2>3
<1>6. QED BY <1>1, <1>2, <1>4, <1>5, StreamsLeft, ExportsLeft, RequestsStill, SharesStill
      DEF ArtifactsInvariant, PagesLeft, ArtifactTypes

\* A screenshot fails: its version is marked.
LEMMA FailedGrown ==
    ASSUME ArtifactTypes, NEW k, k[1] \in Rows, Versions!Failed(k), UNCHANGED <<early, overlapped>>
    PROVE  Grown /\ Len(html') = Len(html) /\ \A i \in Rows : html'[i].whole = html[i].whole
<1>1. html[k[1]] \in HtmlRow BY RowTyped
<1> PICK t : t = TRUE OBVIOUS
<1>3. PICK h : h = [html[k[1]] EXCEPT !.failed = t] /\ html' = [html EXCEPT ![k[1]] = h]
  BY DEF Versions!Failed
<1>4. /\ h \in HtmlRow /\ h.version = html[k[1]].version /\ h.page = html[k[1]].page
      /\ h.whole = html[k[1]].whole
  BY <1>1, <1>3 DEF HtmlRow
<1>6. html' \in Seq(HtmlRow) /\ Len(html') = Len(html) BY <1>3, <1>4 DEF ArtifactTypes, Rows
<1>7. ASSUME NEW i \in Rows
      PROVE  /\ html'[i].version = html[i].version /\ html'[i].page = html[i].page
             /\ html'[i].whole = html[i].whole
  BY <1>3, <1>4 DEF ArtifactTypes, Rows
<1>8. QED BY <1>6, <1>7 DEF Grown

\* Steps that add no version: what they owe the other parts of the invariant.
LEMMA VersionsStill ==
    ASSUME ArtifactsInvariant, Grown, Len(html') = Len(html), UNCHANGED <<writer, pages>>
    PROVE  /\ VersionsNumbered' /\ Rows' = Rows
           /\ \A w \in Writer : WriterHolds(w)'
<1>1. Rows' = Rows BY DEF Rows
<1>2. {html'[i].version : i \in Rows'} = {html[i].version : i \in Rows} BY <1>1 DEF Grown
<1>3. VersionsNumbered' BY <1>2 DEF VersionsNumbered, ArtifactsInvariant
<1>4. QED BY <1>1, <1>3, WritersStill DEF ArtifactsInvariant

LEMMA ExportsStill ==
    ASSUME Versions!ExportsWhole, UNCHANGED exports, Grown PROVE Versions!ExportsWhole'
BY DEF Versions!ExportsWhole, Grown

LEMMA JobReplaced ==
    ASSUME Grown, ArtifactTypes, NEW k \in DOMAIN jobs, \A j \in DOMAIN jobs : ScreenshotHolds(j),
           NEW job, jobs' = [jobs EXCEPT ![k] = job], job.pc \in {"done", "kept"},
           job.pc = "kept" => Shows(job.seen)
    PROVE  \A j \in DOMAIN jobs' : ScreenshotHolds(j)'
<1>1. ASSUME NEW j \in DOMAIN jobs, j # k PROVE ScreenshotHolds(j)'
  BY <1>1, ScreenshotStill
<1>2. jobs'[k] = job OBVIOUS
<1>3. job.pc = "kept" => Shows(job.seen)' BY ShowsStill
<1>4. ScreenshotHolds(k)' BY <1>2, <1>3, HandedStill DEF ScreenshotHolds
<1>5. QED BY <1>1, <1>4

LEMMA RenderFailsKeeps ==
    ASSUME ArtifactsInvariant, NEW k \in DOMAIN jobs, Versions!renderFails(k) PROVE ArtifactsInvariant'
<1>1. /\ UNCHANGED <<writer, req, shares, exports, variation, files, shots, shotFiles, early>>
      /\ UNCHANGED <<background, overlapped, pages>> /\ Versions!Failed(k)
  BY DEF Versions!renderFails, Versions!Ask
<1>2. ArtifactTypes /\ ScreenshotHolds(k) /\ k[1] \in Rows BY DEF ArtifactsInvariant, ScreenshotHolds
<1>3. Grown /\ Len(html') = Len(html) BY <1>1, <1>2, FailedGrown
<1>4. VersionsNumbered' /\ Rows' = Rows /\ \A w \in Writer : WriterHolds(w)'
  BY <1>1, <1>3, VersionsStill
<1>5. ArtifactTypes' BY <1>1, <1>2, <1>3, <1>4 DEF ArtifactTypes, Grown
<1>6. FilesApart'
  <2>1. shots \subseteq Rows BY <1>2 DEF ArtifactTypes
  <2>2. QED BY <1>1, <1>3, <1>4, <2>1 DEF FilesApart, Grown, ArtifactsInvariant
<1>7. \A j \in DOMAIN jobs' : ScreenshotHolds(j)'
  <2>1. jobs' = [jobs EXCEPT ![k] = [pc |-> "done"]] BY <1>1 DEF Versions!Failed
  <2>2. [pc |-> "done"].pc = "done" OBVIOUS
  <2>3. QED BY <2>1, <2>2, <1>2, <1>3, JobReplaced DEF ArtifactsInvariant
<1>8. Shows(variation)' BY <1>1, <1>2, <1>3, ShowsStill DEF ArtifactsInvariant
<1>9. QED BY <1>1, <1>2, <1>3, <1>4, <1>5, <1>6, <1>7, <1>8, ExportsStill, RequestsStill, SharesStill,
             BackgroundStill
      DEF ArtifactsInvariant

\* A screenshot's file is written, then its row, unless the version has one.
LEMMA KeepShotKeeps ==
    ASSUME ArtifactsInvariant, NEW k \in DOMAIN jobs, Versions!KeepShot(k) PROVE ArtifactsInvariant'
<1> DEFINE v == html[k[1]].version
<1>1. /\ UNCHANGED <<writer, req, shares, exports, variation, files, background, early, overlapped, pages>>
      /\ shotFiles' = [shotFiles EXCEPT ![v] = jobs[k].page] /\ jobs[k].pc = "rendered"
      /\ (Versions!Failed(k) /\ UNCHANGED shots) \/ Versions!Kept(k)
  BY DEF Versions!KeepShot, Versions!spent
<1>2. ArtifactTypes /\ ScreenshotHolds(k) /\ k[1] \in Rows BY DEF ArtifactsInvariant, ScreenshotHolds
<1>3. Grown /\ Len(html') = Len(html)
  <2>1. CASE Versions!Failed(k) BY <1>1, <1>2, <2>1, FailedGrown
  <2>2. CASE Versions!Kept(k)
    <3>1. UNCHANGED html BY <2>2 DEF Versions!Kept
    <3>2. QED BY <1>1, <1>2, <3>1 DEF Grown, ArtifactTypes, Rows
  <2>3. QED BY <1>1, <2>1, <2>2
<1>4. VersionsNumbered' /\ Rows' = Rows /\ \A w \in Writer : WriterHolds(w)'
  BY <1>1, <1>3, VersionsStill
<1>5. /\ shots' \subseteq Rows /\ shots \subseteq shots' /\ shots' \subseteq shots \cup {k[1]}
      /\ v \in 1 .. MaxPages /\ jobs[k].page \in Nat
  <2>1. shots' \in {shots, shots \cup {k[1]}} BY <1>1 DEF Versions!Kept
  <2>2. QED BY <1>1, <1>2, <2>1, RowTyped DEF ScreenshotHolds, ArtifactTypes
<1>6. shotFiles' \in [1 .. MaxPages -> Nat] BY <1>1, <1>2, <1>5 DEF ArtifactTypes
<1>7. ArtifactTypes' BY <1>1, <1>2, <1>3, <1>4, <1>5, <1>6 DEF ArtifactTypes, Grown
<1>8. FilesApart'
  <2>1. SUFFICES ASSUME ~overlapped
                 PROVE  \A s \in shots' : shotFiles'[s] = html'[s].page
    BY <1>1, <1>3, <1>4, <2>1 DEF FilesApart, Grown, ArtifactsInvariant
  <2>2. v = k[1] /\ jobs[k].page = html[k[1]].page
    BY <2>1, <1>1, <1>2 DEF FilesApart, ScreenshotHolds, ArtifactsInvariant
  <2>3. shotFiles'[k[1]] = html[k[1]].page BY <1>1, <1>2, <1>5, <2>2 DEF ArtifactTypes
  <2>4. ASSUME NEW s \in shots, s # k[1] PROVE shotFiles'[s] = html[s].page
    BY <1>1, <1>2, <2>1, <2>2, <2>4 DEF ArtifactTypes, FilesApart, ArtifactsInvariant
  <2>5. QED BY <1>2, <1>3, <1>5, <2>3, <2>4 DEF Grown
<1>9. \A j \in DOMAIN jobs' : ScreenshotHolds(j)'
  <2>1. \A j \in DOMAIN jobs : ScreenshotHolds(j) /\ Shows(variation) BY DEF ArtifactsInvariant
  <2>2. CASE Versions!Failed(k)
    <3>1. jobs' = [jobs EXCEPT ![k] = [pc |-> "done"]] BY <2>2 DEF Versions!Failed
    <3>2. [pc |-> "done"].pc = "done" OBVIOUS
    <3>3. QED BY <2>1, <3>1, <3>2, <1>2, <1>3, JobReplaced
  <2>3. CASE Versions!Kept(k)
    <3>1. PICK job : job = [pc |-> "kept", seen |-> variation] OBVIOUS
    <3>2. jobs' = [jobs EXCEPT ![k] = job] BY <2>3, <3>1 DEF Versions!Kept
    <3>3. job.pc = "kept" /\ job.seen = variation BY <3>1
    <3>4. QED BY <2>1, <3>2, <3>3, <1>2, <1>3, JobReplaced DEF ArtifactsInvariant
  <2>4. QED BY <1>1, <2>2, <2>3
<1>10. Shows(variation)' BY <1>1, <1>2, <1>3, ShowsStill DEF ArtifactsInvariant
<1>11. QED BY <1>1, <1>2, <1>3, <1>4, <1>7, <1>8, <1>9, <1>10, ExportsStill, RequestsStill, SharesStill,
              BackgroundStill
       DEF ArtifactsInvariant

\* A step that leaves the screenshots alone, and what else a request may change.
LEMMA RequestReplaced ==
    ASSUME Grown, ArtifactTypes, \A p \in ArtifactRequest : RequestHolds(p), NEW q \in ArtifactRequest,
           NEW doing, req' = [req EXCEPT ![q] = doing], RequestHolds(q)'
    PROVE  DOMAIN req' = ArtifactRequest /\ \A p \in ArtifactRequest : RequestHolds(p)'
<1>1. ASSUME NEW p \in ArtifactRequest, p # q PROVE RequestHolds(p)' BY <1>1, RequestStill
<1>2. QED BY <1>1 DEF ArtifactTypes

\* A request reads a version and what is current.
LEMMA Asked ==
    ASSUME ArtifactsInvariant, PagesLeft, UNCHANGED <<writer, jobs, shares, variation>>,
           NEW q \in ArtifactRequest, NEW doing, req' = [req EXCEPT ![q] = doing],
           RequestHolds(q)', Versions!ExportsWhole'
    PROVE  ArtifactsInvariant'
<1>1. Grown /\ ArtifactTypes /\ Shows(variation)' BY PagesLeftGrown DEF ArtifactsInvariant
<1>2. DOMAIN req' = ArtifactRequest /\ \A p \in ArtifactRequest : RequestHolds(p)'
  BY <1>1, RequestReplaced DEF ArtifactsInvariant
<1>3. SharesHold' /\ \A k \in DOMAIN jobs' : ScreenshotHolds(k)'
  BY <1>1, SharesStill, ScreenshotsStill DEF ArtifactsInvariant
<1>4. QED BY <1>1, <1>2, <1>3, StreamsLeft DEF ArtifactsInvariant

LEMMA RequestIs ==
    ASSUME ArtifactTypes, NEW q \in ArtifactRequest, NEW doing, req' = [req EXCEPT ![q] = doing]
    PROVE  req'[q] = doing
BY DEF ArtifactTypes

\* What a request may say of versions that stay as they are.
LEMMA Promised ==
    ASSUME ArtifactTypes, PagesLeft, NEW i \in Rows
    PROVE  i \in Rows' /\ (Handed(i) => Handed(i)') /\ \A v : Shows(v) => Shows(v)'
BY PagesLeftGrown, HandedStill

LEMMA AskRestoreKeeps ==
    ASSUME ArtifactsInvariant, NEW q \in ArtifactRequest, Versions!askRestore(q) PROVE ArtifactsInvariant'
<1>1. /\ PagesLeft /\ UNCHANGED <<writer, jobs, shares, variation, exports>>
      /\ ArtifactTypes /\ Shows(variation)
  BY DEF Versions!askRestore, Versions!Ask, Versions!files_, PagesLeft, ArtifactsInvariant
<1>2. PICK i \in Rows : req' = [req EXCEPT ![q] = [pc |-> "restore", row |-> i, seen |-> variation]]
  BY DEF Versions!askRestore, Versions!Row, Rows
<1>3. PICK doing : doing = [pc |-> "restore", row |-> i, seen |-> variation] OBVIOUS
<1>4. doing.pc = "restore" /\ doing.row = i /\ doing.seen = variation BY <1>3
<1>5. req' = [req EXCEPT ![q] = doing] BY <1>2, <1>3
<1>6. RequestHolds(q)' BY <1>1, <1>4, <1>5, RequestIs, Promised DEF RequestHolds
<1>7. QED BY <1>1, <1>5, <1>6, Asked, ExportsLeft DEF ArtifactsInvariant, PagesLeft

LEMMA AskRepairKeeps ==
    ASSUME ArtifactsInvariant, NEW q \in ArtifactRequest, Versions!askRepair(q) PROVE ArtifactsInvariant'
<1>1. /\ PagesLeft /\ UNCHANGED <<writer, jobs, shares, variation, exports>>
      /\ ArtifactTypes /\ Shows(variation) /\ variation.current # 0
  BY DEF Versions!askRepair, Versions!Ask, Versions!files_, PagesLeft, ArtifactsInvariant
<1>2. variation.current \in Rows /\ Handed(variation.current) BY <1>1 DEF Shows, Rows, ArtifactTypes
<1>3. PICK doing : doing = [pc |-> "repair", row |-> variation.current, seen |-> variation] OBVIOUS
<1>4. doing.pc = "repair" /\ doing.row = variation.current /\ doing.seen = variation BY <1>3
<1>5. req' = [req EXCEPT ![q] = doing] BY <1>3 DEF Versions!askRepair
<1>6. RequestHolds(q)' BY <1>1, <1>2, <1>4, <1>5, RequestIs, Promised DEF RequestHolds
<1>7. QED BY <1>1, <1>5, <1>6, Asked, ExportsLeft DEF ArtifactsInvariant, PagesLeft

LEMMA ExportKeeps ==
    ASSUME ArtifactsInvariant, NEW q \in ArtifactRequest,
           Versions!exportVariation(q) \/ Versions!repairExport(q)
    PROVE  ArtifactsInvariant'
<1>1. /\ PagesLeft /\ UNCHANGED <<writer, jobs, shares, variation, exports>>
      /\ ArtifactTypes /\ Shows(variation)
  BY DEF Versions!exportVariation, Versions!repairExport, Versions!Ask, Versions!files_, PagesLeft,
         ArtifactsInvariant
<1>2. PICK i \in Rows, shared \in BOOLEAN :
        /\ shared => Handed(i)
        /\ req' = [req EXCEPT ![q] = [pc |-> "zip", row |-> i, shared |-> shared]]
  <2>1. CASE Versions!exportVariation(q)
    <3>1. variation.current \in Rows /\ Handed(variation.current)
      BY <1>1, <2>1 DEF Shows, Rows, ArtifactTypes, Versions!exportVariation
    <3>2. QED BY <2>1, <3>1 DEF Versions!exportVariation
  <2>2. CASE Versions!repairExport(q) BY <2>2 DEF Versions!repairExport, Versions!Row, Rows
  <2>3. QED BY <2>1, <2>2
<1>3. PICK doing : doing = [pc |-> "zip", row |-> i, shared |-> shared] OBVIOUS
<1>4. doing.pc = "zip" /\ doing.row = i /\ doing.shared = shared BY <1>3
<1>5. req' = [req EXCEPT ![q] = doing] BY <1>2, <1>3
<1>6. RequestHolds(q)' BY <1>1, <1>2, <1>4, <1>5, RequestIs, Promised DEF RequestHolds
<1>7. QED BY <1>1, <1>5, <1>6, Asked, ExportsLeft DEF ArtifactsInvariant, PagesLeft

\* The archive is made of the version the request names.
LEMMA ZipKeeps ==
    ASSUME ArtifactsInvariant, NEW q \in ArtifactRequest, Versions!createArtifactExportZip(q)
    PROVE  ArtifactsInvariant'
<1>1. /\ PagesLeft /\ UNCHANGED <<writer, jobs, shares, variation>> /\ req[q].pc = "zip"
      /\ ArtifactTypes /\ RequestHolds(q)
  BY DEF Versions!createArtifactExportZip, Versions!spent, Versions!files_, PagesLeft, ArtifactsInvariant
<1>2. req' = [req EXCEPT ![q] = Versions!Idle] BY DEF Versions!createArtifactExportZip
<1>3. RequestHolds(q)' BY <1>1, <1>2, RequestIs DEF RequestHolds
<1>4. Versions!ExportsWhole'
  <2>1. req[q].shared => Handed(req[q].row)
    <3>1. req[q] # Versions!Idle /\ req[q] \notin [pc : {"revoke"}, open : SUBSET Nat]
      BY <1>1 DEF Versions!Idle
    <3>2. QED BY <1>1, <3>1 DEF RequestHolds
  <2>2. PICK e : e = [row |-> req[q].row, shared |-> req[q].shared, whole |-> html[req[q].row].whole]
    OBVIOUS
  <2>3. e.row = req[q].row /\ (e.shared <=> req[q].shared) /\ (e.whole <=> html[req[q].row].whole) BY <2>2
  <2>4. exports' \subseteq exports \cup {e} BY <2>2 DEF Versions!createArtifactExportZip
  <2>5. QED BY <1>1, <2>1, <2>3, <2>4 DEF ArtifactsInvariant, Versions!ExportsWhole, Handed, PagesLeft
<1>5. QED BY <1>1, <1>2, <1>3, <1>4, Asked

\* A version is made current.
LEMMA RestoreKeeps ==
    ASSUME ArtifactsInvariant, NEW q \in ArtifactRequest,
           Versions!restoreVariationVersion(q) \/ Versions!repairVariationPreview(q)
    PROVE  ArtifactsInvariant'
<1>1. /\ UNCHANGED <<html, files, shots, shotFiles, writer, exports, shares, background, overlapped, pages>>
      /\ ArtifactTypes /\ RequestHolds(q) /\ Shows(variation) /\ early \subseteq early'
  BY DEF Versions!restoreVariationVersion, Versions!repairVariationPreview, Versions!MaybeEarly,
         Versions!files_, Versions!spent, ArtifactsInvariant
<1>2. Grown BY <1>1 DEF Grown, ArtifactTypes, Rows
<1>3. PICK i \in Rows : i = req[q].row /\ Shows(req[q].seen)
  <2>1. req[q].pc \in {"restore", "repair"}
    BY DEF Versions!restoreVariationVersion, Versions!repairVariationPreview
  <2>2. req[q] # Versions!Idle /\ req[q] \notin [pc : {"revoke"}, open : SUBSET Nat]
    BY <2>1 DEF Versions!Idle
  <2>3. QED BY <1>1, <2>1, <2>2 DEF RequestHolds
<1>4. Handed(i)'
  <2>1. CASE Versions!restoreVariationVersion(q)
    BY <1>1, <1>3, <2>1 DEF Versions!restoreVariationVersion, Versions!MaybeEarly, Handed
  <2>2. CASE Versions!repairVariationPreview(q)
    <3>1. req[q].pc = "repair" BY <2>2 DEF Versions!repairVariationPreview
    <3>2. req[q] # Versions!Idle /\ req[q] \notin [pc : {"revoke"}, open : SUBSET Nat]
      BY <3>1 DEF Versions!Idle
    <3>3. Handed(i) BY <1>1, <1>3, <3>1, <3>2 DEF RequestHolds
    <3>4. QED BY <1>1, <3>3 DEF Handed
  <2>3. QED BY <2>1, <2>2
<1>5. Shows(variation)'
  <2>1. PICK b : b = Versions!Base(req[q].seen) OBVIOUS
  <2>2. Shows(b) BY <2>1, <1>1, <1>2, <1>3, BaseShows
  <2>3. variation' = [b EXCEPT !.current = i]
    BY <1>3, <2>1 DEF Versions!restoreVariationVersion, Versions!repairVariationPreview
  <2>4. variation' \in [current : Nat, shot : Nat] /\ variation'.current = i
    BY <1>3, <2>2, <2>3 DEF Shows, Rows
  <2>5. QED BY <1>1, <1>3, <1>4, <2>4 DEF Shows, Rows, Handed
<1>6. \A k \in DOMAIN jobs' : ScreenshotHolds(k)'
  <2>1. Versions!Enqueue(i, "restore") \/ Versions!Enqueue(i, "repair")
    BY <1>3 DEF Versions!restoreVariationVersion, Versions!repairVariationPreview
  <2>2. \A k \in DOMAIN jobs : ScreenshotHolds(k) BY DEF ArtifactsInvariant
  <2>3. QED BY <1>1, <1>2, <1>3, <2>1, <2>2, Enqueued
<1>7. DOMAIN req' = ArtifactRequest /\ \A p \in ArtifactRequest : RequestHolds(p)'
  <2>1. req' = [req EXCEPT ![q] = Versions!Idle]
    BY DEF Versions!restoreVariationVersion, Versions!repairVariationPreview
  <2>2. RequestHolds(q)' BY <1>1, <2>1, RequestIs DEF RequestHolds
  <2>3. QED BY <1>1, <1>2, <2>1, <2>2, RequestReplaced DEF ArtifactsInvariant
<1>8. ArtifactTypes' /\ FilesApart' BY <1>1, <1>7 DEF ArtifactTypes, FilesApart, ArtifactsInvariant, Rows
<1>9. VersionsNumbered' /\ \A w \in Writer : WriterHolds(w)' BY <1>1, <1>2, VersionsStill
<1>10. QED BY <1>1, <1>2, <1>5, <1>6, <1>7, <1>8, <1>9, SharesStill, ExportsStill, BackgroundStill
       DEF ArtifactsInvariant

LEMMA RebuildKeeps ==
    ASSUME ArtifactsInvariant, Versions!rebuildScreenshot PROVE ArtifactsInvariant'
<1>1. /\ PagesLeft /\ UNCHANGED <<writer, req, variation, exports, shares>>
      /\ ArtifactTypes /\ Grown /\ Shows(variation)'
  BY PagesLeftGrown DEF Versions!rebuildScreenshot, Versions!Ask, Versions!files_, PagesLeft, ArtifactsInvariant
<1>2. \A k \in DOMAIN jobs' : ScreenshotHolds(k)'
  <2>1. PICK i \in Rows : Versions!Enqueue(i, "repair")
    BY DEF Versions!rebuildScreenshot, Versions!Row, Rows
  <2>2. \A k \in DOMAIN jobs : ScreenshotHolds(k) BY DEF ArtifactsInvariant
  <2>3. QED BY <1>1, <2>1, <2>2, Enqueued
<1>3. QED BY <1>1, <1>2, StreamsLeft, ExportsLeft, RequestsStill, SharesStill
      DEF ArtifactsInvariant, PagesLeft, ArtifactTypes

\* Links.
LEMMA SharesChanged ==
    ASSUME ArtifactsInvariant, PagesLeft, SharesHold', UNCHANGED <<writer, variation, jobs, exports>>,
           DOMAIN req' = ArtifactRequest, \A q \in ArtifactRequest : RequestHolds(q)'
    PROVE  ArtifactsInvariant'
<1>1. Grown /\ ArtifactTypes /\ Shows(variation)' BY PagesLeftGrown DEF ArtifactsInvariant
<1>2. QED BY <1>1, StreamsLeft, ExportsLeft, ScreenshotsStill DEF ArtifactsInvariant, PagesLeft

LEMMA RevokedHold ==
    ASSUME SharesHold, UNCHANGED <<html, overlapped>>, NEW s \in DOMAIN shares, NEW t \in BOOLEAN,
           shares' = [shares EXCEPT ![s].revoked = t]
    PROVE  SharesHold'
<1>1. PICK h : h = [shares[s] EXCEPT !.revoked = t] /\ shares' = [shares EXCEPT ![s] = h]
  OBVIOUS
<1>2. shares[s] \in Link BY DEF SharesHold
<1>3. /\ h \in Link /\ h.row = shares[s].row
      /\ h.page = shares[s].page
  BY <1>1, <1>2 DEF Link
<1>4. /\ shares' \in Seq(Link) /\ DOMAIN shares' = DOMAIN shares
      /\ \A i \in DOMAIN shares : shares'[i].row = shares[i].row /\ shares'[i].page = shares[i].page
  BY <1>1, <1>3 DEF SharesHold
<1>5. QED BY <1>4 DEF SharesHold, Rows

LEMMA ShareKeeps ==
    ASSUME ArtifactsInvariant, Versions!shareVariation PROVE ArtifactsInvariant'
<1>1. /\ PagesLeft /\ UNCHANGED <<writer, req, variation, exports, jobs>>
      /\ ArtifactTypes /\ Grown /\ Shows(variation) /\ SharesHold
  BY PagesLeftGrown DEF Versions!shareVariation, Versions!Ask, Versions!files_, PagesLeft, ArtifactsInvariant
<1>2. PICK c : c = variation.current OBVIOUS
<1>3. c \in Rows BY <1>1, <1>2 DEF Versions!shareVariation, Shows, Rows, ArtifactTypes
<1>4. html[c].version \in 1 .. MaxPages BY <1>1, <1>3, RowTyped
<1>5. PICK p : p = files[html[c].version] OBVIOUS
<1>6. p \in Nat /\ (~overlapped => p = html[c].page)
  BY <1>1, <1>3, <1>4, <1>5 DEF ArtifactTypes, ArtifactsInvariant, FilesApart
<1>7. PICK f \in BOOLEAN : shares' = Append(shares,
        [row |-> variation.current, page |-> files[html[variation.current].version], revoked |-> f])
  BY DEF Versions!shareVariation
<1>8. PICK h : h = [row |-> c, page |-> p, revoked |-> f] /\ shares' = Append(shares, h)
  BY <1>2, <1>5, <1>7
<1>9. h \in Link /\ h.row = c /\ h.page = p
  BY <1>3, <1>6, <1>7, <1>8 DEF Rows, Link
<1>10. /\ shares' \in Seq(Link)
       /\ \A s \in DOMAIN shares' : shares'[s] = h \/ (s \in DOMAIN shares /\ shares'[s] = shares[s])
  BY <1>1, <1>8, <1>9 DEF SharesHold
<1>11. SharesHold' BY <1>1, <1>3, <1>6, <1>9, <1>10 DEF SharesHold, PagesLeft, Rows
<1>12. QED BY <1>1, <1>11, SharesChanged, RequestsStill DEF ArtifactsInvariant, ArtifactTypes

LEMMA RevokeKeeps ==
    ASSUME ArtifactsInvariant, Versions!revokeShare PROVE ArtifactsInvariant'
<1>1. /\ PagesLeft /\ UNCHANGED <<writer, req, variation, exports, jobs>>
      /\ ArtifactTypes /\ Grown /\ SharesHold
  BY PagesLeftGrown DEF Versions!revokeShare, Versions!spent, Versions!files_, PagesLeft, ArtifactsInvariant
<1>2. SharesHold' BY <1>1, RevokedHold DEF Versions!revokeShare, PagesLeft
<1>3. QED BY <1>1, <1>2, SharesChanged, RequestsStill DEF ArtifactsInvariant, ArtifactTypes

LEMMA ListKeeps ==
    ASSUME ArtifactsInvariant, NEW q \in ArtifactRequest, Versions!listSharesForArtifact(q)
    PROVE  ArtifactsInvariant'
<1>1. /\ PagesLeft /\ UNCHANGED <<writer, jobs, shares, variation, exports>> /\ ArtifactTypes /\ SharesHold
  BY DEF Versions!listSharesForArtifact, Versions!spent, Versions!files_, PagesLeft, ArtifactsInvariant
<1>2. PICK open \in SUBSET DOMAIN shares : req' = [req EXCEPT ![q] = [pc |-> "revoke", open |-> open]]
  BY DEF Versions!listSharesForArtifact
<1>3. PICK doing : doing = [pc |-> "revoke", open |-> open] OBVIOUS
<1>4. open \in SUBSET Nat BY <1>1, <1>2 DEF SharesHold
<1>5. doing \in [pc : {"revoke"}, open : SUBSET Nat] BY <1>3, <1>4
<1>6. req' = [req EXCEPT ![q] = doing] BY <1>2, <1>3
<1>7. RequestHolds(q)' BY <1>1, <1>5, <1>6, RequestIs DEF RequestHolds
<1>8. QED BY <1>1, <1>6, <1>7, Asked, ExportsLeft DEF ArtifactsInvariant, PagesLeft

LEMMA RevokeSharesKeeps ==
    ASSUME ArtifactsInvariant, NEW q \in ArtifactRequest, Versions!revokeShares(q)
    PROVE  ArtifactsInvariant'
<1>1. /\ PagesLeft /\ UNCHANGED <<writer, variation, exports, jobs>> /\ req[q].pc = "revoke"
      /\ ArtifactTypes /\ Grown /\ SharesHold /\ RequestHolds(q)
  BY PagesLeftGrown DEF Versions!revokeShares, Versions!spent, Versions!files_, PagesLeft, ArtifactsInvariant
<1>2. req[q] \in [pc : {"revoke"}, open : SUBSET Nat]
  BY <1>1 DEF RequestHolds, Versions!Idle
<1>3. PICK s \in req[q].open :
        /\ shares' = [shares EXCEPT ![s].revoked = TRUE]
        /\ req' = [req EXCEPT ![q] = IF req[q].open = {s} THEN Versions!Idle
                                     ELSE [req[q] EXCEPT !.open = req[q].open \ {s}]]
  BY DEF Versions!revokeShares
<1>4. SharesHold'
  <2>1. CASE s \in DOMAIN shares BY <2>1, <1>1, <1>3, RevokedHold DEF PagesLeft
  <2>2. CASE s \notin DOMAIN shares
    <3>1. shares' = shares BY <2>2, <1>1, <1>3 DEF SharesHold
    <3>2. QED BY <3>1, <1>1, SharesStill
  <2>3. QED BY <2>1, <2>2
<1>5. PICK doing : req' = [req EXCEPT ![q] = doing]
                   /\ (doing = Versions!Idle \/ doing = [req[q] EXCEPT !.open = req[q].open \ {s}])
  BY <1>3
<1>6. doing = Versions!Idle \/ doing \in [pc : {"revoke"}, open : SUBSET Nat] BY <1>2, <1>5
<1>7. RequestHolds(q)' BY <1>1, <1>5, <1>6, RequestIs DEF RequestHolds
<1>8. DOMAIN req' = ArtifactRequest /\ \A p \in ArtifactRequest : RequestHolds(p)'
  BY <1>1, <1>5, <1>7, RequestReplaced DEF ArtifactsInvariant
<1>9. QED BY <1>1, <1>4, <1>8, SharesChanged

\* Streams.
NewVersion == \E k \in 0 .. pages :
    /\ {html[i].version : i \in Rows} = 1 .. k
    /\ Versions!nextHtmlArtifactVersion = k + 1

LEMMA NextVersion ==
    ASSUME ArtifactTypes, VersionsNumbered PROVE NewVersion
<1>1. PICK k \in 0 .. pages : {html[i].version : i \in Rows} = 1 .. k BY DEF VersionsNumbered
<1>2. {html[i].version : i \in Versions!Row} \cup {0} = 0 .. k BY <1>1 DEF Versions!Row, Rows, ArtifactTypes
<1>3. Versions!Max(0 .. k) = k
  <2>1. k \in 0 .. k /\ \A n \in 0 .. k : k >= n BY DEF ArtifactTypes
  <2>2. QED BY <2>1 DEF Versions!Max, ArtifactTypes
<1>4. QED BY <1>1, <1>2, <1>3 DEF NewVersion, Versions!nextHtmlArtifactVersion

LEMMA MaterializeKeeps ==
    ASSUME ArtifactsInvariant, NEW w \in Writer, Versions!materialize(w) PROVE ArtifactsInvariant'
<1>1. /\ UNCHANGED <<html, files, shots, shotFiles, variation, jobs, exports, shares, req, background, early>>
      /\ pages' = pages + 1 /\ pages < MaxPages /\ ArtifactTypes /\ writer[w] = Versions!Idle
      /\ overlapped' \in BOOLEAN /\ (overlapped => overlapped')
  BY DEF Versions!materialize, Versions!files_, ArtifactsInvariant, ArtifactTypes
<1>2. Grown BY <1>1 DEF Grown, ArtifactTypes, Rows
<1>3. PICK n : n = Versions!nextHtmlArtifactVersion OBVIOUS
<1>4. PICK k \in 0 .. pages : {html[i].version : i \in Rows} = 1 .. k /\ n = k + 1
  BY <1>1, <1>3, NextVersion DEF NewVersion, ArtifactsInvariant
<1>5. PICK state : state = [pc |-> "put", version |-> n, page |-> pages + 1] OBVIOUS
<1>6. /\ writer' = [writer EXCEPT ![w] = state] BY <1>3, <1>5 DEF Versions!materialize
<1>7. state.pc = "put" /\ state.version = n /\ state.page = pages + 1 BY <1>5
<1>8. writer'[w] = state /\ (\A o \in Writer \ {w} : writer'[o] = writer[o]) /\ DOMAIN writer' = Writer
  BY <1>1, <1>6 DEF ArtifactTypes
<1>9. ArtifactTypes'
  <2>1. pages' \in 0 .. MaxPages BY <1>1, RecordsAssumption DEF ArtifactTypes, Versions!Assumptions
  <2>2. QED BY <1>1, <1>8, <2>1 DEF ArtifactTypes, Rows
<1>10. VersionsNumbered'
  <2>1. Rows' = Rows /\ {html'[i].version : i \in Rows'} = 1 .. k BY <1>1, <1>4 DEF Rows
  <2>2. PICK m \in 0 .. pages :
          /\ {html[i].version : i \in Rows} = 1 .. m
          /\ \A o \in Writer : writer[o].pc = "put" =>
                 writer[o].version \in 1 .. (m + 1) /\ writer[o].version <= pages
    BY DEF VersionsNumbered, ArtifactsInvariant
  <2>3. m = k
    <3>1. 1 .. m = 1 .. k BY <1>4, <2>2
    <3>2. QED BY <3>1 DEF ArtifactTypes
  <2>4. k \in 0 .. pages' BY <1>1 DEF ArtifactTypes
  <2>5. ASSUME NEW o \in Writer, writer'[o].pc = "put"
        PROVE  writer'[o].version \in 1 .. (k + 1) /\ writer'[o].version <= pages'
    <3>1. CASE o = w BY <3>1, <1>1, <1>4, <1>7, <1>8 DEF ArtifactTypes
    <3>2. CASE o # w BY <3>2, <2>5, <1>1, <1>8, <2>2, <2>3 DEF ArtifactTypes
    <3>3. QED BY <3>1, <3>2
  <2>6. QED BY <2>1, <2>4, <2>5 DEF VersionsNumbered
<1>11. FilesApart'
  <2>1. SUFFICES ASSUME ~overlapped'
        PROVE  /\ \A v, o \in Writer :
                     writer'[v] # Versions!Idle /\ writer'[o] # Versions!Idle => v = o
               /\ \A v \in Writer : writer'[v].pc = "put" => writer'[v].version = Len(html) + 1
    BY <1>1, <2>1 DEF FilesApart, ArtifactsInvariant, Rows
  <2>2. Versions!Others(w) = {} BY <2>1 DEF Versions!materialize
  <2>3. \A o \in Writer \ {w} : writer'[o] = Versions!Idle BY <1>8, <2>2 DEF Versions!Others
  <2>4. n = Len(html) + 1
    <3>1. \A i \in Rows : html[i].version = i BY <1>1, <2>1 DEF FilesApart, ArtifactsInvariant
    <3>2. {html[i].version : i \in Rows} = Rows BY <3>1
    <3>3. Len(html) \in Nat BY <1>1 DEF ArtifactTypes
    <3>4. 1 .. k = 1 .. Len(html) BY <1>4, <3>2 DEF Rows
    <3>5. k = Len(html) BY <1>1, <3>3, <3>4 DEF ArtifactTypes
    <3>6. QED BY <1>4, <3>5
  <2>5. Versions!Idle.pc # "put" BY DEF Versions!Idle
  <2>6. QED BY <1>7, <1>8, <2>3, <2>4, <2>5
<1>12. \A o \in Writer : WriterHolds(o)'
  <2>1. WriterHolds(w)' BY <1>1, <1>7, <1>8 DEF WriterHolds, ArtifactTypes
  <2>2. QED BY <1>1, <1>2, <1>8, <2>1, WriterStill DEF ArtifactsInvariant
<1>13. QED BY <1>1, <1>2, <1>9, <1>10, <1>11, <1>12, ExportsStill, RequestsStill, SharesStill,
              ScreenshotsStill, ShowsStill, BackgroundStill
       DEF ArtifactsInvariant

\* A stream ends, or goes on with a version that has a row.
LEMMA StreamGoesOn ==
    ASSUME ArtifactsInvariant, Grown, Len(html') = Len(html), UNCHANGED <<files, shots, shotFiles, overlapped, pages>>,
           NEW w \in Writer, NEW state, writer' = [writer EXCEPT ![w] = state],
           state.pc # "put", writer[w] # Versions!Idle, DOMAIN req' = ArtifactRequest
    PROVE  /\ ArtifactTypes' /\ VersionsNumbered' /\ FilesApart'
           /\ writer'[w] = state /\ (WriterHolds(w)' => \A o \in Writer : WriterHolds(o)')
<1>1. ArtifactTypes /\ Rows' = Rows BY DEF ArtifactsInvariant, Rows
<1>2. writer'[w] = state /\ (\A o \in Writer \ {w} : writer'[o] = writer[o]) /\ DOMAIN writer' = Writer
  BY <1>1 DEF ArtifactTypes
<1>3. ArtifactTypes' BY <1>1, <1>2 DEF ArtifactTypes, Grown
<1>4. {html'[i].version : i \in Rows'} = {html[i].version : i \in Rows} BY <1>1 DEF Grown
<1>5. VersionsNumbered' BY <1>2, <1>4 DEF VersionsNumbered, ArtifactsInvariant
<1>6. FilesApart'
  <2>1. shots \subseteq Rows BY <1>1 DEF ArtifactTypes
  <2>2. QED BY <1>1, <1>2, <2>1 DEF FilesApart, Grown, ArtifactsInvariant
<1>7. ASSUME WriterHolds(w)' PROVE \A o \in Writer : WriterHolds(o)'
  BY <1>1, <1>2, <1>7, WriterStill DEF ArtifactsInvariant
<1>8. QED BY <1>2, <1>3, <1>5, <1>6, <1>7

LEMMA CutOffKeeps ==
    ASSUME ArtifactsInvariant, NEW w \in Writer, Versions!cutOff(w) PROVE ArtifactsInvariant'
<1>1. /\ PagesLeft /\ UNCHANGED <<variation, jobs, exports, shares, req>>
      /\ writer' = [writer EXCEPT ![w] = Versions!Idle] /\ writer[w] # Versions!Idle
      /\ Grown /\ Len(html') = Len(html) /\ ArtifactTypes /\ Shows(variation)'
  BY PagesLeftGrown DEF Versions!cutOff, Versions!Ask, Versions!files_, PagesLeft, ArtifactsInvariant
<1>2. PICK idle : idle = Versions!Idle OBVIOUS
<1>3. idle.pc # "put" BY <1>2 DEF Versions!Idle
<1>4. writer' = [writer EXCEPT ![w] = idle] BY <1>1, <1>2
<1>5. /\ ArtifactTypes' /\ VersionsNumbered' /\ FilesApart'
      /\ writer'[w] = idle /\ (WriterHolds(w)' => \A o \in Writer : WriterHolds(o)')
  BY <1>1, <1>3, <1>4, StreamGoesOn DEF PagesLeft, ArtifactTypes
<1>6. WriterHolds(w)' BY <1>2, <1>5 DEF WriterHolds
<1>7. BackgroundHolds' BY <1>1, BackgroundStill DEF PagesLeft, ArtifactsInvariant
<1>8. QED BY <1>1, <1>5, <1>6, <1>7, ExportsStill, RequestsStill, SharesStill, ScreenshotsStill
      DEF ArtifactsInvariant

LEMMA AssetsKeep ==
    ASSUME ArtifactsInvariant, NEW w \in Writer, Versions!createAssets(w) PROVE ArtifactsInvariant'
<1>1. /\ UNCHANGED <<files, shots, shotFiles, variation, exports, shares, req>>
      /\ UNCHANGED <<background, early, overlapped, pages>>
      /\ writer[w].pc = "assets" /\ ArtifactTypes /\ WriterHolds(w) /\ Shows(variation)
  BY DEF Versions!createAssets, Versions!spent, ArtifactsInvariant
<1>2. writer[w] # Versions!Idle BY <1>1 DEF Versions!Idle
<1>3. PICK i \in Rows : i = writer[w].row BY <1>1, <1>2 DEF WriterHolds
<1> PICK t : t = TRUE OBVIOUS
<1>4. PICK h : h = [html[i] EXCEPT !.whole = t] /\ html' = [html EXCEPT ![i] = h]
  BY <1>3 DEF Versions!createAssets
<1>5. /\ h \in HtmlRow /\ h.version = html[i].version /\ h.page = html[i].page /\ h.whole
  BY <1>1, <1>3, <1>4, RowTyped DEF HtmlRow
<1>6. html' \in Seq(HtmlRow) /\ Len(html') = Len(html) BY <1>1, <1>4, <1>5 DEF ArtifactTypes, Rows
<1>7. ASSUME NEW r \in Rows
      PROVE  /\ html'[r].version = html[r].version /\ html'[r].page = html[r].page
             /\ html[r].whole => html'[r].whole
  BY <1>1, <1>4, <1>5 DEF ArtifactTypes, Rows
<1>8. Grown BY <1>1, <1>6, <1>7 DEF Grown, ArtifactTypes
<1>9. PICK state : state = [pc |-> "publish", row |-> i, seen |-> variation] OBVIOUS
<1>10. state.pc = "publish" /\ state.row = i /\ state.seen = variation BY <1>9
<1>11. writer' = [writer EXCEPT ![w] = state] BY <1>1, <1>3, <1>9 DEF Versions!createAssets, ArtifactTypes
<1>12. /\ ArtifactTypes' /\ VersionsNumbered' /\ FilesApart'
       /\ writer'[w] = state /\ (WriterHolds(w)' => \A o \in Writer : WriterHolds(o)')
  BY <1>1, <1>2, <1>6, <1>8, <1>10, <1>11, StreamGoesOn DEF ArtifactTypes
<1>13. Shows(variation)' /\ Shows(state.seen)' BY <1>1, <1>8, <1>10, ShowsStill
<1>14. html'[i].whole BY <1>1, <1>4, <1>5 DEF ArtifactTypes, Rows
<1>15. WriterHolds(w)' BY <1>6, <1>10, <1>12, <1>13, <1>14 DEF WriterHolds, Rows
<1>16. \A k \in DOMAIN jobs' : ScreenshotHolds(k)'
  <2>1. Versions!Enqueue(i, "created") BY <1>3 DEF Versions!createAssets
  <2>2. \A k \in DOMAIN jobs : ScreenshotHolds(k) BY DEF ArtifactsInvariant
  <2>3. QED BY <1>1, <1>8, <2>1, <2>2, Enqueued
<1>17. QED BY <1>1, <1>8, <1>12, <1>13, <1>15, <1>16, ExportsStill, RequestsStill, SharesStill,
              BackgroundStill
       DEF ArtifactsInvariant

LEMMA PublishKeeps ==
    ASSUME ArtifactsInvariant, NEW w \in Writer, Versions!applyVariationEvent(w) PROVE ArtifactsInvariant'
<1>1. /\ PagesLeft /\ UNCHANGED <<jobs, exports, shares, req>> /\ writer[w].pc = "publish"
      /\ writer' = [writer EXCEPT ![w] = Versions!Idle] /\ WriterHolds(w) /\ Shows(variation)
      /\ Grown /\ Len(html') = Len(html) /\ ArtifactTypes
  BY PagesLeftGrown DEF Versions!applyVariationEvent, Versions!spent, Versions!files_, PagesLeft, ArtifactsInvariant
<1>2. PICK idle : idle = Versions!Idle OBVIOUS
<1>3. idle.pc # "put" /\ writer[w] # Versions!Idle BY <1>1, <1>2 DEF Versions!Idle
<1>4. writer' = [writer EXCEPT ![w] = idle] BY <1>1, <1>2
<1>5. /\ ArtifactTypes' /\ VersionsNumbered' /\ FilesApart'
      /\ writer'[w] = idle /\ (WriterHolds(w)' => \A o \in Writer : WriterHolds(o)')
  BY <1>1, <1>3, <1>4, StreamGoesOn DEF PagesLeft, ArtifactTypes
<1>6. WriterHolds(w)' BY <1>2, <1>5 DEF WriterHolds
<1>7. Shows(variation)'
  <2>1. PICK i \in Rows : i = writer[w].row /\ html[i].whole /\ Shows(writer[w].seen)
    BY <1>1, <1>3 DEF WriterHolds
  <2>2. PICK b : b = Versions!Base(writer[w].seen) OBVIOUS
  <2>3. Shows(b) BY <1>1, <2>1, <2>2, BaseShows
  <2>4. Shows([b EXCEPT !.current = i]) BY <2>1, <2>3, MadeCurrent DEF Handed
  <2>5. variation' = [b EXCEPT !.current = i] BY <2>1, <2>2 DEF Versions!applyVariationEvent
  <2>6. PICK v : v = variation' OBVIOUS
  <2>7. Shows(v)' BY <1>1, <2>4, <2>5, <2>6, ShowsStill
  <2>8. QED BY <2>6, <2>7 DEF Shows, Handed
<1>8. BackgroundHolds' BY <1>1, BackgroundStill DEF PagesLeft, ArtifactsInvariant
<1>9. QED BY <1>1, <1>5, <1>6, <1>7, <1>8, ExportsStill, RequestsStill, SharesStill, ScreenshotsStill
      DEF ArtifactsInvariant

\* The call of a flawed page makes it current, complete or not.
LEMMA LandKeeps ==
    ASSUME ArtifactsInvariant, Versions!landInBackground PROVE ArtifactsInvariant'
<1>1. /\ UNCHANGED <<html, files, shots, shotFiles, jobs, exports, shares, writer, req, overlapped, pages>>
      /\ ArtifactTypes /\ BackgroundHolds
  BY DEF Versions!landInBackground, Versions!files_, Versions!spent, ArtifactsInvariant
<1>2. PICK c \in background :
        /\ background' = background \ {c} /\ variation' = [c.seen EXCEPT !.current = c.row]
        /\ early' = IF html[c.row].whole THEN early ELSE early \cup {c.row}
  BY DEF Versions!landInBackground, Versions!MaybeEarly
<1>3. PICK i \in Rows : i = c.row /\ Shows(c.seen) BY <1>1 DEF BackgroundHolds
<1>4. Grown BY <1>1, <1>2 DEF Grown, ArtifactTypes, Rows
<1>5. Shows(variation)'
  <2>1. html'[i].whole \/ i \in early' BY <1>1, <1>2, <1>3
  <2>2. variation' \in [current : Nat, shot : Nat] /\ variation'.current = i
    BY <1>2, <1>3 DEF Shows, Rows
  <2>3. QED BY <1>1, <2>1, <2>2 DEF Shows, Rows, Handed
<1>6. ArtifactTypes' /\ FilesApart' BY <1>1 DEF ArtifactTypes, FilesApart, ArtifactsInvariant, Rows
<1>7. VersionsNumbered' /\ \A w \in Writer : WriterHolds(w)' BY <1>1, <1>4, VersionsStill
<1>8. BackgroundHolds' BY <1>1, <1>2, <1>4, BackgroundStill
<1>9. QED BY <1>1, <1>4, <1>5, <1>6, <1>7, <1>8, RequestsStill, SharesStill, ScreenshotsStill, ExportsStill
      DEF ArtifactsInvariant

\* A page that has just been given its row, and the call that may come with it.
LEMMA RowMayBeCurrent ==
    ASSUME Grown, ArtifactTypes, Shows(variation), BackgroundHolds, NEW i \in Rows',
           \/ UNCHANGED <<variation, background, early>>
           \/ Versions!CallInBackground(i)
    PROVE  Shows(variation)' /\ BackgroundHolds'
<1>1. CASE UNCHANGED <<variation, background, early>>
  BY <1>1, ShowsStill, BackgroundStill
<1>2. CASE store = "memory" /\ Versions!CallInBackground(i)
  <2>1. /\ variation' = [variation EXCEPT !.current = i] /\ i \in early'
        /\ UNCHANGED background
    BY <1>2 DEF Versions!CallInBackground
  <2>2. variation' \in [current : Nat, shot : Nat] /\ variation'.current = i
    BY <2>1 DEF Shows, Rows
  <2>3. Shows(variation)' BY <2>1, <2>2 DEF Shows, Rows, Handed
  <2>4. QED BY <2>1, <2>3, BackgroundStill
<1>3. CASE store # "memory" /\ Versions!CallInBackground(i)
  <2>1. PICK new : new = [row |-> i, seen |-> variation] OBVIOUS
  <2>2. background' = background \cup {new} /\ UNCHANGED variation
    BY <1>3, <2>1 DEF Versions!CallInBackground
  <2>3. new.row = i /\ new.seen = variation BY <2>1
  <2>4. Shows(variation)' /\ Shows(new.seen)' BY <2>2, <2>3, ShowsStill
  <2>5. ASSUME NEW c \in background PROVE c.row \in Rows' /\ Shows(c.seen)'
    BY <2>5, ShowsStill, HandedStill DEF BackgroundHolds
  <2>6. QED BY <2>2, <2>3, <2>4, <2>5 DEF BackgroundHolds
<1>4. QED BY <1>1, <1>2, <1>3

\* The entry page is stored: its file, then its row, unless the version has one.
LEMMA HtmlKept ==
    ASSUME ArtifactsInvariant, NEW w \in Writer, Versions!createHtmlArtifact(w) PROVE ArtifactsInvariant'
<1> DEFINE v == writer[w].version
           p == writer[w].page
<1>1. /\ UNCHANGED <<shots, shotFiles, jobs, exports, shares, req, overlapped, pages>>
      /\ early \subseteq early' /\ BackgroundHolds
      /\ writer[w].pc = "put" /\ ArtifactTypes /\ WriterHolds(w) /\ Shows(variation)
      /\ files' = [files EXCEPT ![v] = p]
  BY DEF Versions!createHtmlArtifact, Versions!CallInBackground, Versions!Ask, Versions!spent, ArtifactsInvariant
<1>2. writer[w] # Versions!Idle /\ p \in Nat BY <1>1 DEF Versions!Idle, WriterHolds
<1>3. PICK k \in 0 .. pages :
        /\ {html[i].version : i \in Rows} = 1 .. k
        /\ \A o \in Writer : writer[o].pc = "put" =>
               writer[o].version \in 1 .. (k + 1) /\ writer[o].version <= pages
  BY DEF VersionsNumbered, ArtifactsInvariant
<1>4. v \in 1 .. (k + 1) /\ v <= pages /\ v \in 1 .. MaxPages
  BY <1>1, <1>3, RecordsAssumption DEF ArtifactTypes, Versions!Assumptions
<1>5. files' \in [1 .. MaxPages -> Nat] BY <1>1, <1>2, <1>4 DEF ArtifactTypes
<1>6. CASE html' = html /\ writer' = [writer EXCEPT ![w] = Versions!Idle]
             /\ \E i \in Rows : html[i].version = v
             /\ UNCHANGED <<variation, background, early>>
  <2>1. Grown /\ Len(html') = Len(html) BY <1>1, <1>6 DEF Grown, ArtifactTypes, Rows
  <2>2. writer'[w] = Versions!Idle /\ (\A o \in Writer \ {w} : writer'[o] = writer[o]) /\ DOMAIN writer' = Writer
    BY <1>1, <1>6 DEF ArtifactTypes
  <2>3. overlapped
    <3>1. ~overlapped => \A i \in Rows : html[i].version # v
      BY <1>1 DEF FilesApart, ArtifactsInvariant, Rows, ArtifactTypes
    <3>2. QED BY <1>6, <3>1
  <2>4. ArtifactTypes' /\ FilesApart'
    BY <1>1, <1>5, <1>6, <2>2, <2>3 DEF ArtifactTypes, FilesApart, Rows
  <2>5. VersionsNumbered'
    <3>1. \A o \in Writer : writer'[o].pc = "put" => writer'[o] = writer[o]
      BY <2>2 DEF Versions!Idle
    <3>2. QED BY <1>1, <1>3, <1>6, <3>1 DEF VersionsNumbered, Rows
  <2>6. \A o \in Writer : WriterHolds(o)'
    BY <1>1, <2>1, <2>2, WriterStill DEF ArtifactsInvariant, WriterHolds
  <2>7. QED BY <1>1, <1>6, <2>1, <2>4, <2>5, <2>6, ExportsStill, RequestsStill, SharesStill,
               ScreenshotsStill, ShowsStill, BackgroundStill DEF ArtifactsInvariant
<1>7. CASE /\ html' = Append(html, [version |-> v, page |-> p, whole |-> FALSE, failed |-> FALSE])
           /\ writer' = [writer EXCEPT ![w] = [pc |-> "assets", row |-> Len(html) + 1]]
           /\ \/ UNCHANGED <<variation, background, early>>
              \/ Versions!CallInBackground(Len(html) + 1)
  <2> PICK f \in BOOLEAN : html' = Append(html, [version |-> v, page |-> p, whole |-> f, failed |-> f])
    BY <1>7
  <2>1. PICK h : h = [version |-> v, page |-> p, whole |-> f, failed |-> f] /\ html' = Append(html, h)
    OBVIOUS
  <2>2. h \in HtmlRow /\ h.version = v /\ h.page = p BY <1>2, <1>4, <2>1 DEF HtmlRow
  <2>3. /\ html' \in Seq(HtmlRow) /\ Len(html') = Len(html) + 1 /\ html'[Len(html) + 1] = h
        /\ \A i \in Rows : html'[i] = html[i]
        /\ Rows' = Rows \cup {Len(html) + 1} /\ Len(html) \in Nat
    BY <1>1, <2>1, <2>2 DEF ArtifactTypes, Rows
  <2>4. Grown
    <3>1. Len(html) <= Len(html') BY <2>3
    <3>2. \A i \in Rows : html'[i] = html[i] BY <2>3
    <3>3. QED BY <1>1, <2>3, <3>1, <3>2 DEF Grown
  <2>5. PICK state : state = [pc |-> "assets", row |-> Len(html) + 1] OBVIOUS
  <2>6. state.pc = "assets" /\ state.row = Len(html) + 1 /\ writer' = [writer EXCEPT ![w] = state]
    BY <1>7, <2>5
  <2>7. writer'[w] = state /\ (\A o \in Writer \ {w} : writer'[o] = writer[o]) /\ DOMAIN writer' = Writer
    BY <1>1, <2>6 DEF ArtifactTypes
  <2>8. ArtifactTypes' BY <1>1, <1>5, <2>3, <2>7 DEF ArtifactTypes
  <2>9. VersionsNumbered'
    <3>1. PICK m \in 0 .. pages : (1 .. k) \cup {v} = 1 .. m /\ k <= m
      <4>1. CASE v = k + 1
        <5>1. (1 .. k) \cup {v} = 1 .. (k + 1) BY <4>1, <1>3 DEF ArtifactTypes
        <5>2. k + 1 \in 0 .. pages BY <4>1, <1>1, <1>4 DEF ArtifactTypes
        <5>3. QED BY <5>1, <5>2
      <4>2. CASE v # k + 1
        <5>1. (1 .. k) \cup {v} = 1 .. k BY <4>2, <1>3, <1>4 DEF ArtifactTypes
        <5>2. QED BY <5>1
      <4>3. QED BY <4>1, <4>2
    <3>2. {html'[i].version : i \in Rows'} = {html[i].version : i \in Rows} \cup {v}
      BY <2>2, <2>3
    <3>3. \A o \in Writer : writer'[o].pc = "put" =>
             writer'[o].version \in 1 .. (m + 1) /\ writer'[o].version <= pages'
      BY <1>1, <1>3, <2>6, <2>7, <3>1 DEF ArtifactTypes
    <3>4. QED BY <1>1, <1>3, <3>1, <3>2, <3>3 DEF VersionsNumbered
  <2>10. FilesApart'
    <3>1. SUFFICES ASSUME ~overlapped
          PROVE  /\ \A u, o \in Writer :
                      writer'[u] # Versions!Idle /\ writer'[o] # Versions!Idle => u = o
                 /\ \A o \in Writer : writer'[o].pc = "put" => writer'[o].version = Len(html') + 1
                 /\ \A i \in Rows' : html'[i].version = i /\ files'[i] = html'[i].page
                 /\ \A s \in shots : shotFiles[s] = html'[s].page
      BY <1>1, <3>1 DEF FilesApart
    <3>2. /\ \A o \in Writer : writer[o] # Versions!Idle => o = w
          /\ v = Len(html) + 1 /\ \A i \in Rows : html[i].version = i /\ files[i] = html[i].page
      BY <1>1, <1>2, <3>1 DEF FilesApart, ArtifactsInvariant
    <3>3. \A o \in Writer : writer'[o] # Versions!Idle => o = w BY <2>7, <3>2
    <3>4. \A o \in Writer : writer'[o].pc = "put" => o = w BY <3>3 DEF Versions!Idle
    <3>5. files'[v] = p BY <1>1, <1>4 DEF ArtifactTypes
    <3>6. \A i \in Rows : files'[i] = files[i] BY <1>1, <3>2 DEF ArtifactTypes, Rows
    <3>7. shots \subseteq Rows /\ \A s \in shots : shotFiles[s] = html[s].page
      BY <1>1, <3>1 DEF ArtifactTypes, FilesApart, ArtifactsInvariant
    <3>8. \A i \in Rows' : html'[i].version = i /\ files'[i] = html'[i].page
      BY <2>2, <2>3, <3>2, <3>5, <3>6
    <3>9. \A s \in shots : shotFiles[s] = html'[s].page BY <2>3, <3>7
    <3>10. \A o \in Writer : writer'[o].pc = "put" => writer'[o].version = Len(html') + 1
      BY <2>6, <2>7, <3>4
    <3>11. QED BY <3>3, <3>8, <3>9, <3>10
  <2>11. \A o \in Writer : WriterHolds(o)'
    <3>1. WriterHolds(w)' BY <2>3, <2>6, <2>7 DEF WriterHolds, Rows
    <3>2. QED BY <1>1, <2>4, <2>7, <3>1, WriterStill DEF ArtifactsInvariant
  <2>12. Shows(variation)' /\ BackgroundHolds'
    <3>1. Len(html) + 1 \in Rows' BY <2>3
    <3>2. QED BY <1>1, <1>7, <2>4, <3>1, RowMayBeCurrent
  <2>13. QED BY <1>1, <2>4, <2>8, <2>9, <2>10, <2>11, <2>12, ExportsStill, RequestsStill, SharesStill,
                ScreenshotsStill DEF ArtifactsInvariant
<1>8. QED BY <1>6, <1>7 DEF Versions!createHtmlArtifact, Versions!Refused, Versions!Row, Rows

LEMMA ArtifactsBegin == Versions!Init => ArtifactsInvariant
<1> SUFFICES ASSUME Versions!Init PROVE ArtifactsInvariant OBVIOUS
<1>1. html = <<>> /\ Rows = {}
  <2>1. html = <<>> BY DEF Versions!Init
  <2>2. QED BY <2>1 DEF Rows
<1>2. ArtifactTypes
  <2>1. MaxPages \in Nat BY RecordsAssumption DEF Versions!Assumptions
  <2>2. /\ files \in [1 .. MaxPages -> Nat] /\ shotFiles \in [1 .. MaxPages -> Nat]
        /\ DOMAIN writer = Writer /\ DOMAIN req = ArtifactRequest
    BY DEF Versions!Init
  <2>3. html \in Seq(HtmlRow) /\ shots \subseteq Rows BY <1>1 DEF Versions!Init
  <2>4. overlapped = FALSE BY DEF Versions!Init
  <2>5. pages \in 0 .. MaxPages
    <3>1. pages = 0 BY DEF Versions!Init
    <3>2. QED BY <2>1, <3>1
  <2>6. QED BY <2>2, <2>3, <2>4, <2>5 DEF ArtifactTypes
<1>3. Versions!Idle.pc = "idle" BY DEF Versions!Idle
<1>4. writer = [w \in Writer |-> Versions!Idle] BY DEF Versions!Init
<1>5. VersionsNumbered
  <2>1. {html[i].version : i \in Rows} = 1 .. 0 BY <1>1
  <2>2. pages = 0 /\ 0 \in 0 .. pages BY DEF Versions!Init
  <2>3. \A w \in Writer : writer[w].pc # "put" BY <1>3, <1>4
  <2>4. QED BY <2>1, <2>2, <2>3 DEF VersionsNumbered
<1>6. Shows(variation) BY <1>1 DEF Versions!Init, Shows
<1>7. /\ \A w \in Writer : WriterHolds(w)
      /\ \A q \in ArtifactRequest : RequestHolds(q)
  BY DEF Versions!Init, WriterHolds, RequestHolds
<1>8. \A k \in DOMAIN jobs : ScreenshotHolds(k) BY DEF Versions!Init
<1>9. SharesHold BY DEF Versions!Init, SharesHold
<1>10. FilesApart BY <1>1, <1>3 DEF Versions!Init, FilesApart
<1>11. Versions!ExportsWhole BY DEF Versions!Init, Versions!ExportsWhole
<1>12. BackgroundHolds BY DEF Versions!Init, BackgroundHolds
<1>13. QED BY <1>2, <1>5, <1>6, <1>7, <1>8, <1>9, <1>10, <1>11, <1>12 DEF ArtifactsInvariant

LEMMA ArtifactsStep == ArtifactsInvariant /\ [Versions!Next]_(Versions!vars) => ArtifactsInvariant'
<1> SUFFICES ASSUME ArtifactsInvariant, [Versions!Next]_(Versions!vars) PROVE ArtifactsInvariant' OBVIOUS
<1>1. CASE UNCHANGED Versions!vars
  <2>1. /\ PagesLeft /\ UNCHANGED <<writer, req, jobs, shares, variation, exports>> /\ ArtifactTypes
        /\ Grown /\ Shows(variation)'
    BY <1>1, PagesLeftGrown DEF Versions!vars, Versions!files_, PagesLeft, ArtifactsInvariant
  <2>2. QED BY <2>1, StreamsLeft, ExportsStill, RequestsStill, SharesStill, ScreenshotsStill
        DEF ArtifactsInvariant, ArtifactTypes
<1>2. CASE Versions!Next
  <2>1. CASE \E k \in DOMAIN jobs : Versions!render(k) \/ Versions!renderFails(k)
                                    \/ Versions!KeepShot(k) \/ Versions!attachShot(k)
    BY <2>1, RenderKeeps, RenderFailsKeeps, KeepShotKeeps, AttachKeeps
  <2>2. CASE \E w \in Writer : \/ Versions!materialize(w) \/ Versions!createHtmlArtifact(w)
                               \/ Versions!createAssets(w) \/ Versions!applyVariationEvent(w)
                               \/ Versions!cutOff(w)
    BY <2>2, MaterializeKeeps, HtmlKept, AssetsKeep, PublishKeeps, CutOffKeeps
  <2>3. CASE \E q \in ArtifactRequest :
               \/ Versions!askRestore(q) \/ Versions!restoreVariationVersion(q)
               \/ Versions!askRepair(q) \/ Versions!repairVariationPreview(q)
               \/ Versions!exportVariation(q) \/ Versions!repairExport(q)
               \/ Versions!createArtifactExportZip(q)
               \/ Versions!listSharesForArtifact(q) \/ Versions!revokeShares(q)
    BY <2>3, AskRestoreKeeps, RestoreKeeps, AskRepairKeeps, ExportKeeps, ZipKeeps, ListKeeps, RevokeSharesKeeps
  <2>4. CASE \/ Versions!landInBackground \/ Versions!rebuildScreenshot
             \/ Versions!shareVariation \/ Versions!revokeShare
    BY <2>4, LandKeeps, RebuildKeeps, ShareKeeps, RevokeKeeps
  <2>5. QED BY <1>2, <2>1, <2>2, <2>3, <2>4 DEF Versions!Next
<1>3. QED BY <1>1, <1>2

\* Versions keep their files, and archives are whole unless of a version made current early.
THEOREM VersionsKeepTheirFiles == Versions!Spec => [](Versions!VersionsStayApart /\ Versions!ExportsWhole)
<1>1. ArtifactsInvariant => Versions!VersionsStayApart /\ Versions!ExportsWhole
  <2> SUFFICES ASSUME ArtifactsInvariant, ~overlapped
               PROVE  /\ \A i \in Rows : files[html[i].version] = html[i].page
                      /\ \A s \in shots : shotFiles[html[s].version] = html[s].page
                      /\ \A s \in DOMAIN shares : files[html[shares[s].row].version] = shares[s].page
    BY DEF Versions!VersionsStayApart, Versions!Row, Rows, ArtifactsInvariant
  <2>1. shots \subseteq Rows BY DEF ArtifactsInvariant, ArtifactTypes
  <2>2. QED BY <2>1 DEF ArtifactsInvariant, FilesApart, SharesHold
<1>2. QED BY <1>1, ArtifactsBegin, ArtifactsStep, PTL DEF Versions!Spec

\* The artifacts of an execution of Records are an execution of Artifacts.
LEMMA RecordsImplement == RecordsSpec => Versions!Spec
<1>1. RecordsInit => Versions!Init BY DEF RecordsInit
<1>2. [RecordsNext]_recordsVars => [Versions!Next]_(Versions!vars)
  BY DEF RecordsNext, recordsVars, artifactVars, Versions!vars
<1>3. QED BY <1>1, <1>2, PTL DEF RecordsSpec, Versions!Spec

\* While no two streams overlap every version keeps the page it was created with,
\* whatever is restored, refined, rendered or shared (artifactApplicationService.ts).
THEOREM FilesAreKept == RecordsSpec => []VersionsStayApart
<1>1. Versions!VersionsStayApart => VersionsStayApart BY DEF VersionsStayApart
<1>2. QED BY <1>1, RecordsImplement, VersionsKeepTheirFiles, PTL

\* An archive that a client is handed has the assets of its page, with any streams at once
\* and any background calls late, unless the page was restored before it had them or its
\* quality made it current at once (artifactOperations.ts; service.ts,
\* publishAutomationLoopEventsForArtifact).
THEOREM ArchivesAreWhole == RecordsSpec => []ExportsWhole
<1>1. Versions!ExportsWhole => ExportsWhole BY DEF ExportsWhole
<1>2. QED BY <1>1, RecordsImplement, VersionsKeepTheirFiles, PTL
=============================================================================
