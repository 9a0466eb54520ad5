----------------------------- MODULE Streams_proofs ----------------------------
(***************************************************************************)
(* Proofs about the two streams of a generation: BabelOGateway, for any    *)
(* set of variations and any bounds on concurrency and reconnects, and     *)
(* JobStream within Streams, for any job and any bounds of the page.       *)
(***************************************************************************)
EXTENDS Streams, FiniteSetTheorems, SequenceTheorems, WellFoundedInduction, TLAPS

-----------------------------------------------------------------------------
(* The inductive invariant.                                                *)

\* Whether a generator has given up the stream or come to its end.
Over(a) == phase[a] \in {"reporting", "done"}

Types ==
    /\ job \in {"idle", "merging", "over", "stopped"}
    /\ phase \in [Agent -> Phase]
    /\ offer \in [Agent -> {"none", "queued", "assigned"} \cup Terminal]
    /\ attempt \in [Agent -> 0 .. ReconnectAttempts]
    /\ seen \in [Agent -> Nat]
    /\ connected \in [Agent -> BOOLEAN]
    /\ written \in [Agent -> Seq({"assigned"} \cup Terminal)]
    /\ ended \in [Agent -> BOOLEAN] /\ waitStarted \in [Agent -> BOOLEAN]
    /\ verdicts \in [Agent -> Seq(Terminal)]
    /\ cancelRequested \in BOOLEAN /\ told \in BOOLEAN /\ dropped \in BOOLEAN
    /\ cancelCall \in {"none", "asking", "accepted", "refused"}

\* The adapter assigns a lane before it writes more than a refusal, and nothing
\* after a result; the client reads what was written.
LogsWellFormed == \A a \in Agent :
    /\ Len(written[a]) <= 3
    /\ Len(written[a]) > 1 => written[a][1] = "assigned"
    /\ \A i \in 1 .. Len(written[a]) : written[a][i] = "completed" => i = Len(written[a])
    /\ seen[a] <= Len(written[a])

\* An outcome was read, or is the failure with which the generator gives up.
VerdictsRead == \A a \in Agent :
    /\ Len(verdicts[a]) <= seen[a] + IF Over(a) THEN 1 ELSE 0
    /\ seen[a] > 0 /\ written[a][1] = "assigned" =>
            Len(verdicts[a]) < seen[a] + IF Over(a) THEN 1 ELSE 0

\* A result that was yielded is the last line that was read.
CompletedOnce == \A a \in Agent :
    /\ \A i, j \in 1 .. Len(verdicts[a]) :
            verdicts[a][i] = "completed" /\ verdicts[a][j] = "completed" => i = j
    /\ (\E i \in 1 .. Len(verdicts[a]) : verdicts[a][i] = "completed") =>
            \E j \in 1 .. seen[a] : written[a][j] = "completed"

\* A variation ends with an outcome; none starts before or without the merge,
\* and the job is over when all have ended.
VariationsHeard ==
    /\ \A v \in Variation : Over(v) => verdicts[v] # <<>>
    /\ job = "idle" => \A v \in Variation : phase[v] = "queued"
    /\ job = "over" => \/ \A v \in Variation : phase[v] = "queued"
                       \/ \A v \in Variation : phase[v] = "done"

GatewayInvariant ==
    Types /\ LogsWellFormed /\ VerdictsRead /\ CompletedOnce /\ VariationsHeard

-----------------------------------------------------------------------------
(* What a step of a generator does to its agent.                           *)

GivesUp(a) ==
    /\ seen'[a] = seen[a] /\ phase'[a] = "reporting"
    /\ verdicts'[a] = Append(verdicts[a], "failed")

GoesOn(a) ==
    /\ seen'[a] \in seen[a] .. seen[a] + 1 /\ seen'[a] <= Len(written[a])
    /\ verdicts'[a] = verdicts[a]
    /\ Over(a)' => a = Refine \/ verdicts[a] # <<>>

Hears(a) ==
    /\ seen'[a] = seen[a] + 1 /\ seen[a] < Len(written[a]) /\ ~Over(a)'
    /\ written[a][seen'[a]] \in Terminal
    /\ verdicts'[a] = Append(verdicts[a], written[a][seen'[a]])

Alone(a) == \A b \in Agent \ {a} :
    phase'[b] = phase[b] /\ seen'[b] = seen[b] /\ verdicts'[b] = verdicts[b]

\* A generator that only moves on, to a phase that is no end of it.
LEMMA MovesOn ==
    ASSUME Types, NEW a \in Agent, NEW p \in Phase \ {"reporting", "done"},
           phase' = [phase EXCEPT ![a] = p], UNCHANGED <<seen, verdicts>>, seen[a] <= Len(written[a])
    PROVE  phase' \in [Agent -> Phase] /\ Alone(a) /\ GoesOn(a)
BY DEF Types, Phase, Alone, GoesOn, Over

\* A generator that ends, having yielded an outcome or cancelled.
LEMMA ComesToEnd ==
    ASSUME Types, NEW a \in Agent, a = Refine \/ verdicts[a] # <<>>,
           phase' = [phase EXCEPT ![a] = "done"], UNCHANGED <<seen, verdicts>>, seen[a] <= Len(written[a])
    PROVE  phase' \in [Agent -> Phase] /\ Alone(a) /\ GoesOn(a)
BY DEF Types, Phase, Alone, GoesOn, Over

\* A failure is reported, or a cancelled refine ends.
LEMMA FailEffect ==
    ASSUME Types, NEW a \in Agent, Fail(a), UNCHANGED seen, seen[a] <= Len(written[a])
    PROVE  /\ phase' \in [Agent -> Phase]
           /\ offer' \in [Agent -> {"none", "queued", "assigned"} \cup Terminal]
           /\ verdicts' \in [Agent -> Seq(Terminal)] /\ dropped' \in BOOLEAN
           /\ Alone(a) /\ (GivesUp(a) \/ GoesOn(a))
<1>1. CASE Cancelled(a)
  <2>1. /\ phase' = [phase EXCEPT ![a] = "done"]
        /\ dropped' = (dropped \/ verdicts[a] = <<>>)
        /\ UNCHANGED <<offer, verdicts>> /\ a = Refine
    BY <1>1 DEF Fail, Cancelled
  <2>2. QED BY <2>1 DEF Types, Phase, Alone, GoesOn, Over
<1>2. CASE ~Cancelled(a)
  <2>1. /\ phase' = [phase EXCEPT ![a] = "reporting"]
        /\ offer' = [offer EXCEPT ![a] = "failed"]
        /\ verdicts' = [verdicts EXCEPT ![a] = Append(@, "failed")]
        /\ dropped' = dropped
    BY <1>2 DEF Fail, Yield, Terminal
  <2>2. QED BY <2>1 DEF Types, Phase, Terminal, Alone, GivesUp
<1>3. QED BY <1>1, <1>2

\* A broken stream is opened again or reported.
LEMMA StreamBreaksEffect ==
    ASSUME Types, NEW a \in Agent, NEW retryable \in BOOLEAN, StreamBreaks(a, retryable),
           UNCHANGED seen, seen[a] <= Len(written[a])
    PROVE  /\ phase' \in [Agent -> Phase]
           /\ offer' \in [Agent -> {"none", "queued", "assigned"} \cup Terminal]
           /\ attempt' \in [Agent -> 0 .. ReconnectAttempts]
           /\ verdicts' \in [Agent -> Seq(Terminal)] /\ dropped' \in BOOLEAN
           /\ Alone(a) /\ (GivesUp(a) \/ GoesOn(a))
<1>1. CASE Reconnects(a, retryable)
  <2>1. /\ attempt[a] < ReconnectAttempts
        /\ phase' = [phase EXCEPT ![a] = "connecting"]
        /\ attempt' = [attempt EXCEPT ![a] = @ + 1]
        /\ UNCHANGED <<offer, verdicts, dropped>>
    BY <1>1 DEF StreamBreaks, Reconnects
  <2>2. attempt' \in [Agent -> 0 .. ReconnectAttempts]
    BY <2>1, GatewayAssumption DEF Types
  <2>3. QED BY <2>1, <2>2, MovesOn DEF Types, Phase
<1>2. CASE ~Reconnects(a, retryable)
  BY <1>2, FailEffect DEF StreamBreaks, Types
<1>3. QED BY <1>1, <1>2

LEMMA GeneratorEffect ==
    ASSUME Types, LogsWellFormed, NEW a \in Agent, GeneratorStep(a)
    PROVE  /\ Types' /\ UNCHANGED <<job, written>>
           /\ phase[a] \in {"creating", "connecting", "streaming"}
           /\ Alone(a) /\ (GivesUp(a) \/ GoesOn(a) \/ Hears(a))
<1>0. seen[a] <= Len(written[a]) BY DEF LogsWellFormed
<1>1. CASE AgentCreated(a)
  <2>1. CASE Cancelled(a)
    <3>1. /\ phase[a] = "creating" /\ phase' = [phase EXCEPT ![a] = "done"]
          /\ dropped' = TRUE /\ told' \in {told, TRUE} /\ a = Refine
          /\ UNCHANGED <<job, offer, attempt, seen, connected, verdicts, adapterVars,
                         cancelRequested, cancelCall>>
      BY <1>1, <2>1 DEF AgentCreated, Cancelled
    <3>2. dropped' \in BOOLEAN /\ told' \in BOOLEAN BY <3>1 DEF Types
    <3>3. QED BY <1>0, <3>1, <3>2, ComesToEnd DEF adapterVars, Types
  <2>2. CASE ~Cancelled(a)
    <3>1. /\ phase[a] = "creating" /\ phase' = [phase EXCEPT ![a] = "connecting"]
          /\ offer' = offer \/ offer' = [offer EXCEPT ![a] = "queued"]
          /\ verdicts' = verdicts
          /\ UNCHANGED <<job, attempt, seen, connected, adapterVars, cancelRequested, cancelCall, told, dropped>>
      <4>1. verdicts' = verdicts
        BY <1>1, <2>2 DEF AgentCreated, Yield, Types, Terminal
      <4>2. QED BY <1>1, <2>2, <4>1 DEF AgentCreated, Yield
    <3>2. QED BY <1>0, <3>1 DEF adapterVars, Types, Phase, Alone, GoesOn, Over
  <2>3. QED BY <2>1, <2>2
<1>2. CASE AgentRefused(a)
  BY <1>0, <1>2, FailEffect DEF AgentRefused, adapterVars, Types
<1>3. CASE Connect(a)
  BY <1>0, <1>3 DEF Connect, handleStream, cancelVars, Types, Phase, Alone, GoesOn, Over
<1>4. CASE ConnectFails(a)
  <2>1. waitStarted' \in [Agent -> BOOLEAN] /\ phase[a] = "connecting" /\ StreamBreaks(a, TRUE)
        /\ UNCHANGED <<job, seen, connected, written, ended, cancelRequested, cancelCall, told>>
    BY <1>4 DEF ConnectFails, handleStream, Types
  <2>2. QED BY <1>0, <2>1, StreamBreaksEffect DEF Types
<1>5. CASE Receive(a)
  <2>. DEFINE event == written[a][seen[a] + 1]
  <2>0. /\ phase[a] = "streaming" /\ seen[a] < Len(written[a])
        /\ seen' = [seen EXCEPT ![a] = @ + 1]
        /\ UNCHANGED <<job, attempt, connected, adapterVars, cancelRequested, cancelCall, told>>
    BY <1>5 DEF Receive
  <2>1. event \in {"assigned"} \cup Terminal /\ seen[a] \in Nat /\ seen' \in [Agent -> Nat]
    BY <2>0 DEF Types
  <2>2. CASE Cancelled(a)
    <3>1. /\ phase' = [phase EXCEPT ![a] = "done"] /\ a = Refine
          /\ UNCHANGED <<offer, verdicts>>
          /\ dropped' = (dropped \/ verdicts[a] = <<>>)
      BY <1>5, <2>2 DEF Receive, Fail, Cancelled
    <3>2. dropped' \in BOOLEAN BY <3>1
    <3>3. Types' BY <2>0, <2>1, <3>1, <3>2 DEF Types, Phase, adapterVars
    <3>4. Alone(a) /\ GoesOn(a) BY <2>0, <2>1, <3>1 DEF Alone, GoesOn, Over, Types
    <3>5. QED BY <2>0, <3>3, <3>4 DEF adapterVars
  <2>3. CASE ~Cancelled(a)
    <3>1. /\ offer' = [offer EXCEPT ![a] = event]
          /\ verdicts' = [verdicts EXCEPT ![a] = IF event \in Terminal THEN Append(@, event) ELSE @]
          /\ UNCHANGED <<phase, dropped>>
      BY <1>5, <2>3 DEF Receive, Yield
    <3>2. Types'
      <4>1. offer' \in [Agent -> {"none", "queued", "assigned"} \cup Terminal]
        BY <2>1, <3>1 DEF Types
      <4>2. verdicts' \in [Agent -> Seq(Terminal)]
        BY <3>1 DEF Types
      <4>3. QED BY <2>0, <2>1, <3>1, <4>1, <4>2 DEF Types, adapterVars
    <3>3. Alone(a) BY <2>0, <3>1 DEF Alone, Types
    <3>4. CASE event \in Terminal
      <4>1. verdicts'[a] = Append(verdicts[a], event) BY <3>1, <3>4 DEF Types
      <4>2. Hears(a) BY <2>0, <2>1, <3>1, <3>4, <4>1 DEF Hears, Over, Types
      <4>3. QED BY <2>0, <3>2, <3>3, <4>2 DEF adapterVars
    <3>5. CASE event \notin Terminal
      <4>1. GoesOn(a) BY <2>0, <2>1, <3>1, <3>5 DEF GoesOn, Over, Types
      <4>2. QED BY <2>0, <3>2, <3>3, <4>1 DEF adapterVars
    <3>6. QED BY <3>4, <3>5
  <2>4. QED BY <2>2, <2>3
<1>6. CASE ConnectionLost(a)
  <2>1. PICK retryable \in BOOLEAN : StreamBreaks(a, retryable)
    BY <1>6 DEF ConnectionLost
  <2>2. phase[a] = "streaming" /\ connected' \in [Agent -> BOOLEAN]
        /\ UNCHANGED <<job, seen, adapterVars, cancelRequested, cancelCall, told>>
    BY <1>6 DEF ConnectionLost, Types
  <2>3. QED BY <1>0, <2>1, <2>2, StreamBreaksEffect DEF adapterVars, Types
<1>7. CASE StreamEnds(a)
  <2>0. phase[a] = "streaming"
        /\ UNCHANGED <<job, attempt, seen, connected, adapterVars, cancelRequested, cancelCall, told>>
    BY <1>7 DEF StreamEnds
  <2>1. CASE verdicts[a] = <<>> \/ Cancelled(a)
    BY <1>0, <1>7, <2>0, <2>1, FailEffect DEF StreamEnds, adapterVars, Types
  <2>2. CASE ~(verdicts[a] = <<>> \/ Cancelled(a))
    <3>1. phase' = [phase EXCEPT ![a] = "done"] /\ UNCHANGED <<offer, verdicts, dropped>>
      BY <1>7, <2>2 DEF StreamEnds
    <3>2. QED BY <1>0, <2>0, <2>2, <3>1, ComesToEnd DEF adapterVars, Types
  <2>3. QED BY <2>1, <2>2
<1>8. QED BY <1>1, <1>2, <1>3, <1>4, <1>5, <1>6, <1>7 DEF GeneratorStep

-----------------------------------------------------------------------------
(* The invariant is inductive.                                             *)

LEMMA InitInvariant == Init => GatewayInvariant
<1>. SUFFICES ASSUME Init PROVE GatewayInvariant
  OBVIOUS
<1>1. /\ job \in {"idle", "over"} /\ phase \in [Agent -> {"queued", "done"}]
      /\ \A v \in Variation : v \in Agent /\ phase[v] = "queued"
  BY GatewayAssumption DEF Init, Agent
<1>2. Types
  <2>1. verdicts \in [Agent -> Seq(Terminal)] /\ written \in [Agent -> Seq({"assigned"} \cup Terminal)]
    BY DEF Init
  <2>2. attempt \in [Agent -> 0 .. ReconnectAttempts] BY GatewayAssumption DEF Init
  <2>3. QED BY <1>1, <2>1, <2>2 DEF Init, Types, Phase
<1>3. LogsWellFormed /\ VerdictsRead /\ CompletedOnce
  BY DEF Init, LogsWellFormed, VerdictsRead, CompletedOnce
<1>4. VariationsHeard BY <1>1 DEF VariationsHeard, Over
<1>5. QED BY <1>2, <1>3, <1>4 DEF GatewayInvariant

\* An outcome is counted when it is read.
LEMMA GeneratorStepInvariant ==
    ASSUME GatewayInvariant, NEW a \in Agent, GeneratorStep(a)
    PROVE  GatewayInvariant'
<1>. USE DEF GatewayInvariant
<1>1. /\ Types' /\ UNCHANGED <<job, written>>
      /\ phase[a] \in {"creating", "connecting", "streaming"} /\ ~Over(a)
      /\ Alone(a) /\ (GivesUp(a) \/ GoesOn(a) \/ Hears(a))
  BY GeneratorEffect DEF Over
<1>2. \A b \in Agent \ {a} :
          seen'[b] = seen[b] /\ verdicts'[b] = verdicts[b] /\ Over(b)' = Over(b)
  BY <1>1 DEF Alone, Over
<1>3. /\ seen[a] \in Nat /\ verdicts[a] \in Seq(Terminal)
      /\ written[a] \in Seq({"assigned"} \cup Terminal)
  BY DEF Types
<1>4. LogsWellFormed'
  <2>1. seen'[a] <= Len(written[a])
    BY <1>1, <1>3 DEF GivesUp, GoesOn, Hears, LogsWellFormed
  <2>2. QED BY <1>1, <1>2, <2>1 DEF LogsWellFormed
<1>5. VerdictsRead'
  <2>1. /\ Len(verdicts[a]) <= seen[a]
        /\ seen[a] > 0 /\ written[a][1] = "assigned" => Len(verdicts[a]) < seen[a]
    BY <1>1, <1>3 DEF VerdictsRead
  <2>2. /\ Len(verdicts'[a]) <= seen'[a] + IF Over(a)' THEN 1 ELSE 0
        /\ seen'[a] > 0 /\ written[a][1] = "assigned" =>
                Len(verdicts'[a]) < seen'[a] + IF Over(a)' THEN 1 ELSE 0
    <3>1. CASE GivesUp(a)
      <4>1. Len(verdicts'[a]) = Len(verdicts[a]) + 1 /\ Over(a)'
        BY <1>3, <3>1 DEF GivesUp, Over
      <4>2. QED BY <1>3, <2>1, <3>1, <4>1 DEF GivesUp
    <3>2. CASE GoesOn(a) BY <1>3, <2>1, <3>2 DEF GoesOn
    <3>3. CASE Hears(a)
      <4>1. Len(verdicts'[a]) = Len(verdicts[a]) + 1
        BY <1>3, <3>3 DEF Hears
      <4>2. seen[a] = 0 => written[a][1] # "assigned"
        BY <1>3, <3>3 DEF Hears, Terminal
      <4>3. QED BY <1>3, <2>1, <3>3, <4>1, <4>2 DEF Hears
    <3>4. QED BY <1>1, <3>1, <3>2, <3>3
  <2>3. QED BY <1>1, <1>2, <2>2 DEF VerdictsRead
<1>6. CompletedOnce'
  <2>1. /\ \A i, j \in 1 .. Len(verdicts[a]) :
              verdicts[a][i] = "completed" /\ verdicts[a][j] = "completed" => i = j
        /\ (\E i \in 1 .. Len(verdicts[a]) : verdicts[a][i] = "completed") =>
              \E j \in 1 .. seen[a] : written[a][j] = "completed"
    BY DEF CompletedOnce
  <2>2. /\ \A i, j \in 1 .. Len(verdicts'[a]) :
              verdicts'[a][i] = "completed" /\ verdicts'[a][j] = "completed" => i = j
        /\ (\E i \in 1 .. Len(verdicts'[a]) : verdicts'[a][i] = "completed") =>
              \E j \in 1 .. seen'[a] : written[a][j] = "completed"
    <3>1. CASE GivesUp(a)
      <4>1. /\ Len(verdicts'[a]) = Len(verdicts[a]) + 1
            /\ \A i \in 1 .. Len(verdicts[a]) : verdicts'[a][i] = verdicts[a][i]
            /\ verdicts'[a][Len(verdicts[a]) + 1] = "failed"
        BY <1>3, <3>1 DEF GivesUp, Terminal
      <4>2. \A i \in 1 .. Len(verdicts'[a]) :
                verdicts'[a][i] = "completed" => i \in 1 .. Len(verdicts[a])
        BY <1>3, <4>1
      <4>3. QED BY <2>1, <3>1, <4>1, <4>2 DEF GivesUp
    <3>2. CASE GoesOn(a) BY <1>3, <2>1, <3>2 DEF GoesOn
    <3>3. CASE Hears(a)
      <4>. DEFINE n == Len(verdicts[a]) + 1
      <4>1. /\ Len(verdicts'[a]) = n
            /\ \A i \in 1 .. Len(verdicts[a]) : verdicts'[a][i] = verdicts[a][i]
            /\ verdicts'[a][n] = written[a][seen'[a]]
        BY <1>3, <3>3 DEF Hears
      <4>2. seen'[a] = seen[a] + 1 /\ seen'[a] \in 1 .. Len(written[a])
        BY <1>3, <3>3 DEF Hears
      <4>3. \A j \in 1 .. Len(written[a]) : written[a][j] = "completed" => j = Len(written[a])
        BY DEF LogsWellFormed
      <4>4. CASE written[a][seen'[a]] = "completed"
        <5>1. \A j \in 1 .. seen[a] : written[a][j] # "completed"
          BY <1>3, <4>2, <4>3, <4>4
        <5>2. \A i \in 1 .. Len(verdicts[a]) : verdicts[a][i] # "completed"
          BY <2>1, <5>1
        <5>3. \A i \in 1 .. n : verdicts'[a][i] = "completed" => i = n
          <6>1. Len(verdicts[a]) \in Nat BY <1>3
          <6>2. \A i \in 1 .. n : i = n \/ i \in 1 .. Len(verdicts[a]) BY <6>1
          <6>3. \A i \in 1 .. Len(verdicts[a]) : verdicts'[a][i] # "completed" BY <4>1, <5>2
          <6>4. QED BY ONLY <6>2, <6>3
        <5>4. QED BY <4>1, <4>2, <4>4, <5>3
      <4>5. CASE written[a][seen'[a]] # "completed"
        <5>1. \A i \in 1 .. n : verdicts'[a][i] = "completed" => i \in 1 .. Len(verdicts[a])
          BY <1>3, <4>1, <4>5
        <5>2. \A i \in 1 .. n : verdicts'[a][i] = "completed" => verdicts[a][i] = "completed"
          BY <4>1, <5>1
        <5>3. 1 .. seen[a] \subseteq 1 .. seen'[a] BY <1>3, <4>2
        <5>4. \A i, j \in 1 .. n :
                  verdicts'[a][i] = "completed" /\ verdicts'[a][j] = "completed" => i = j
          BY <2>1, <5>1, <5>2
        <5>5. (\E i \in 1 .. n : verdicts'[a][i] = "completed") =>
                  \E j \in 1 .. seen'[a] : written[a][j] = "completed"
          BY <2>1, <5>1, <5>2, <5>3
        <5>6. QED BY <4>1, <5>4, <5>5
      <4>6. QED BY <4>4, <4>5
    <3>4. QED BY <1>1, <3>1, <3>2, <3>3
  <2>3. QED BY <1>1, <1>2, <2>2 DEF CompletedOnce
<1>7. VariationsHeard'
  <2>1. ASSUME NEW v \in Variation, Over(v)' PROVE verdicts'[v] # <<>>
    <3>1. v \in Agent /\ v # Refine BY GatewayAssumption DEF Agent
    <3>2. CASE v # a BY <1>2, <2>1, <3>1, <3>2 DEF VariationsHeard
    <3>3. CASE v = a
      BY <1>1, <1>3, <2>1, <3>1, <3>3 DEF GivesUp, GoesOn, Hears
    <3>4. QED BY <3>2, <3>3
  <2>2. CASE a \in Variation
    <3>1. job # "idle" /\ job # "over" BY <1>1, <2>2 DEF VariationsHeard
    <3>2. QED BY <1>1, <2>1, <3>1 DEF VariationsHeard
  <2>3. CASE a = Refine
    <3>1. \A v \in Variation : phase'[v] = phase[v]
      BY <1>1, <2>3, GatewayAssumption DEF Alone, Agent
    <3>2. QED BY <1>1, <2>1, <3>1 DEF VariationsHeard
  <2>4. QED BY <2>2, <2>3 DEF Agent
<1>8. QED BY <1>1, <1>4, <1>5, <1>6, <1>7

\* The adapter appends to its log what leaves a result the last line of it.
LEMMA AdapterWritesInvariant ==
    ASSUME GatewayInvariant, NEW a \in Agent, AdapterWrites(a)
    PROVE  GatewayInvariant'
<1>. USE DEF GatewayInvariant
<1>0. UNCHANGED <<job, phase, offer, attempt, seen, connected, waitStarted, verdicts,
                  cancelRequested, cancelCall, told, dropped>>
  BY DEF AdapterWrites, cancelVars
<1>1. CASE written' = written
  <2>1. ended' \in [Agent -> BOOLEAN] BY <1>1 DEF AdapterWrites, Types
  <2>2. Types' BY <1>0, <1>1, <2>1 DEF Types
  <2>3. QED BY <1>0, <1>1, <2>2, SMTT(20) DEF LogsWellFormed, VerdictsRead, CompletedOnce, VariationsHeard, Over
<1>2. ASSUME NEW event \in {"assigned"} \cup Terminal, ended' = ended,
             written' = [written EXCEPT ![a] = Append(@, event)],
             \/ written[a] = <<>> /\ event # "completed"
             \/ written[a] \in {<<"assigned">>, <<"assigned", "failed">>}
      PROVE  GatewayInvariant'
  <2>1. written[a] \in Seq({"assigned"} \cup Terminal) BY DEF Types
  <2>2. /\ Len(written[a]) <= 2
        /\ Len(written[a]) > 0 => written[a][1] = "assigned"
        /\ \A i \in 1 .. Len(written[a]) : written[a][i] # "completed"
    <3>1. CASE written[a] = <<>> BY <3>1
    <3>2. CASE written[a] = <<"assigned">> BY <3>2
    <3>3. CASE written[a] = <<"assigned", "failed">> BY <3>3
    <3>4. QED BY <1>2, <3>1, <3>2, <3>3
  <2>3. /\ written' \in [Agent -> Seq({"assigned"} \cup Terminal)]
        /\ written'[a] = Append(written[a], event)
        /\ \A b \in Agent \ {a} : written'[b] = written[b]
    BY <1>2 DEF Types
  <2>4. /\ Len(written'[a]) = Len(written[a]) + 1
        /\ \A i \in 1 .. Len(written[a]) : written'[a][i] = written[a][i]
    BY <2>1, <2>3
  <2>5. Types' BY <1>0, <1>2, <2>3 DEF Types
  <2>6. LogsWellFormed'
    <3>1. seen[a] \in Nat /\ seen[a] <= Len(written[a]) BY DEF Types, LogsWellFormed
    <3>2. /\ Len(written'[a]) <= 3 /\ seen[a] <= Len(written'[a])
          /\ Len(written'[a]) > 1 => written'[a][1] = "assigned"
          /\ \A i \in 1 .. Len(written'[a]) :
                written'[a][i] = "completed" => i = Len(written'[a])
      BY <2>1, <2>2, <2>4, <3>1
    <3>3. QED BY <1>0, <2>3, <3>2 DEF LogsWellFormed
  <2>7. \A b \in Agent : \A j \in 1 .. seen[b] : written'[b][j] = written[b][j]
    <3>1. seen[a] \in Nat /\ seen[a] <= Len(written[a]) BY DEF Types, LogsWellFormed
    <3>2. \A j \in 1 .. seen[a] : written'[a][j] = written[a][j] BY <2>1, <2>4, <3>1
    <3>3. QED BY <2>3, <3>2
  <2>8. VerdictsRead'
    <3>1. \A b \in Agent : seen[b] > 0 => 1 \in 1 .. seen[b] BY DEF Types
    <3>2. QED BY <1>0, <2>7, <3>1 DEF VerdictsRead, Over
  <2>9. CompletedOnce' BY <1>0, <2>7 DEF CompletedOnce
  <2>10. VariationsHeard' BY <1>0 DEF VariationsHeard, Over
  <2>11. QED BY <2>5, <2>6, <2>8, <2>9, <2>10
<1>3. CASE \E event \in {"assigned", "failed"} :
              written[a] = <<>> /\ written' = [written EXCEPT ![a] = <<event>>] /\ ended' = ended
  <2>1. PICK event \in {"assigned", "failed"} :
              written[a] = <<>> /\ written' = [written EXCEPT ![a] = <<event>>] /\ ended' = ended
    BY <1>3
  <2>2. written' = [written EXCEPT ![a] = Append(@, event)] BY <2>1
  <2>3. QED BY <1>2, <2>1, <2>2 DEF Terminal
<1>4. QED BY <1>1, <1>2, <1>3 DEF AdapterWrites, Terminal

\* The service takes an event, and with it the report of a failure.
LEMMA TakeInvariant ==
    ASSUME GatewayInvariant, NEW a \in Agent, Take(a)
    PROVE  GatewayInvariant'
<1>. USE DEF GatewayInvariant
<1>1. /\ offer' = [offer EXCEPT ![a] = "none"]
      /\ phase' = [phase EXCEPT ![a] = IF @ = "reporting" THEN "done" ELSE @]
      /\ a = Refine \/ job = "merging"
      /\ UNCHANGED <<job, attempt, seen, connected, verdicts, written, ended, waitStarted,
                     cancelRequested, cancelCall, told, dropped>>
  BY DEF Take, adapterVars, cancelVars
<1>2. Types' BY <1>1 DEF Types, Phase
<1>3. \A b \in Agent : Over(b)' = Over(b) BY <1>1 DEF Over, Types
<1>4. LogsWellFormed' /\ CompletedOnce' BY <1>1 DEF LogsWellFormed, CompletedOnce
<1>5. VerdictsRead' BY <1>1, <1>3 DEF VerdictsRead
<1>6. VariationsHeard'
  <2>1. \A v \in Variation : v \in Agent /\ (a = Refine => phase'[v] = phase[v])
    BY <1>1, GatewayAssumption DEF Agent, Types
  <2>2. QED BY <1>1, <1>3, <2>1 DEF VariationsHeard
<1>7. QED BY <1>2, <1>4, <1>5, <1>6

\* The merge: it begins, pulls a variation that is queued, and ends.
LEMMA JobInvariant ==
    ASSUME GatewayInvariant,
           \/ SpawnVariationAgents \/ StopJob \/ JobCompleted
           \/ \E v \in Variation : Pull(v)
           \/ RefineVariation \/ CancelRefine \/ CancelAnswered
    PROVE  GatewayInvariant'
<1>. USE DEF GatewayInvariant
<1>1. CASE SpawnVariationAgents \/ StopJob \/ JobCompleted
  <2>1. /\ job' \in {"merging", "over", "stopped"}
        /\ job' = "over" => \/ \A v \in Variation : phase[v] = "queued"
                            \/ \A v \in Variation : phase[v] = "done"
        /\ UNCHANGED <<phase, offer, attempt, seen, connected, verdicts, written, ended,
                       waitStarted, cancelRequested, cancelCall, told, dropped>>
    BY <1>1 DEF SpawnVariationAgents, StopJob, JobCompleted, adapterVars, cancelVars, VariationsHeard
  <2>2. QED BY <2>1 DEF Types, LogsWellFormed, VerdictsRead, CompletedOnce, VariationsHeard, Over
<1>2. ASSUME NEW b \in Agent, phase[b] = "queued", phase' = [phase EXCEPT ![b] = "creating"],
             b = Refine \/ job = "merging",
             UNCHANGED <<job, offer, attempt, seen, connected, verdicts, written, ended,
                         waitStarted, cancelRequested, cancelCall, told, dropped>>
      PROVE  GatewayInvariant'
  <2>1. Types' BY <1>2 DEF Types, Phase
  <2>2. \A c \in Agent : Over(c)' = Over(c) BY <1>2 DEF Over, Types
  <2>3. LogsWellFormed' /\ CompletedOnce' BY <1>2 DEF LogsWellFormed, CompletedOnce
  <2>4. VerdictsRead' BY <1>2, <2>2 DEF VerdictsRead
  <2>5. VariationsHeard'
    <3>1. \A v \in Variation : v \in Agent /\ (b = Refine => phase'[v] = phase[v])
      BY <1>2, GatewayAssumption DEF Agent, Types
    <3>2. QED BY <1>2, <2>2, <3>1 DEF VariationsHeard
  <2>6. QED BY <2>1, <2>3, <2>4, <2>5
<1>3. CASE (\E v \in Variation : Pull(v)) \/ RefineVariation
  BY <1>2, <1>3 DEF Pull, RefineVariation, adapterVars, cancelVars, Agent
<1>4. CASE CancelRefine \/ CancelAnswered
  <2>1. /\ cancelRequested' \in BOOLEAN /\ told' \in BOOLEAN
        /\ cancelCall' \in {"none", "asking", "accepted", "refused"}
        /\ UNCHANGED <<job, phase, offer, attempt, seen, connected, verdicts, written, ended,
                       waitStarted, dropped>>
    BY <1>4 DEF CancelRefine, CancelAnswered, adapterVars, Types
  <2>2. Types' BY <2>1 DEF Types
  <2>3. QED BY <2>1, <2>2 DEF LogsWellFormed, VerdictsRead, CompletedOnce, VariationsHeard, Over
<1>5. QED BY <1>1, <1>3, <1>4

LEMMA Inductive == GatewayInvariant /\ [Next]_vars => GatewayInvariant'
<1>1. GatewayInvariant /\ UNCHANGED vars => GatewayInvariant'
  BY DEF vars, GatewayInvariant, Types, LogsWellFormed, VerdictsRead, CompletedOnce, VariationsHeard, Over
<1>2. QED
  BY <1>1, GeneratorStepInvariant, AdapterWritesInvariant, TakeInvariant, JobInvariant DEF Next

-----------------------------------------------------------------------------
(* The theorems.                                                           *)

\* The invariant holds of every behaviour.  It ties what a generator has yielded
\* to what it has read, and the end of the job to the ends of its variations.
THEOREM GatewayInvariantHolds == Spec => []GatewayInvariant
BY InitInvariant, Inductive, PTL DEF Spec

LEMMA Bounded ==
    ASSUME NEW S, NEW s \in Seq(S), Len(s) <= 3
    PROVE  s \in BoundedSeq(S, 3)
<1>1. s \in [1 .. Len(s) -> S] BY LenProperties, Zenon
<1>2. Len(s) \in Nat BY LenProperties, Zenon
<1>3. \E m \in 0 .. 3 : s \in [1 .. m -> S] BY <1>1, <1>2
<1>4. QED BY <1>3 DEF BoundedSeq, SeqOf

\* The state keeps its types: an agent has at most three lines in its log and
\* yields at most three outcomes (AdapterWrites, Receive, Fail).
THEOREM TypeCorrect == Spec => []TypeOK
<1>1. GatewayInvariant => TypeOK
  <2>. SUFFICES ASSUME GatewayInvariant PROVE TypeOK
    OBVIOUS
  <2>. USE DEF GatewayInvariant
  <2>1. written \in [Agent -> BoundedSeq({"assigned"} \cup Terminal, 3)]
    <3>1. \A a \in Agent : written[a] \in BoundedSeq({"assigned"} \cup Terminal, 3)
      BY Bounded DEF Types, LogsWellFormed
    <3>2. QED BY <3>1 DEF Types
  <2>2. seen \in [Agent -> 0 .. 3] /\ \A a \in Agent : seen[a] <= Len(written[a])
    <3>1. ASSUME NEW a \in Agent PROVE seen[a] \in 0 .. 3 /\ seen[a] <= Len(written[a])
      <4>1. seen[a] \in Nat /\ Len(written[a]) \in Nat /\ Len(written[a]) <= 3 /\ seen[a] <= Len(written[a])
        BY DEF Types, LogsWellFormed
      <4>2. QED BY <4>1
    <3>2. QED BY <3>1 DEF Types
  <2>3. \A a \in Agent : Len(verdicts[a]) <= 3
    <3>1. ASSUME NEW a \in Agent PROVE Len(verdicts[a]) <= 3
      <4>1. seen[a] \in Nat /\ Len(verdicts[a]) \in Nat /\ Len(written[a]) \in Nat
        BY DEF Types
      <4>2. /\ seen[a] <= Len(written[a]) /\ Len(written[a]) <= 3
            /\ Len(written[a]) > 1 => written[a][1] = "assigned"
        BY DEF LogsWellFormed
      <4>3. /\ Len(verdicts[a]) <= seen[a] + 1
            /\ seen[a] > 0 /\ written[a][1] = "assigned" => Len(verdicts[a]) < seen[a] + 1
        BY <4>1 DEF VerdictsRead
      <4>4. QED BY <4>1, <4>2, <4>3
    <3>2. QED BY <3>1
  <2>4. verdicts \in [Agent -> BoundedSeq(Terminal, 3)]
    <3>1. \A a \in Agent : verdicts[a] \in BoundedSeq(Terminal, 3) BY <2>3, Bounded DEF Types
    <3>2. QED BY <3>1 DEF Types
  <2>5. QED BY <2>1, <2>2, <2>4 DEF TypeOK, Types
<1>2. QED BY <1>1, GatewayInvariantHolds, PTL

\* When the job is over every variation has reported an outcome and none has
\* reported two pages (JobCompleted, Receive, Fail).
THEOREM VariationsAreHeard == Spec => []EveryVariationHeard
<1>1. GatewayInvariant => EveryVariationHeard
  <2>. SUFFICES ASSUME GatewayInvariant, job = "over", NEW v \in Variation, phase[v] = "done",
                       NEW w \in Variation
                PROVE  /\ verdicts[w] # <<>>
                       /\ Cardinality({i \in DOMAIN verdicts[w] : verdicts[w][i] = "completed"}) <= 1
    BY DEF EveryVariationHeard
  <2>. USE DEF GatewayInvariant
  <2>1. phase[w] = "done" BY DEF VariationsHeard
  <2>2. verdicts[w] # <<>> BY <2>1 DEF VariationsHeard, Over
  <2>. DEFINE pages == {i \in DOMAIN verdicts[w] : verdicts[w][i] = "completed"}
  <2>3. DOMAIN verdicts[w] = 1 .. Len(verdicts[w]) BY DEF Types, Agent
  <2>4. \A i, j \in pages : i = j BY <2>3 DEF CompletedOnce, Agent
  <2>5. CASE pages = {} BY <2>2, <2>5, FS_EmptySet
  <2>6. CASE pages # {}
    <3>1. PICK i \in pages : pages = {i} BY <2>4, <2>6
    <3>2. Cardinality(pages) = 1 BY <3>1, FS_Singleton
    <3>3. QED BY <2>2, <3>2
  <2>7. QED BY <2>5, <2>6
<1>2. QED BY <1>1, GatewayInvariantHolds, PTL

\* An accepted cancel silences the refine: no step yields another outcome of it,
\* whatever the adapter still writes (Receive, Fail, CancelRefine).
THEOREM CancelSilences == Spec => AcceptedCancelSilences
<1>. DEFINE Silent == cancelRequested /\ cancelCall = "accepted" => verdicts'[Refine] = verdicts[Refine]
<1>1. GatewayInvariant /\ [Next]_vars => [Silent]_vars
  <2>. SUFFICES ASSUME Types, Next, cancelRequested PROVE verdicts'[Refine] = verdicts[Refine]
    BY DEF GatewayInvariant
  <2>0. Cancelled(Refine) /\ Refine \in Agent /\ \A v \in Variation : v # Refine
    BY GatewayAssumption DEF Cancelled, Agent
  <2>1. ASSUME NEW a \in Agent, NEW event, Yield(a, event), a # Refine
        PROVE  verdicts'[Refine] = verdicts[Refine]
    BY <2>0, <2>1 DEF Yield, Types
  <2>2. ASSUME NEW a \in Agent, Fail(a) PROVE verdicts'[Refine] = verdicts[Refine]
    BY <2>0, <2>1, <2>2 DEF Fail
  <2>3. ASSUME NEW a \in Agent, NEW retryable \in BOOLEAN, StreamBreaks(a, retryable)
        PROVE  verdicts'[Refine] = verdicts[Refine]
    BY <2>2, <2>3 DEF StreamBreaks
  <2>4. ASSUME NEW a \in Agent, GeneratorStep(a) PROVE verdicts'[Refine] = verdicts[Refine]
    <3>1. CASE AgentCreated(a) BY <2>0, <2>1, <3>1 DEF AgentCreated
    <3>2. CASE AgentRefused(a) BY <2>2, <3>2 DEF AgentRefused
    <3>3. CASE Connect(a) BY <3>3 DEF Connect
    <3>4. CASE ConnectFails(a) BY <2>3, <3>4 DEF ConnectFails
    <3>5. CASE Receive(a) BY <2>0, <2>1, <2>2, <3>5 DEF Receive
    <3>6. CASE ConnectionLost(a) BY <2>3, <3>6 DEF ConnectionLost
    <3>7. CASE StreamEnds(a) BY <2>2, <3>7 DEF StreamEnds
    <3>8. QED BY <2>4, <3>1, <3>2, <3>3, <3>4, <3>5, <3>6, <3>7 DEF GeneratorStep
  <2>5. CASE UNCHANGED verdicts BY <2>5
  <2>6. QED
    BY <2>4, <2>5
    DEF Next, SpawnVariationAgents, StopJob, JobCompleted, Pull, RefineVariation, AdapterWrites,
        Take, CancelRefine, CancelAnswered
<1>2. QED BY <1>1, GatewayInvariantHolds, PTL DEF Spec, AcceptedCancelSilences
\* The gateway keeps to its specification beside the page's stream.
THEOREM GatewayBesideThePage == StreamsSpec => Spec
<1>1. StreamsInit => Init BY DEF StreamsInit
<1>2. [StreamsNext]_<<part, vars, pageVars>> => [Next]_vars BY DEF StreamsNext
<1>3. QED BY <1>1, <1>2, PTL DEF StreamsSpec, Spec

-----------------------------------------------------------------------------
(* The page's stream.                                                      *)

\* Induction, for a set instead of a predicate.
LEMMA SetInduction ==
    ASSUME NEW S, 0 \in S, \A n \in Nat : n \in S => n + 1 \in S
    PROVE  \A n \in Nat : n \in S
<1>1. SUFFICES ASSUME NEW gap \in Nat, gap \notin S PROVE FALSE OBVIOUS
<1> DEFINE Gaps == {n \in Nat : n \notin S}
<1>2. PICK n : n \in Gaps /\ \A k \in Gaps : ~(<<k, n>> \in OpToRel(<, Nat))
  <2>1. Gaps \subseteq Nat /\ Gaps # {} BY <1>1
  <2>2. QED BY <2>1, NatLessThanWellFounded, WFMin
<1>3. \A k \in Gaps : ~(k < n) BY <1>2 DEF OpToRel
<1>4. n \in Nat /\ n \notin S BY <1>2
<1>5. n # 0 BY <1>4
<1>6. n - 1 \in Nat /\ n - 1 < n BY <1>4, <1>5
<1>7. n - 1 \in S BY <1>3, <1>6
<1>8. (n - 1) + 1 \in S BY <1>6, <1>7
<1>9. QED BY <1>4, <1>6, <1>8

\* Whether writeIfNew skips e when `new` has been written.
Skips(new, e, sent, closing) ==
    \/ e \in Page!Range(sent) \cup Page!Range(new)
    \/ closing /\ Page!JobCompleted \in Page!Range(new)

WrittenOnce(new, e, sent, closing) ==
    IF Skips(new, e, sent, closing) THEN new ELSE Append(new, e)

\* What is written of the first 0 .. N events.
IsReplay(f, N, events, sent, closing) ==
    f = [n \in 0 .. N |-> IF n = 0 THEN <<>> ELSE WrittenOnce(f[n - 1], events[n], sent, closing)]

LEMMA ReplaySteps ==
    ASSUME NEW N \in Nat, NEW events, NEW sent, NEW closing, NEW f,
           IsReplay(f, N, events, sent, closing)
    PROVE  /\ f[0] = <<>>
           /\ \A n \in Nat : n + 1 <= N => f[n + 1] = WrittenOnce(f[n], events[n + 1], sent, closing)
<1>1. \A n \in 0 .. N :
        f[n] = IF n = 0 THEN <<>> ELSE WrittenOnce(f[n - 1], events[n], sent, closing)
  BY DEF IsReplay
<1>2. ASSUME NEW n \in Nat, n + 1 <= N
      PROVE  f[n + 1] = WrittenOnce(f[n], events[n + 1], sent, closing)
  <2>1. n + 1 \in 0 .. N /\ n + 1 # 0 /\ (n + 1) - 1 = n BY <1>2
  <2>2. QED BY <1>1, <2>1
<1>3. QED BY <1>1, <1>2

LEMMA ReplayExists ==
    ASSUME NEW events, NEW sent, NEW closing
    PROVE  \A N \in Nat : \E f : IsReplay(f, N, events, sent, closing)
<1> DEFINE S == {N \in Nat : \E f : IsReplay(f, N, events, sent, closing)}
<1> DEFINE After(new, n) == WrittenOnce(new, events[n], sent, closing)
<1>1. 0 \in S
  <2>1. [n \in 0 .. 0 |-> <<>>] =
          [n \in 0 .. 0 |-> IF n = 0 THEN <<>> ELSE After([k \in 0 .. 0 |-> <<>>][n - 1], n)]
    OBVIOUS
  <2>2. IsReplay([n \in 0 .. 0 |-> <<>>], 0, events, sent, closing) BY <2>1 DEF IsReplay
  <2>3. QED BY <2>2
<1>2. ASSUME NEW N \in Nat, N \in S PROVE N + 1 \in S
  <2>1. PICK f : IsReplay(f, N, events, sent, closing) BY <1>2
  <2> DEFINE g == [n \in 0 .. N + 1 |-> IF n = N + 1 THEN After(f[N], n) ELSE f[n]]
  <2>2. \A n \in 0 .. N : g[n] = f[n] OBVIOUS
  <2>3. g[N + 1] = After(f[N], N + 1) OBVIOUS
  <2>4. f[0] = <<>> /\ \A n \in Nat : n + 1 <= N => f[n + 1] = After(f[n], n + 1)
    BY <2>1, ReplaySteps
  <2>5. DOMAIN g = 0 .. N + 1 OBVIOUS
  <2> HIDE DEF g
  <2> HIDE DEF After
  <2>6. ASSUME NEW n \in 0 .. N + 1 PROVE g[n] = IF n = 0 THEN <<>> ELSE After(g[n - 1], n)
    <3>1. CASE n = 0 BY <2>2, <2>4, <3>1
    <3>2. CASE n = N + 1
      <4>1. g[n - 1] = f[N] /\ n # 0 BY <2>2, <3>2
      <4>2. QED BY <2>3, <3>2, <4>1
    <3>3. CASE n # 0 /\ n # N + 1
      <4>1. n - 1 \in Nat /\ (n - 1) + 1 <= N /\ (n - 1) + 1 = n /\ n \in 0 .. N /\ n - 1 \in 0 .. N
        BY <3>3
      <4>2. f[(n - 1) + 1] = After(f[n - 1], (n - 1) + 1) BY <2>4, <4>1
      <4>3. f[n] = After(f[n - 1], n) BY <4>1, <4>2
      <4>4. QED BY <2>2, <3>3, <4>1, <4>3
    <3>4. QED BY <3>1, <3>2, <3>3
  <2>7. IsReplay(g, N + 1, events, sent, closing)
    <3>1. g = [n \in 0 .. N + 1 |-> g[n]] BY DEF g
    <3>2. [n \in 0 .. N + 1 |-> g[n]] =
            [n \in 0 .. N + 1 |-> IF n = 0 THEN <<>> ELSE After(g[n - 1], n)]
      BY <2>6
    <3>3. QED BY <3>1, <3>2 DEF IsReplay, After
  <2>8. QED BY <2>7
<1>3. \A n \in Nat : n \in S => n + 1 \in S BY <1>2
<1>4. \A n \in Nat : n \in S BY <1>1, <1>3, SetInduction
<1>5. QED BY <1>4

\* What is written of a sequence of events is a sequence of them.
LEMMA NewEventsAreEvents ==
    ASSUME NEW E, NEW events \in Seq(E), NEW sent, NEW closing
    PROVE  Page!NewEvents(events, sent, closing) \in Seq(E)
<1> DEFINE N == Len(events)
<1> DEFINE Replaying(f) == IsReplay(f, N, events, sent, closing)
<1> DEFINE new == CHOOSE f : Replaying(f)
<1>1. N \in Nat OBVIOUS
<1>2. \E f : Replaying(f) BY <1>1, ReplayExists
<1>3. Replaying(new) BY <1>2, Zenon
<1>4. Page!NewEvents(events, sent, closing) = new[N]
  BY DEF Page!NewEvents, IsReplay, WrittenOnce, Skips
<1> DEFINE S == {n \in Nat : n <= N => new[n] \in Seq(E)}
<1>5. new[0] = <<>> /\ \A n \in Nat : n + 1 <= N => new[n + 1] = WrittenOnce(new[n], events[n + 1], sent, closing)
  BY <1>1, <1>3, ReplaySteps
<1> HIDE DEF new
<1>6. 0 \in S
  <2>1. <<>> \in Seq(E) OBVIOUS
  <2>2. new[0] \in Seq(E) BY <1>5, <2>1
  <2>3. QED BY <2>2
<1>7. ASSUME NEW n \in Nat, n \in S PROVE n + 1 \in S
  <2>1. SUFFICES ASSUME n + 1 <= N PROVE new[n + 1] \in Seq(E) OBVIOUS
  <2>2. new[n] \in Seq(E) /\ n + 1 \in 1 .. N BY <1>7, <2>1
  <2>3. events[n + 1] \in E BY <2>2
  <2>4. WrittenOnce(new[n], events[n + 1], sent, closing) \in Seq(E) BY <2>2, <2>3 DEF WrittenOnce
  <2>5. QED BY <1>5, <2>1, <2>4
<1>8. \A n \in Nat : n \in S BY <1>6, <1>7, SetInduction
<1>9. N \in S /\ N <= N BY <1>1, <1>8
<1>10. QED BY <1>4, <1>9

-----------------------------------------------------------------------------
Line == Page!DesignEvent \cup {Page!End}
Picture == Page!Snapshot \cup {Page!NoSnapshot}
VariationEvent == [type : {"streaming", "completed", "failed"}, v : Shown]

\* The rows, the events on their way and what the page shows: an event that is
\* about to change the rows names a variation of the job.
PageTypes ==
    /\ row \in Page!Snapshot
    /\ ledger \in Seq(Page!DesignEvent) /\ buffer \in Seq(Page!DesignEvent)
    /\ producer \in [at : {"next", "apply", "append", "publish", "conclude", "done"},
                     event : Page!DesignEvent, left : SUBSET Shown, begun : SUBSET Shown]
    /\ producer.at = "apply" => producer.event \in VariationEvent
    /\ wire \in Seq(Line)
    /\ page \in [shown : Picture, stream : {"connecting", "open", "closed"},
                 fetches : Seq(Page!Snapshot), loaded : BOOLEAN]

LEMMA EventKinds ==
    /\ Page!DesignEvent = VariationEvent \cup {Page!JobCompleted}
    /\ Page!JobCompleted \in Page!DesignEvent
    /\ \A e \in VariationEvent : e \in Page!DesignEvent
  BY DEF Page!DesignEvent, VariationEvent

\* A variation's row changes to a status of a variation.
LEMMA RowSet ==
    ASSUME NEW r \in Page!Snapshot, NEW v \in Shown, NEW t \in Page!VStatus
    PROVE  /\ [r EXCEPT !.var[v] = t] \in Page!Snapshot
           /\ [r EXCEPT !.var[v] = t].job = r.job
           /\ \A w \in Shown : [r EXCEPT !.var[v] = t].var[w] = IF w = v THEN t ELSE r.var[w]
  BY DEF Page!Snapshot

LEMMA Written ==
    ASSUME wire \in Seq(Line), NEW events \in Seq(Page!DesignEvent), Page!Write(events)
    PROVE  wire' \in Seq(Line)
<1> DEFINE new == Page!NewEvents(events, conn.sent, TRUE)
<1> DEFINE end == IF Page!JobCompleted \in Page!Range(new) THEN <<Page!End>> ELSE <<>>
<1>1. new \in Seq(Page!DesignEvent) BY NewEventsAreEvents
<1>2. wire' = wire \o new \o end BY DEF Page!Write
<1> HIDE DEF new
<1>3. new \in Seq(Line)
  <2>1. Page!DesignEvent \subseteq Line BY DEF Line
  <2>2. QED BY <1>1, <2>1
<1>4. end \in Seq(Line)
  <2>1. Page!End \in Line BY DEF Line
  <2>2. QED BY <2>1
<1> HIDE DEF end
<1>5. QED BY <1>2, <1>3, <1>4

\* What an event does to what the page shows.
LEMMA Updated ==
    ASSUME NEW shown \in Picture, NEW e \in Page!DesignEvent
    PROVE  LET new == Page!UpdateFromEvent(shown, e)
           IN  /\ new \in Picture
               /\ shown # Page!NoSnapshot =>
                    /\ shown.job \in Page!Terminal => new.job \in Page!Terminal
                    /\ \A v \in Shown : shown.var[v] \in Page!Terminal => new.var[v] \in Page!Terminal
<1> DEFINE new == Page!UpdateFromEvent(shown, e)
<1>1. CASE shown = Page!NoSnapshot BY <1>1 DEF Page!UpdateFromEvent
<1>2. CASE shown # Page!NoSnapshot /\ e = Page!JobCompleted
  <2>1. shown \in Page!Snapshot BY <1>2 DEF Picture
  <2>2. new = [shown EXCEPT !.job = "completed"] BY <1>2 DEF Page!UpdateFromEvent
  <2>3. "completed" \in Page!Terminal BY DEF Page!Terminal
  <2>4. new \in Page!Snapshot /\ new.job = "completed" /\ new.var = shown.var
    BY <2>1, <2>2, <2>3 DEF Page!Snapshot
  <2>5. QED BY <2>3, <2>4 DEF Picture
<1>3. CASE shown # Page!NoSnapshot /\ e # Page!JobCompleted
  <2>1. shown \in Page!Snapshot BY <1>3 DEF Picture
  <2>2. e \in VariationEvent BY <1>3, EventKinds
  <2>3. e.v \in Shown /\ e.type \in {"streaming", "completed", "failed"} BY <2>2 DEF VariationEvent
  <2>4. CASE e.type = "streaming" /\ shown.var[e.v] \in Page!Terminal
    BY <1>3, <2>4 DEF Page!UpdateFromEvent
  <2>5. CASE ~(e.type = "streaming" /\ shown.var[e.v] \in Page!Terminal)
    <3>1. PICK t : t = e.type OBVIOUS
    <3>2. new = [shown EXCEPT !.var[e.v] = t] BY <1>3, <2>5, <3>1 DEF Page!UpdateFromEvent
    <3>3. t \in Page!VStatus /\ (t \in Page!Terminal \/ shown.var[e.v] \notin Page!Terminal)
      BY <2>3, <2>5, <3>1 DEF Page!VStatus, Page!Terminal
    <3>4. /\ new \in Page!Snapshot /\ new.job = shown.job
          /\ \A w \in Shown : new.var[w] = IF w = e.v THEN t ELSE shown.var[w]
      BY <2>1, <2>3, <3>2, <3>3, RowSet
    <3>5. QED BY <3>3, <3>4 DEF Picture
  <2>6. QED BY <2>4, <2>5
<1>4. QED BY <1>1, <1>2, <1>3

\* What a snapshot does to it.
LEMMA Merged ==
    ASSUME NEW shown \in Picture, NEW new \in Page!Snapshot
    PROVE  LET merged == Page!MergeSnapshot(shown, new)
           IN  /\ merged \in Picture
               /\ shown # Page!NoSnapshot =>
                    /\ shown.job \in Page!Terminal => merged.job \in Page!Terminal
                    /\ \A v \in Shown : shown.var[v] \in Page!Terminal => merged.var[v] \in Page!Terminal
<1> DEFINE merged == Page!MergeSnapshot(shown, new)
<1>1. CASE shown = Page!NoSnapshot BY <1>1 DEF Page!MergeSnapshot, Picture
<1>2. CASE shown # Page!NoSnapshot
  <2>1. shown \in Page!Snapshot BY <1>2 DEF Picture
  <2> DEFINE status(v) == IF shown.var[v] \in Page!Terminal /\ new.var[v] \notin Page!Terminal
                            THEN shown.var[v] ELSE new.var[v]
  <2> DEFINE job_ == IF shown.job \in Page!Terminal /\ new.job \notin Page!Terminal
                       THEN shown.job ELSE new.job
  <2>2. merged = [job |-> job_, var |-> [v \in Shown |-> status(v)]]
    BY <1>2 DEF Page!MergeSnapshot
  <2>3. job_ \in {"running"} \cup Page!Terminal /\ (shown.job \in Page!Terminal => job_ \in Page!Terminal)
    BY <2>1 DEF Page!Snapshot
  <2>4. \A v \in Shown : /\ status(v) \in Page!VStatus
                         /\ shown.var[v] \in Page!Terminal => status(v) \in Page!Terminal
    BY <2>1 DEF Page!Snapshot
  <2> HIDE DEF job_
  <2> HIDE DEF status
  <2>5. merged \in Page!Snapshot /\ merged.job = job_ /\ \A v \in Shown : merged.var[v] = status(v)
    BY <2>2, <2>3, <2>4 DEF Page!Snapshot
  <2> HIDE DEF merged
  <2>6. QED BY <2>3, <2>4, <2>5 DEF Picture, merged
<1>3. QED BY <1>1, <1>2

LEMMA Appended ==
    ASSUME NEW E, NEW s \in Seq(E), NEW e \in E
    PROVE  Append(s, e) \in Seq(E) /\ Tail(Append(s, e)) \in Seq(E)
<1>1. PICK t : t = Append(s, e) OBVIOUS
<1>2. t \in Seq(E) /\ Len(t) = Len(s) + 1 /\ Len(s) \in Nat BY <1>1
<1>3. t # <<>> BY <1>2
<1>4. Tail(t) \in Seq(E) BY <1>2, <1>3
<1>5. QED BY <1>1, <1>2, <1>4

LEMMA Joined ==
    ASSUME NEW E, NEW s \in Seq(E), NEW t \in Seq(E)
    PROVE  s \o t \in Seq(E)
  OBVIOUS

LEMMA PageInit == Page!Init => PageTypes
<1> SUFFICES ASSUME Page!Init PROVE PageTypes OBVIOUS
<1>1. row \in Page!Snapshot BY DEF Page!Init, Page!Snapshot, Page!VStatus
<1>2. Page!NoSnapshot \in Picture BY DEF Picture
<1>3. QED BY <1>1, <1>2, EventKinds DEF Page!Init, PageTypes

LEMMA PageOverTypes == PageOver => PageTypes
<1> SUFFICES ASSUME PageOver PROVE PageTypes OBVIOUS
<1>1. row \in Page!Snapshot BY DEF PageOver, Page!Snapshot, Page!VStatus, Page!Terminal
<1>2. row \in Picture BY <1>1 DEF Picture
<1>3. ledger \in Seq(Page!DesignEvent) /\ buffer \in Seq(Page!DesignEvent) BY EventKinds DEF PageOver
<1>4. QED BY <1>1, <1>2, <1>3, EventKinds DEF PageOver, PageTypes

LEMMA PageStep ==
    ASSUME PageTypes, [Page!Next]_(pageVars)
    PROVE  /\ PageTypes'
           /\ page.shown # Page!NoSnapshot =>
                /\ page.shown.job \in Page!Terminal => page'.shown.job \in Page!Terminal
                /\ \A v \in Shown :
                     page.shown.var[v] \in Page!Terminal => page'.shown.var[v] \in Page!Terminal
<1>0. /\ producer.event \in Page!DesignEvent
      /\ page.fetches \in Seq(Page!Snapshot)
      /\ ledger \in Seq(Page!DesignEvent) /\ buffer \in Seq(Page!DesignEvent)
      /\ wire \in Seq(Line) /\ row \in Page!Snapshot
  BY DEF PageTypes
<1> USE DEF PageTypes
<1>1. CASE UNCHANGED pageVars BY <1>1 DEF pageVars
<1>2. CASE Page!NextEvent
  <2>1. PICK v \in producer.left, t \in {"streaming", "completed", "failed"} :
          producer' = [at |-> "apply", event |-> [type |-> t, v |-> v],
                       left |-> IF t = "streaming" THEN producer.left ELSE producer.left \ {v},
                       begun |-> producer.begun \cup {v}]
    BY <1>2 DEF Page!NextEvent
  <2>2. [type |-> t, v |-> v] \in VariationEvent BY DEF VariationEvent
  <2>3. PICK event : event = [type |-> t, v |-> v] OBVIOUS
  <2>4. PICK left \in SUBSET Shown :
          left = IF t = "streaming" THEN producer.left ELSE producer.left \ {v} OBVIOUS
  <2>5. PICK begun \in SUBSET Shown : begun = producer.begun \cup {v} OBVIOUS
  <2>6. producer' = [at |-> "apply", event |-> event, left |-> left, begun |-> begun]
    BY <2>1, <2>3, <2>4, <2>5
  <2>7. event \in VariationEvent /\ event \in Page!DesignEvent BY <2>2, <2>3, EventKinds
  <2>8. QED BY <1>2, <2>6, <2>7 DEF Page!NextEvent
<1>3. CASE Page!ApplyEvent
  <2>1. producer.event \in VariationEvent BY <1>3 DEF Page!ApplyEvent
  <2>2. PICK e : e = producer.event OBVIOUS
  <2>3. e.v \in Shown /\ e.type \in Page!VStatus
    BY <2>1, <2>2 DEF VariationEvent, Page!VStatus, Page!Terminal
  <2>4. row' = row \/ row' = [row EXCEPT !.var[e.v] = e.type] BY <1>3, <2>2 DEF Page!ApplyEvent
  <2>5. row' \in Page!Snapshot BY <2>3, <2>4, RowSet
  <2>6. producer' = [producer EXCEPT !.at = "append"] BY <1>3 DEF Page!ApplyEvent
  <2>7. QED BY <1>3, <2>5, <2>6 DEF Page!ApplyEvent
<1>4. CASE Page!Conclude
  <2>1. PICK status \in Page!Terminal : row' = [row EXCEPT !.job = status]
    BY <1>4 DEF Page!Conclude, Page!Terminal
  <2>2. row' \in Page!Snapshot BY <2>1 DEF Page!Snapshot
  <2>3. PICK event : event = Page!JobCompleted OBVIOUS
  <2>4. producer' = [producer EXCEPT !.at = "append", !.event = event]
    BY <1>4, <2>3 DEF Page!Conclude, Page!Produce
  <2>5. event \in Page!DesignEvent BY <2>3, EventKinds
  <2>6. QED BY <1>4, <2>2, <2>4, <2>5 DEF Page!Conclude
<1>5. CASE Page!AppendEvent
  <2>1. ledger' \in Seq(Page!DesignEvent) BY <1>5 DEF Page!AppendEvent
  <2>2. producer' = [producer EXCEPT !.at = "publish"] BY <1>5 DEF Page!AppendEvent
  <2>3. QED BY <1>5, <2>1, <2>2 DEF Page!AppendEvent
<1>6. CASE Page!PublishEvent
  <2>1. PICK e \in Page!DesignEvent : e = producer.event BY <1>0
  <2>2. buffer' \in Seq(Page!DesignEvent)
    <3> DEFINE all == Append(buffer, e)
    <3>1. all \in Seq(Page!DesignEvent) /\ Tail(all) \in Seq(Page!DesignEvent)
      BY <1>0, <2>1, Appended
    <3>2. buffer' = buffer \/ buffer' = all \/ buffer' = Tail(all)
      BY <1>6, <2>1 DEF Page!PublishEvent
    <3>3. QED BY <1>0, <3>1, <3>2
  <2>3. wire' \in Seq(Line)
    <3>1. CASE UNCHANGED wire BY <1>0, <3>1
    <3>2. CASE Page!Write(<<e>>)
      <4>1. <<e>> \in Seq(Page!DesignEvent) BY <2>1
      <4>2. QED BY <1>0, <3>2, <4>1, Written
    <3>3. QED BY <1>6, <2>1, <3>1, <3>2 DEF Page!PublishEvent
  <2>4. PICK at \in {"next", "done"} : producer' = [producer EXCEPT !.at = at]
    BY <1>6 DEF Page!PublishEvent
  <2>5. QED BY <1>6, <2>2, <2>3, <2>4 DEF Page!PublishEvent
<1>7. CASE Page!CancelJob
  <2> DEFINE status(v) == IF row.var[v] \in Page!Terminal THEN row.var[v] ELSE "cancelled"
  <2>1. row' = [job |-> "cancelled", var |-> [v \in Shown |-> status(v)]]
    BY <1>7 DEF Page!CancelJob
  <2>2. \A v \in Shown : status(v) \in Page!VStatus BY DEF Page!VStatus, Page!Terminal
  <2>3. PICK c : c = "cancelled" OBVIOUS
  <2>4. c \in {"running"} \cup Page!Terminal BY <2>3 DEF Page!Terminal
  <2> HIDE DEF status
  <2>5. row' \in Page!Snapshot BY <2>1, <2>2, <2>3, <2>4 DEF Page!Snapshot
  <2>6. QED BY <1>7, <2>5 DEF Page!CancelJob
<1>8. CASE Page!Connect
  <2>1. page' = [page EXCEPT !.stream = "open"] BY <1>8 DEF Page!Connect
  <2>2. QED BY <1>8, <2>1 DEF Page!Connect
<1>9. CASE Page!Replay
  <2> DEFINE old == Page!NewEvents(ledger, <<>>, FALSE)
  <2> DEFINE new == old \o Page!NewEvents(buffer, old, FALSE)
  <2>1. old \in Seq(Page!DesignEvent) BY <1>0, NewEventsAreEvents
  <2>2. Page!NewEvents(buffer, old, FALSE) \in Seq(Page!DesignEvent)
    BY <1>0, NewEventsAreEvents
  <2>3. new \in Seq(Page!DesignEvent) BY <2>1, <2>2, Joined
  <2>4. wire' = wire \o new BY <1>9 DEF Page!Replay
  <2> HIDE DEF new
  <2>5. new \in Seq(Line)
    <3>1. Page!DesignEvent \subseteq Line BY DEF Line
    <3>2. QED BY <2>3, <3>1
  <2>6. wire' \in Seq(Line) BY <1>0, <2>4, <2>5
  <2>7. QED BY <1>9, <2>6 DEF Page!Replay
<1>10. CASE Page!Follow
  <2>1. Page!End \in Line BY DEF Line
  <2>2. Append(wire, Page!End) \in Seq(Line) BY <1>0, <2>1
  <2>3. wire' \in Seq(Line) BY <1>0, <1>10, <2>2 DEF Page!Follow
  <2>4. QED BY <1>10, <2>3 DEF Page!Follow
<1>11. CASE Page!PollLedger
  <2>1. wire' \in Seq(Line) BY <1>0, <1>11, Written DEF Page!PollLedger
  <2>2. QED BY <1>11, <2>1 DEF Page!PollLedger
<1>12. CASE Page!Drop
  <2>1. page' = [page EXCEPT !.stream = "connecting"] BY <1>12 DEF Page!Drop
  <2>2. <<>> \in Seq(Line) OBVIOUS
  <2>3. wire' \in Seq(Line) BY <1>12, <2>2 DEF Page!Drop
  <2>4. QED BY <1>12, <2>1, <2>3 DEF Page!Drop
<1>13. CASE Page!Receive
  <2>1. wire # <<>> /\ wire' = Tail(wire) BY <1>13 DEF Page!Receive
  <2>2. PICK e \in Line : e = Head(wire) BY <1>0, <2>1
  <2>3. wire' \in Seq(Line) BY <1>0, <2>1
  <2>4. CASE page' = page BY <1>13, <2>3, <2>4 DEF Page!Receive
  <2>5. CASE page' = [page EXCEPT !.stream = "connecting"] BY <1>13, <2>3, <2>5 DEF Page!Receive
  <2>6. CASE page' # page /\ e # Page!End
    <3>1. e \in Page!DesignEvent BY <2>6 DEF Line
    <3>2. PICK shown : shown = Page!UpdateFromEvent(page.shown, e) OBVIOUS
    <3>3. PICK stream : stream = IF e = Page!JobCompleted THEN "closed" ELSE page.stream OBVIOUS
    <3>4. page' = [page EXCEPT !.shown = shown, !.stream = stream]
      BY <1>13, <2>2, <2>6, <3>2, <3>3 DEF Page!Receive
    <3>5. stream \in {"connecting", "open", "closed"} BY <3>3
    <3>6. page'.shown = shown BY <3>4
    <3>7. /\ shown \in Picture
          /\ page.shown # Page!NoSnapshot =>
                /\ page.shown.job \in Page!Terminal => shown.job \in Page!Terminal
                /\ \A v \in Shown : page.shown.var[v] \in Page!Terminal => shown.var[v] \in Page!Terminal
      BY <3>1, <3>2, Updated
    <3>8. page' \in [shown : Picture, stream : {"connecting", "open", "closed"},
                     fetches : Seq(Page!Snapshot), loaded : BOOLEAN]
      BY <3>4, <3>5, <3>7
    <3>9. QED BY <1>13, <2>3, <3>6, <3>7, <3>8 DEF Page!Receive
  <2>7. page' = page \/ page' = [page EXCEPT !.stream = "connecting"] \/ (page' # page /\ e # Page!End)
    BY <1>13, <2>2 DEF Page!Receive
  <2>8. QED BY <2>4, <2>5, <2>6, <2>7
<1>14. CASE Page!Fetch
  <2>1. PICK fetches \in Seq(Page!Snapshot) : fetches = Append(page.fetches, row)
    BY <1>0, Appended
  <2>2. PICK t \in BOOLEAN : t = TRUE OBVIOUS
  <2>3. page' = [page EXCEPT !.fetches = fetches, !.loaded = t]
    BY <1>14, <2>1, <2>2 DEF Page!Fetch
  <2>4. QED BY <1>14, <2>3 DEF Page!Fetch
<1>15. CASE Page!Arrive
  <2>1. PICK i \in DOMAIN page.fetches :
          page' = [page EXCEPT !.shown = Page!MergeSnapshot(@, page.fetches[i]),
                               !.fetches = Page!RemoveAt(@, i)]
    BY <1>15 DEF Page!Arrive
  <2>2. page.fetches \in Seq(Page!Snapshot) /\ i \in 1 .. Len(page.fetches)
        /\ page.fetches[i] \in Page!Snapshot
    BY <1>0
  <2>3. PICK shown : shown = Page!MergeSnapshot(page.shown, page.fetches[i]) OBVIOUS
  <2>4. PICK fetches : fetches = Page!RemoveAt(page.fetches, i) OBVIOUS
  <2>5. fetches \in Seq(Page!Snapshot)
    <3>1. SubSeq(page.fetches, 1, i - 1) \in Seq(Page!Snapshot) BY <2>2
    <3>2. SubSeq(page.fetches, i + 1, Len(page.fetches)) \in Seq(Page!Snapshot) BY <2>2
    <3>3. QED BY <2>4, <3>1, <3>2 DEF Page!RemoveAt
  <2>6. page' = [page EXCEPT !.shown = shown, !.fetches = fetches] BY <2>1, <2>3, <2>4
  <2>7. page'.shown = shown BY <2>6
  <2>8. /\ shown \in Picture
        /\ page.shown # Page!NoSnapshot =>
              /\ page.shown.job \in Page!Terminal => shown.job \in Page!Terminal
              /\ \A v \in Shown : page.shown.var[v] \in Page!Terminal => shown.var[v] \in Page!Terminal
    BY <2>2, <2>3, Merged
  <2>9. page' \in [shown : Picture, stream : {"connecting", "open", "closed"},
                   fetches : Seq(Page!Snapshot), loaded : BOOLEAN]
    BY <2>5, <2>6, <2>8
  <2>10. QED BY <1>15, <2>7, <2>8, <2>9 DEF Page!Arrive
<1>16. QED
  BY <1>1, <1>2, <1>3, <1>4, <1>5, <1>6, <1>7, <1>8, <1>9, <1>10, <1>11, <1>12, <1>13, <1>14, <1>15
  DEF Page!Next, Page!Produces

\* What the page has shown as ended never reopens, however late an event or a
\* snapshot arrives (updateVariationFromEvent, mergeJobSnapshot).
THEOREM NothingReopens == StreamsSpec => NeverReopens
<1>1. StreamsInit => PageTypes BY PageInit, PageOverTypes DEF StreamsInit
<1>2. [StreamsNext]_<<part, vars, pageVars>> => [Page!Next]_(pageVars) BY DEF StreamsNext
<1>3. PageTypes /\ [StreamsNext]_<<part, vars, pageVars>> => PageTypes' BY <1>2, PageStep
<1> DEFINE Kept ==
      page.shown # Page!NoSnapshot =>
        /\ page.shown.job \in Page!Terminal => page'.shown.job \in Page!Terminal
        /\ \A v \in Shown : page.shown.var[v] \in Page!Terminal => page'.shown.var[v] \in Page!Terminal
<1>4. PageTypes /\ [StreamsNext]_<<part, vars, pageVars>> => [Kept]_(Page!vars) BY <1>2, PageStep
<1>5. QED BY <1>1, <1>3, <1>4, PTL DEF StreamsSpec, NeverReopens, Page!NeverReopens
================================================================================
