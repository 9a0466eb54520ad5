-------------------------------- MODULE Streams --------------------------------
(***************************************************************************)
(* The two streams of a generation, which share no state, composed: the    *)
(* runtime's, which the gateway reads, and the job's, which the page       *)
(* follows.  Each initial state selects the one that takes steps; the      *)
(* other stays in a state in which none of its fair actions is enabled, so *)
(* that each is as fair as its module says.                                *)
(***************************************************************************)
EXTENDS BabelOGateway

CONSTANTS Shown, Cancels, BufferSize, MaxDrops, MaxFetches      \* the page and its variations

VARIABLES
    part,       \* the stream that takes steps
    worker, row, ledger, buffer, producer, conn, wire, page, drops   \* of JobStream

Page == INSTANCE JobStream WITH Variation <- Shown

ASSUME StreamsAssumption == Page!Assumptions

pageVars == <<worker, row, ledger, buffer, producer, conn, wire, page, drops>>

\* A job that has ended and a page that has seen it.
PageOver ==
    /\ worker = FALSE
    /\ row = [job |-> "completed", var |-> [v \in Shown |-> "completed"]]
    /\ ledger = <<Page!JobCompleted>> /\ buffer = ledger /\ wire = <<>> /\ drops = 0
    /\ producer = [at |-> "done", event |-> Page!JobCompleted, left |-> {}, begun |-> Shown]
    /\ conn = [at |-> "off", sent |-> ledger]
    /\ page = [shown |-> row, stream |-> "closed", fetches |-> <<>>, loaded |-> TRUE]

\* Before a job is handed to the gateway nothing of it is fair.
StreamsInit ==
    /\ Init
    /\ \/ part = "gateway" /\ PageOver
       \/ part = "page" /\ job = "idle" /\ Page!Init

StreamsNext ==
    \/ part = "gateway" /\ Next /\ UNCHANGED <<part, pageVars>>
    \/ part = "page" /\ Page!Next /\ UNCHANGED <<part, vars>>

StreamsSpec == StreamsInit /\ [][StreamsNext]_<<part, vars, pageVars>> /\ Fairness /\ Page!Fairness

-----------------------------------------------------------------------------
\* What the page has shown as ended never reopens (jobs/[jobId]/page.tsx).
NeverReopens == Page!NeverReopens

\* Every page hears that the job has ended (server.ts, jobs/[jobId]/page.tsx).
PageHearsTheEnd == Page!PageHearsTheEnd
=============================================================================
