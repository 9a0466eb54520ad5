------------------------------ MODULE MC_Records ------------------------------
(***************************************************************************)
(* An instance of Records for TLC, and in the same run the repository's    *)
(* tables (those of designs and those of the catalogue) with the maps that *)
(* stand for them in tests.                                                *)
(***************************************************************************)
EXTENDS Records, TLC

CONSTANTS w1, w2, q1, api, worker, NoRow, MaxWrites

VARIABLES
    db, copies, twin, now,                                  \* repository
    tables, known, catalogueTwin, answers, clock            \* catalogue

repositoryVars == <<db, copies, twin, now>>
catalogueVars == <<tables, known, catalogueTwin, answers, clock>>

Repository == INSTANCE PostgresRepository WITH
    Process <- {api, worker}, Api <- api, UsageLimit <- 1, None <- NoRow, store <- twin

Catalogue == INSTANCE PostgresCatalogue WITH
    UsageLimit <- 9, None <- NoRow, db <- tables, store <- catalogueTwin, now <- clock

ASSUME RepositoryAssumption == Repository!Assumptions /\ Catalogue!Assumptions

NoRepository == db = NoRow /\ copies = NoRow /\ twin = NoRow /\ now = 0
NoCatalogue == tables = NoRow /\ known = NoRow /\ catalogueTwin = NoRow /\ answers = NoRow /\ clock = 0

MCInit ==
    /\ RecordsInit
    /\ \/ part # "none" /\ NoRepository /\ NoCatalogue
       \/ part = "none" /\ Repository!Init /\ NoCatalogue
       \/ part = "none" /\ NoRepository /\ Catalogue!Init

MCNext ==
    \/ part # "none" /\ RecordsNext /\ UNCHANGED <<repositoryVars, catalogueVars>>
    \/ db # NoRow /\ Repository!Next /\ UNCHANGED <<recordsVars, catalogueVars>>
    \/ tables # NoRow /\ Catalogue!Next /\ UNCHANGED <<recordsVars, repositoryVars>>

MCSpec == MCInit /\ [][MCNext]_<<recordsVars, repositoryVars, catalogueVars>>

\* The writers, which stand for calls too, are told apart by nothing.
WriterSymmetry == Permutations({w1, w2})

-----------------------------------------------------------------------------
\* Whatever is written, the database answers as the maps would that tests are
\* run on (store.ts, postgresRepository.ts).
SameAnswers ==
    /\ db # NoRow => Repository!SameAnswers
    /\ tables # NoRow => Catalogue!SameAnswers
=============================================================================
