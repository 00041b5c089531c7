------------------------------- MODULE MCRecords -------------------------------
(***************************************************************************)
(* What the Controller does on its own schedule, one component in each     *)
(* behaviour, chosen by the initial state: grants of shared Threads that   *)
(* reach the reader, the watch over Ultimate Machines, and the patrol of   *)
(* the usage statistics, each with its fairness.                           *)
(***************************************************************************)
EXTENDS ThreadSharing, Machines, StatsFold

VARIABLE part

recordsVars == <<part, tsVars, maVars, stVars>>

TsOnly(A) == part = "threads" /\ A /\ UNCHANGED <<part, maVars, stVars>>
MaOnly(A) == part = "machines" /\ A /\ UNCHANGED <<part, tsVars, stVars>>
StatsOnly(A) == part = "stats" /\ A /\ UNCHANGED <<part, tsVars, maVars>>

RecordsInit ==
    /\ part \in {"threads", "machines", "stats"}
    /\ TsInit /\ MaInit /\ StatsInit
    /\ part = "machines" \/ maWorker = "offline"   \* a machine that rests

RecordsNext == TsOnly(TsNext) \/ MaOnly(MaNext) \/ StatsOnly(StatsNext)

RecordsFairness ==
    /\ \A t \in TsThreads : WF_recordsVars(TsOnly(SyncReaches(t)))
    /\ WF_recordsVars(MaOnly(MaTick))
    /\ WF_recordsVars(MaOnly(MaTime))
    /\ WF_recordsVars(StatsOnly(PatrolStep))
    /\ \A g \in Ranges : SF_recordsVars(StatsOnly(Rebuild(g)))
    /\ WF_recordsVars(StatsOnly(HourPasses))
    /\ WF_recordsVars(StatsOnly(ThreadRowsGo))

RecordsSpec == RecordsInit /\ [][RecordsNext]_recordsVars /\ RecordsFairness

\* Every variable of these components keeps its type.
RecordsTypeOK == TsTypeOK /\ MaTypeOK /\ StatsTypeOK

=============================================================================
