------------------------------- MODULE MCDevices -------------------------------
(***************************************************************************)
(* What happens between the Controller and devices, one component in each  *)
(* behaviour, chosen by the initial state: the pairing of a Worker, its    *)
(* upgrade, calls of a Worker another user shares, and eXe devices, with   *)
(* the fairness of each; and the recorders that measure the routes and SQL *)
(* statements all of them use, of which nothing must happen.  They share   *)
(* no variable, so that one run checks each as a run of its own would.     *)
(***************************************************************************)
EXTENDS Pairing, WorkerUpgrade, SharedCalls, ExeDriver, RoutePerf, SqlPerf

VARIABLE part

recorderVars == <<rpVars, sqVars>>
devicesVars == <<part, pairVars, upVars, shVars, exeVars, recorderVars>>

PairOnly(A) ==
    part = "pairing" /\ A /\ UNCHANGED <<part, upVars, shVars, exeVars, recorderVars>>
UpOnly(A) ==
    part = "upgrade" /\ A /\ UNCHANGED <<part, pairVars, shVars, exeVars, recorderVars>>
ShOnly(A) ==
    part = "shared" /\ A /\ UNCHANGED <<part, pairVars, upVars, exeVars, recorderVars>>
ExeOnly(A) ==
    part = "exe" /\ A /\ UNCHANGED <<part, pairVars, upVars, shVars, recorderVars>>
RpOnly(A) ==
    part = "routes" /\ A /\ UNCHANGED <<part, pairVars, upVars, shVars, exeVars, sqVars>>
SqOnly(A) ==
    part = "statements" /\ A /\ UNCHANGED <<part, pairVars, upVars, shVars, exeVars, rpVars>>

DevicesInit ==
    /\ part \in {"pairing", "upgrade", "shared", "exe", "routes", "statements"}
    /\ PairInit /\ UpInit /\ ShInit /\ ExeInit /\ RpInit /\ SqInit
    /\ part = "statements"     \* a recorder that rests
         \/ \A e \in Executions : sqExec[e].key = CHOOSE k \in SqlKeys : TRUE

DevicesNext ==
    \/ PairOnly(PairNext) \/ UpOnly(UpNext) \/ ShOnly(ShNext) \/ ExeOnly(ExeNext)
    \/ RpOnly(RpNext) \/ SqOnly(SqNext)

DevicesFairness ==
    /\ \A s \in UpSteps : WF_devicesVars(UpOnly(UpStep(s)))
    /\ \A c \in UpCalls : /\ WF_devicesVars(UpOnly(UpReplay(c)))
                          /\ WF_devicesVars(UpOnly(UpFinish(c)))
    /\ WF_devicesVars(ShOnly(GrantReaches))
    /\ \A c \in ShCalls : WF_devicesVars(ShOnly(Projects(c)))
    /\ WF_devicesVars(ExeOnly(ExeDrive))
    /\ \A c \in ExeCalls : WF_devicesVars(ExeOnly(ExeProgress(c)))

DevicesSpec == DevicesInit /\ [][DevicesNext]_devicesVars /\ DevicesFairness

\* Every variable of these components keeps its type.
DevicesTypeOK ==
    PairTypeOK /\ UpTypeOK /\ ShTypeOK /\ ExeTypeOK /\ RpTypeOK /\ SqTypeOK

\* The recorders of routes and of SQL statements count what happened once.
MeasuredOnce == RecordedOnce /\ SqlAddsUp

=============================================================================
