--------------------------- MODULE MCThreadTurns ----------------------------
(***************************************************************************)
(* What makes up a turn and needs no fairness, one component in each       *)
(* behaviour, chosen by the initial state: they share no variable, so that *)
(* one run checks each of them as a run of its own would.                  *)
(*                                                                         *)
(* ThreadRun is there twice, as two deployments: one without the notes     *)
(* loop whose turns compact, with the constants of the configuration, and  *)
(* one with the notes loop and a fault.                                    *)
(***************************************************************************)
EXTENDS ThreadRun, ContextCompile, ResponseStream, TLC

VARIABLE part

Noting == INSTANCE ThreadRun WITH
    NotesContinuation <- TRUE,
    CheckpointRetries <- 0, ProactiveCompactions <- 0,
    MaxRequests <- 1, MaxFaults <- 1

turnsVars == <<part, vars, ccVars, rsVars>>

\* The components that rest start from one state each.
Resting ==
    /\ part = "contexts" \/ (bound = {} /\ ccTarget = CHOOSE t \in ReplayTargets : TRUE)
    /\ part = "responses" \/ rsScript = CHOOSE s \in Scripts : TRUE

TurnsInit ==
    /\ part \in {"compacting", "noting", "contexts", "responses"}
    /\ Init /\ CcInit /\ RsInit
    /\ Resting

TurnsNext ==
    /\ UNCHANGED part
    /\ \/ part = "compacting" /\ Next /\ UNCHANGED <<ccVars, rsVars>>
       \/ part = "noting" /\ Noting!Next /\ UNCHANGED <<ccVars, rsVars>>
       \/ part = "contexts" /\ CcNext /\ UNCHANGED <<vars, rsVars>>
       \/ part = "responses" /\ RsNext /\ UNCHANGED <<vars, ccVars>>

TurnsSpec == TurnsInit /\ [][TurnsNext]_turnsVars

\* Every variable of these two components keeps its type.
TurnsTypeOK == CcTypeOK /\ RsTypeOK

\* Slots are interchangeable.
SlotSymmetry == Permutations(Tasks)

=============================================================================
