--------------------------- MODULE MCWorkerCalls ----------------------------
(***************************************************************************)
(* WorkerCalls with finite constants.                                      *)
(***************************************************************************)
EXTENDS WorkerCalls, TLC

\* Calls are interchangeable; used by the runs that check no liveness.
CallSymmetry == Permutations(Calls)

=============================================================================
