---------------------------- MODULE MCThreadRun -----------------------------
(***************************************************************************)
(* ThreadRun with finite constants.                                        *)
(***************************************************************************)
EXTENDS ThreadRun, TLC

\* Slots are interchangeable; used by the runs that check no liveness.
SlotSymmetry == Permutations(Tasks)

=============================================================================
