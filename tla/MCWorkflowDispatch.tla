------------------------- MODULE MCWorkflowDispatch -------------------------
(***************************************************************************)
(* The properties of WorkflowDispatch and its instances for TLC.           *)
(***************************************************************************)
EXTENDS WorkflowDispatch, TLC

CONSTANTS w1, w2, r1

WorkerSymmetry == Permutations(Workers)
=============================================================================
