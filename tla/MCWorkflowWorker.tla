-------------------------- MODULE MCWorkflowWorker --------------------------
(* Instances of WorkflowWorker for TLC. *)
EXTENDS WorkflowWorker, TLC

Symmetry == Permutations(Runs)
=============================================================================
