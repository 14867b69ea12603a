-------------------------- MODULE MCWorkflowSaves --------------------------
(* The default workflow and two more, three calls besides the list.   *)
EXTENDS WorkflowSaves, TLC

Symmetric == Permutations(Ids)
=============================================================================
