--------------------------- MODULE MCWorkflowRaces ---------------------------
(* Small instances of WorkflowRaces for TLC.                               *)
EXTENDS MCWorkflow, WorkflowRaces

OneWrite == {<<Write>>}
=============================================================================
