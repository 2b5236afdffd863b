--------------------------- MODULE MCWorkflowCycle ---------------------------
(* Every document of three workflows and one foreign name, with up to two
   dependsOn entries each. *)
EXTENDS WorkflowCycle

MCWorkflows == <<"a", "b", "c">>
==============================================================================
