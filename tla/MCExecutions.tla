---------------------------- MODULE MCExecutions ----------------------------
(* Executions on a mesh whose second party may lack a program. *)
EXTENDS Executions

OnePartyMayRefuse == {2} \X Executions
=============================================================================
