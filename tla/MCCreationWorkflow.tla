------------------------ MODULE MCCreationWorkflow --------------------------
(***************************************************************************)
(* A small instance of CreationWorkflow for TLC.                           *)
(***************************************************************************)
EXTENDS CreationWorkflow
=============================================================================
