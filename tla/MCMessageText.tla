---------------------------- MODULE MCMessageText ----------------------------
(***************************************************************************)
(* A small instance of MessageText for TLC.                                *)
(***************************************************************************)
EXTENDS MessageText
=============================================================================
