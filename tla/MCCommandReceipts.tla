-------------------------- MODULE MCCommandReceipts -------------------------
(***************************************************************************)
(* A small instance of CommandReceipts for TLC.                            *)
(***************************************************************************)
EXTENDS CommandReceipts, TLC

CONSTANTS first, other, plain, prepared, direct

\* A caller of a prepared command, one that uses its key for another input, and
\* one with a command of its own that has no preflight.
KeyOfCaller == [c \in Callers |-> IF c = plain THEN direct ELSE prepared]
InputOfCaller == [c \in Callers |-> IF c = other THEN 2 ELSE 1]
=============================================================================
