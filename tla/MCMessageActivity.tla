-------------------------- MODULE MCMessageActivity --------------------------
(***************************************************************************)
(* Small instances of MessageActivity for TLC.                             *)
(***************************************************************************)
EXTENDS MessageActivity, TLC

CONSTANTS e1, v1

\* The visitor has the old conversation on screen.
OnScreen == [m \in {v1} |-> 1]
\* Slots are alike, so the one visitor's message may as well take the first.
SlotServes == [w \in {1, 2} |-> IF w = 1 THEN {e1, v1} ELSE {e1}]
OneSlotServes == [w \in {1} |-> {e1, v1}]
=============================================================================
