-------------------------- MODULE MCEventDelivery ---------------------------
(***************************************************************************)
(* Small instances of EventDelivery for TLC.                               *)
(***************************************************************************)
EXTENDS EventDelivery, TLC

\* Two targets that follow every event of the aggregates.
EveryType == [t \in Targets |-> Types]

\* Target 1 follows everything published about a contact, target 2 has a handler
\* for merges alone (cus.contact.merged.v1), and no target takes a note.
Routed == [t \in Targets |-> IF t = 1 THEN {"created", "merged"} ELSE {"merged"}]
=============================================================================
