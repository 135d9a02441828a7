------------------------- MODULE MCOutboundDelivery -------------------------
(***************************************************************************)
(* Small instances of OutboundDelivery for TLC.                            *)
(***************************************************************************)
EXTENDS OutboundRefinement, TLC

\* Workers, messages and texts are interchangeable in the safety runs.
Interchangeable ==
    Permutations(Workers) \cup Permutations(Messages) \cup Permutations(Bodies)
=============================================================================
