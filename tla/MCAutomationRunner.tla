------------------------- MODULE MCAutomationRunner -------------------------
(***************************************************************************)
(* A small instance of AutomationRunner for TLC.                           *)
(***************************************************************************)
EXTENDS AutomationRunner

CONSTANTS left, right

Action(kind, group) == [kind |-> kind, group |-> group]

\* The first rule sends a message and has an action that could not be compiled; the
\* second looks up a label and adds it.
PlanOfTwo ==
    <<<<Action("change", 1), Action("create", 1), Action("invalid", 2)>>,
      <<Action("resolve", 1), Action("change", 1)>>>>

\* MSG asks for the grant of the message, CON for the label.
AskingOfTwo == {<<1, 2>>, <<2, 2>>}
=============================================================================
