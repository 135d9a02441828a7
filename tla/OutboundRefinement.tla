------------------------- MODULE OutboundRefinement -------------------------
(***************************************************************************)
(* OutboundDelivery implements SendOnce: the phase of a message is read    *)
(* off its latest attempt and off what the provider took of any attempt.   *)
(***************************************************************************)
EXTENDS OutboundDelivery

CopiesOf(m) == UNION {{a} \X (1 .. copies[a]) : a \in AttemptsOf(m)}

Latest(m) == CHOOSE a \in AttemptsOf(m) : \A b \in AttemptsOf(m) : b <= a

PhaseOf(m) ==
    CASE AttemptsOf(m) = {} -> "none"
      [] CopiesOf(m) # {} -> "taken"
      [] OTHER ->
           LET r == row[Latest(m)]
           IN  CASE r.state = "cancelled" -> "closed"
                 [] r.state # "cancelled" /\ ~r.started -> "queued"
                 [] r.started /\ r.retrySafe -> "refused"
                 [] OTHER -> "open"

Abstract == INSTANCE SendOnce WITH
    Copies <- Attempts \X {1},
    phase <- [m \in Messages |-> PhaseOf(m)],
    received <- [m \in Messages |-> CopiesOf(m)]

\* Every step of workers, agents, leases and callbacks is a step of SendOnce or
\* invisible there: a message that was taken, or whose fate is unknown, is never
\* queued again, and at most one copy of it is received (checkOutboundRetry,
\* StartOutboundDispatch, CompleteOutboundDispatch).
ImplementsSendOnce == Abstract!Spec
=============================================================================
