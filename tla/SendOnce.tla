------------------------------ MODULE SendOnce ------------------------------
(***************************************************************************)
(* What outbound delivery promises for each message, with no attempts, no  *)
(* workers and no leases: a submitted message is queued, it may be closed  *)
(* before it leaves, once it is open its fate lies with the provider, and  *)
(* only a refusal makes it possible to queue it again.  The recipient      *)
(* receives at most one copy.                                              *)
(***************************************************************************)
CONSTANTS Messages, Copies

VARIABLES
    phase,     \* where each message is
    received   \* the copies of it the provider took

vars == <<phase, received>>

Init ==
    /\ phase = [m \in Messages |-> "none"]
    /\ received = [m \in Messages |-> {}]

Move(m, from, to) ==
    /\ phase[m] = from
    /\ phase' = [phase EXCEPT ![m] = to]

Submit(m)   == Move(m, "none", "queued") /\ UNCHANGED received
Dispatch(m) == Move(m, "queued", "open") /\ UNCHANGED received
Close(m)    == Move(m, "queued", "closed") /\ UNCHANGED received
Refuse(m)   == Move(m, "open", "refused") /\ UNCHANGED received
Resubmit(m) == Move(m, "refused", "queued") /\ UNCHANGED received

Take(m) ==
    /\ Move(m, "open", "taken")
    /\ received[m] = {}
    /\ \E c \in Copies : received' = [received EXCEPT ![m] = {c}]

Next ==
    \E m \in Messages :
        Submit(m) \/ Dispatch(m) \/ Close(m) \/ Refuse(m) \/ Resubmit(m) \/ Take(m)

Spec == Init /\ [][Next]_vars
=============================================================================
