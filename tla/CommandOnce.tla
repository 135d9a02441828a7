---------------------------- MODULE CommandOnce -----------------------------
(***************************************************************************)
(* What a module promises the callers of its commands, whatever happens to *)
(* the requests that carry them.  A key is used up by the first command    *)
(* that succeeds under it: from then on it stands for that command's input *)
(* and output.  A caller is told a success or a conflict only on the       *)
(* strength of what the key stands for; anything else it may be told says  *)
(* nothing and is not part of the promise.                                 *)
(***************************************************************************)
EXTENDS Naturals

CONSTANTS
    Callers,   \* those who send a command
    Keys,      \* idempotency keys
    KeyOf,     \* the key of each caller's command
    InputOf,   \* the input of each caller's command
    Outputs,   \* results of handlers
    Nothing    \* what an unused key stands for

VARIABLES
    done,      \* what each key stands for
    told       \* the successes and conflicts callers were told

vars == <<done, told>>

Init ==
    /\ done = [k \in Keys |-> Nothing]
    /\ told = {}

\* The command of a caller takes effect under its unused key.
Perform(c, o) ==
    /\ done[KeyOf[c]] = Nothing
    /\ done' = [done EXCEPT ![KeyOf[c]] = [input |-> InputOf[c], output |-> o]]

\* What can be told to a caller when a key stands for v.
Verdict(c, v) ==
    IF v.input = InputOf[c]
    THEN [caller |-> c, kind |-> "ok", output |-> v.output]
    ELSE [caller |-> c, kind |-> "conflict", output |-> 0]

\* A caller is told what its key stands for.
Tell(c) ==
    /\ done[KeyOf[c]] # Nothing
    /\ told' = told \cup {Verdict(c, done[KeyOf[c]])}
    /\ UNCHANGED done

\* The command takes effect and the caller is told so at once, or never.
PerformAndTell(c, o) ==
    /\ Perform(c, o)
    /\ told' = told \cup {[caller |-> c, kind |-> "ok", output |-> o]}

PerformSilently(c, o) ==
    /\ Perform(c, o)
    /\ UNCHANGED told

Next ==
    \E c \in Callers :
        \/ Tell(c)
        \/ \E o \in Outputs : PerformAndTell(c, o) \/ PerformSilently(c, o)

Spec == Init /\ [][Next]_vars
=============================================================================
