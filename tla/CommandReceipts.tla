-------------------------- MODULE CommandReceipts ---------------------------
(***************************************************************************)
(* Commands between modules and their receipts:                            *)
(*   modruntime/contracts.go  handleCommand, invoke                        *)
(*   modruntime/receipts.go   CommandReceiptStore.ExecutePrepared, Execute *)
(*   modruntime/business.go   moduleClient.command                         *)
(*                                                                         *)
(* A caller sends its command in a request, and again in another one when  *)
(* the answer was lost or says nothing.  Requests with one idempotency key *)
(* run side by side, in one process or several, and a request whose caller *)
(* gave up runs on.  One action is one database statement that other       *)
(* requests can observe, or one step between two of them.                  *)
(***************************************************************************)
EXTENDS Naturals, FiniteSets

CONSTANTS
    Callers,      \* those who send a command
    Keys,         \* idempotency keys
    Inputs,       \* what a command's digest covers: type, account, target, input
    KeyOf,        \* the key of each caller's command
    InputOf,      \* the digest of each caller's command
    Preflighted,  \* keys of commands with an owner preflight (RegisterCommandPreflight)
    MaxRequests,  \* bound: requests sent in all
    NoCaller, NoReceipt

ASSUME KeyAssumption == KeyOf \in [Callers -> Keys] /\ InputOf \in [Callers -> Inputs]
ASSUME RequestAssumption == MaxRequests \in Nat
ASSUME AbsentAssumption == NoCaller \notin Callers /\ NoReceipt \notin [input : Inputs, output : Nat]

VARIABLES
    request,    \* each request: where it is, who sent it, what it answered
    receipt,    \* the committed receipt row of each key
    performed,  \* history: requests whose handler's writes were committed
    waiting,    \* the request each caller waits for, or 0
    told        \* history: the answers callers received that say something

vars == <<request, receipt, performed, waiting, told>>

Requests == 1..MaxRequests

\* Where a request is.  "running" and "commit" lie inside its transaction, after
\* the receipt row was inserted.
Steps == {"lookup", "prepare", "lookAgain", "begin", "reserve", "running", "commit", "conflicted"}

\* What a request answers; "" while it runs or when its process died.
Kinds == {"ok", "conflict", "refused", "unavailable"}

Receipts == [input : Inputs, output : Requests]
Answers == [caller : Callers, kind : {"ok", "conflict"}, output : 0..MaxRequests]

Key(q) == KeyOf[request[q].caller]
Input(q) == InputOf[request[q].caller]

Active(q) == request[q].pc \in Steps

\* The transaction of q holds the key: its receipt row is inserted and not committed.
Holds(q) == request[q].pc \in {"running", "commit"}
\* Variant: a key that was reserved stays reserved when its process dies.
KeyFreeUnlessReserved(q) ==
    \A p \in Requests :
        /\ Holds(p) \/ (request[p].pc = "done" /\ request[p].said = "")
        /\ Key(p) = Key(q)
        => p = q

\* No other open transaction holds the key of q.
KeyFree(q) == \A p \in Requests : (Holds(p) /\ Key(p) = Key(q)) => p = q

Init ==
    /\ request = [q \in Requests |-> [pc |-> "unused", caller |-> NoCaller, said |-> ""]]
    /\ receipt = [k \in Keys |-> NoReceipt]
    /\ performed = [k \in Keys |-> {}]
    /\ waiting = [c \in Callers |-> 0]
    /\ told = {}

----------------------------------------------------------------------------
(* Callers *)

\* moduleClient.command: a caller sends its command, or sends it again.  An
\* authorizer that refuses is a refusal before anything was read (see Refuse).
Send(c, q) ==
    /\ waiting[c] = 0
    /\ request[q].pc = "unused"
    /\ \A p \in Requests : request[p].pc = "unused" => q <= p
    /\ request' = [request EXCEPT ![q] =
            [pc |-> IF KeyOf[c] \in Preflighted THEN "lookup" ELSE "begin", caller |-> c, said |-> ""]]
    /\ waiting' = [waiting EXCEPT ![c] = q]
    /\ UNCHANGED <<receipt, performed, told>>

\* The caller's timeout, the handler's (answered with result_unknown) or a broken
\* connection: the caller stops waiting, its request runs on.
GiveUp(c) ==
    /\ waiting[c] # 0
    /\ waiting' = [waiting EXCEPT ![c] = 0]
    /\ UNCHANGED <<request, receipt, performed, told>>

----------------------------------------------------------------------------
(* Answers *)

\* q ends with an answer, which its caller hears if it still waits for it.
Answer(q, kind, output) ==
    LET c == request[q].caller
    IN  /\ request' = [request EXCEPT ![q].pc = "done", ![q].said = kind]
        /\ waiting' = [waiting EXCEPT ![c] = IF waiting[c] = q THEN 0 ELSE waiting[c]]
        /\ told' = IF waiting[c] = q /\ kind \in {"ok", "conflict"}
                   THEN told \cup {[caller |-> c, kind |-> kind, output |-> output]}
                   ELSE told

\* A committed receipt answers for the command, unless it is for another input.
Replay(q) ==
    LET row == receipt[Key(q)]
    IN  /\ row # NoReceipt
        /\ \/ row.input = Input(q) /\ Answer(q, "ok", row.output)
           \/ row.input # Input(q) /\ Answer(q, "conflict", 0)
        /\ UNCHANGED <<receipt, performed>>

Goto(q, pc) ==
    /\ request' = [request EXCEPT ![q].pc = pc]
    /\ UNCHANGED <<receipt, performed, waiting, told>>

Missing(q) == receipt[Key(q)] = NoReceipt

----------------------------------------------------------------------------
(* CommandReceiptStore.ExecutePrepared *)

LookUp(q) ==
    /\ request[q].pc = "lookup"
    /\ Replay(q) \/ (Missing(q) /\ Goto(q, "prepare"))

Prepared(q) == request[q].pc = "prepare" /\ Goto(q, "begin")

PreparationFails(q) == request[q].pc = "prepare" /\ Goto(q, "lookAgain")

\* An identical request may have committed meanwhile; its receipt outweighs the failure.
LookAgain(q) ==
    /\ request[q].pc = "lookAgain"
    /\ \/ Replay(q)
       \/ /\ Missing(q)
          /\ \E kind \in {"refused", "unavailable"} : Answer(q, kind, 0)
          /\ UNCHANGED <<receipt, performed>>

----------------------------------------------------------------------------
(* CommandReceiptStore.Execute *)

\* The transaction begins and reads the receipt.
Begin(q) ==
    /\ request[q].pc = "begin"
    /\ Replay(q) \/ (Missing(q) /\ Goto(q, "reserve"))

\* Variant: nothing makes the change id unique.
ReserveAlways(q) ==
    /\ request[q].pc = "reserve"
    /\ Goto(q, "running")

\* The insert of the receipt waits for the open transaction that inserted the same
\* change id, and fails if that one committed.
Reserve(q) ==
    /\ request[q].pc = "reserve"
    /\ KeyFree(q)
    /\ Goto(q, IF Missing(q) THEN "running" ELSE "conflicted")

HandlerSucceeds(q) == request[q].pc = "running" /\ Goto(q, "commit")

\* The handler's error rolls everything back, the receipt row too.
HandlerFails(q) ==
    /\ request[q].pc = "running"
    /\ \E kind \in {"refused", "unavailable"} : Answer(q, kind, 0)
    /\ UNCHANGED <<receipt, performed>>

\* Variant: the output is never written to the receipt.
PersistWithoutOutput(q) ==
    /\ receipt' = [receipt EXCEPT ![Key(q)] = [input |-> Input(q), output |-> 0]]
    /\ performed' = [performed EXCEPT ![Key(q)] = @ \cup {q}]

\* The receipt and the handler's writes become visible together.
Persist(q) ==
    /\ receipt' = [receipt EXCEPT ![Key(q)] = [input |-> Input(q), output |-> q]]
    /\ performed' = [performed EXCEPT ![Key(q)] = @ \cup {q}]

Commit(q) ==
    /\ request[q].pc = "commit"
    /\ Persist(q)
    /\ Answer(q, "ok", q)

\* Variant: a failed commit is reported as the command's own refusal.
CommitUnheardRefused(q) ==
    /\ request[q].pc = "commit"
    /\ Persist(q)
    /\ Answer(q, "refused", 0)

\* COMMIT was executed and its answer was lost.
CommitUnheard(q) ==
    /\ request[q].pc = "commit"
    /\ Persist(q)
    /\ Answer(q, "unavailable", 0)

\* COMMIT was not executed.
CommitFails(q) ==
    /\ request[q].pc = "commit"
    /\ Answer(q, "unavailable", 0)
    /\ UNCHANGED <<receipt, performed>>

\* Variant: the conflict is taken for a success of this request.
ReloadOwn(q) ==
    /\ request[q].pc = "conflicted"
    /\ Answer(q, "ok", q)
    /\ UNCHANGED <<receipt, performed>>

\* After the unique conflict the receipt is read again, outside the transaction.
Reload(q) ==
    /\ request[q].pc = "conflicted"
    /\ \/ Replay(q)
       \/ Answer(q, "unavailable", 0) /\ UNCHANGED <<receipt, performed>>
----------------------------------------------------------------------------
\* Authentication or an authorizer refuses before any receipt is read, so also
\* when an earlier request of the command has taken effect.
Refuse(q) ==
    /\ request[q].pc \in {"lookup", "begin"}
    /\ Answer(q, "refused", 0)
    /\ UNCHANGED <<receipt, performed>>

\* The process dies; the database rolls an open transaction back, the caller
\* hears nothing.
Crash(q) ==
    /\ Active(q)
    /\ request' = [request EXCEPT ![q].pc = "done"]
    /\ UNCHANGED <<receipt, performed, waiting, told>>

CommitStep(q) == Commit(q) \/ CommitUnheard(q) \/ CommitFails(q)

Execute(q) ==
    \/ LookUp(q) \/ Prepared(q) \/ PreparationFails(q) \/ LookAgain(q)
    \/ Begin(q) \/ Reserve(q) \/ HandlerSucceeds(q) \/ HandlerFails(q)
    \/ CommitStep(q) \/ Reload(q)

Next ==
    \/ \E c \in Callers : GiveUp(c) \/ \E q \in Requests : Send(c, q)
    \/ \E q \in Requests : Execute(q) \/ Refuse(q) \/ Crash(q)

Spec == Init /\ [][Next]_vars

\* Statements and handlers are bounded in time, and so is a caller's patience.
Fairness ==
    /\ \A q \in Requests : WF_vars(Execute(q))
    /\ \A c \in Callers : WF_vars(GiveUp(c))

FairSpec == Spec /\ Fairness

----------------------------------------------------------------------------
(* Properties *)

\* Every variable has its type.
TypeOK ==
    /\ request \in [Requests -> [pc : Steps \cup {"unused", "done"},
                                 caller : Callers \cup {NoCaller}, said : Kinds \cup {""}]]
    /\ \A q \in Requests : request[q].pc # "unused" => request[q].caller \in Callers
    /\ receipt \in [Keys -> Receipts \cup {NoReceipt}]
    /\ performed \in [Keys -> SUBSET Requests]
    /\ waiting \in [Callers -> 0..MaxRequests]
    /\ told \subseteq Answers

\* A command takes effect at most once per key, and exactly when its receipt
\* stands: handler and receipt commit in one transaction, the change id is unique
\* (receipts.go:107-141).
EffectIffReceipt ==
    \A k \in Keys :
        performed[k] = IF receipt[k] = NoReceipt THEN {} ELSE {receipt[k].output}

\* Every success a caller heard is the recorded output of a command with its input,
\* every conflict is about a receipt with another one (receipts.go:74-84,117-123,143-153).
AnswersRecorded ==
    \A a \in told :
        LET row == receipt[KeyOf[a.caller]]
        IN  /\ row # NoReceipt
            /\ a.kind = "ok" => row.input = InputOf[a.caller] /\ row.output = a.output
            /\ a.kind = "conflict" => row.input # InputOf[a.caller]

\* A request answered with a refusal left nothing behind, and cannot any more: what
\* callers that stop at a definite refusal rely on (receipts.go:134, aut_runner.go:290).
RefusedLeavesNothing ==
    \A q \in Requests : request[q].said = "refused" => \A k \in Keys : q \notin performed[k]

\* No request waits for ever on the key of another one (receipts.go:129).
EveryRequestEnds == \A q \in Requests : Active(q) ~> ~Active(q)

\* The receipts implement a call that is made once.
Once == INSTANCE CommandOnce WITH done <- receipt, Outputs <- Requests, Nothing <- NoReceipt
ImplementsCommandOnce == Once!Spec
=============================================================================
