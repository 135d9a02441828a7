-------------------------- MODULE AutomationRunner --------------------------
(***************************************************************************)
(* The durable runner of automation rules (AUT):                           *)
(*   modruntime/aut_runner.go          RunAutomationOnce, checkpoints      *)
(*   modruntime/aut_sibling_conditions.go  deferred conditions             *)
(*   modruntime/aut_failure_policy.go  continue_definite.v1                *)
(*   modruntime/aut_causality.go       what earlier executions prove       *)
(*   modruntime/aut_lifecycle.go       finish and cancel                   *)
(*   modruntime/aut_action_dispatch.go frozen commands, version proofs     *)
(*                                                                         *)
(* One fact about a conversation has started a batch of executions, one    *)
(* per rule.  They run one after the other, each action as a command sent  *)
(* to the module that owns what it changes, outside any transaction of     *)
(* AUT; several processes run the loop.  The owner is the one of           *)
(* CommandReceipts, seen from outside: see ImplementsOwnerPromise.         *)
(***************************************************************************)
EXTENDS Naturals, Sequences, FiniteSets

CONSTANTS
    Executions,    \* 1..n: the executions of the batch, in the order of their rules
    Plan,          \* the compiled actions of each execution
    FactVersion,   \* the conversation's version the fact is about
    Runners,       \* processes that run the loop
    Asking,        \* commands whose owner asks another module before it begins
    MaxEdits,      \* bound: changes of the conversation by somebody else
    MaxDisturbances, \* bound: changes by somebody else and what is taken away, together
    MaxFaults,     \* bound: deaths, lost answers and leases that run out early
    NoRunner, NoReceipt

ASSUME BatchAssumption == IsFiniteSet(Executions) /\ Executions = 1..Cardinality(Executions)
ASSUME VersionAssumption == FactVersion \in Nat \ {0}
ASSUME BoundsAssumption == MaxEdits \in Nat /\ MaxDisturbances \in Nat /\ MaxFaults \in Nat

VARIABLES
    row,       \* the execution rows of AUT
    runner,    \* what each process is doing
    flight,    \* requests on their way to an owner or running there
    receipt,   \* the owners' receipts
    changes,   \* history: who made each version of the conversation since the fact
    faults,    \* faults so far
    denied,    \* asking commands whose owner would be told no
    revoked,   \* the owners turn the requests of AUT away unseen
    withdrawals \* times others took something away

surroundings == <<denied, revoked, withdrawals>>
vars == <<row, runner, flight, receipt, changes, faults, surroundings>>

\* An action: what it does, and the source action it is a step of.  "change" takes
\* the conversation from its expected version to the next, "resolve" finds a label,
\* "create" saves a message under the grant of the change before it, "invalid" could
\* not be compiled.
ActionKinds == {"change", "resolve", "create", "invalid"}

\* A plan that was compiled (validAutomationPlan, validAutomationRunnerPlan): it has an
\* action, and the steps of one source action stand together.
ASSUME PlanAssumption ==
    /\ Plan \in [Executions -> Seq([kind : ActionKinds, group : Nat])]
    /\ \A e \in Executions :
          /\ Plan[e] # <<>>
          /\ \A i, j \in DOMAIN Plan[e] : i < j => Plan[e][i].group <= Plan[e][j].group

Steps(e) == 1..Len(Plan[e])
Commands == UNION {{e} \X Steps(e) : e \in Executions}
Kind(c) == Plan[c[1]][c[2]].kind

\* CON asks TEN for the member or the team and CUS for the label that a change names;
\* MSG asks CON for the grant of every message.
ASSUME AskingAssumption ==
    /\ Asking \subseteq {c \in Commands : Kind(c) \in {"change", "create"}}
    /\ {c \in Commands : Kind(c) = "create"} \subseteq Asking
SameGroup(e, i, j) == Plan[e][i].group = Plan[e][j].group

Edit == <<0, 0>>
Version == FactVersion + Len(changes)
Versions == FactVersion..(FactVersion + MaxEdits + Cardinality(Commands))

ActiveStatus == {"received", "evaluating", "running", "waiting"}
FinalStatus == {"succeeded", "failed", "partially_succeeded", "cancelled", "no_match",
                "manual_action_required"}

\* Results of actions; "dependent" and "cancelled" are the two reasons to skip one.
ResultStatus == {"pending", "accepted", "unknown", "succeeded", "failed", "dependent", "cancelled"}

Pending == [status |-> "pending", version |-> 0]
Active(e) == row[e].status \in ActiveStatus

ASSUME AbsentAssumption ==
    /\ NoRunner \notin Runners
    /\ NoReceipt \notin [input : Versions, output : Versions]
    /\ NoReceipt \notin [input : Commands, output : Versions]

Idle == [pc |-> "idle", command |-> Edit, version |-> 0, reconciling |-> FALSE, answer |-> "", output |-> 0]

----------------------------------------------------------------------------
(* Admission (AutomationBridge, startAutomationExecution) *)

\* An execution is queued with its plan, waits for its conditions to be evaluated
\* after its predecessors, or was rejected when the fact was accepted; or the plan
\* that was saved with it can no longer be read ("one corrupt oldest row").
Queued == [status |-> "received", context |-> TRUE, evaluation |-> "none"]
Deferred == [status |-> "evaluating", context |-> FALSE, evaluation |-> "pending"]
Rejected == [status |-> "failed", context |-> FALSE, evaluation |-> "none"]
Unreadable == [status |-> "received", context |-> TRUE, evaluation |-> "unreadable"]

Admitted(e, a) ==
    [status |-> a.status, context |-> a.context,
     evaluation |-> a.evaluation, evaluated |-> 0,
     next |-> 1, version |-> FactVersion, cancel |-> FALSE,
     lease |-> NoRunner, live |-> FALSE,
     results |-> [i \in Steps(e) |-> Pending],
     dispatch |-> [i \in Steps(e) |-> 0]]

Init ==
    /\ \E f \in [Executions -> {Queued, Deferred, Rejected, Unreadable}] :
          /\ f[1] # Deferred
          /\ row = [e \in Executions |-> Admitted(e, f[e])]
    /\ runner = [r \in Runners |-> Idle]
    /\ flight = {}
    /\ receipt = [c \in Commands |-> NoReceipt]
    /\ changes = <<>>
    /\ faults = 0
    /\ denied = {} /\ revoked = FALSE /\ withdrawals = 0

----------------------------------------------------------------------------
(* What checkpoints prove (aut_causality.go, aut_failure_policy.go) *)

\* The changes of the first n actions of a row that are confirmed.
Confirmed(x, e, n) ==
    {i \in 1..n : Plan[e][i].kind = "change" /\ x.results[i].status = "succeeded"}

\* automationPrefixVersion: the version after n actions, from the version base.
After(x, e, n, base) == base + Cardinality(Confirmed(x, e, n))

\* automationResultAdvances: a confirmed action left the version this far.
Advances(e, i, version, before) ==
    /\ Plan[e][i].kind # "invalid"
    /\ version = IF Plan[e][i].kind = "change" THEN before + 1 ELSE before

\* automationCheckpointStep: a completed action, and the steps of its source action.
ValidStep(x, e, i, before) ==
    LET res == x.results[i]
        Group == {j \in 1..(i - 1) : SameGroup(e, i, j)}
    IN  \/ /\ res.status = "succeeded" /\ Advances(e, i, res.version, before)
           /\ \A j \in Group : x.results[j].status = "succeeded"
        \/ res.status = "failed" /\ res.version = 0
        \/ /\ res.status = "dependent" /\ res.version = 0
           /\ \E j \in Group : /\ x.results[j].status = "failed"
                               /\ \A k \in (j + 1)..(i - 1) : x.results[k].status = "dependent"

\* validAutomationDispatch: the frozen command fits the plan, the result and the version.
ValidDispatch(x, e, i, before) ==
    LET res == x.results[i]
        frozen == x.dispatch[i]
    IN  CASE Plan[e][i].kind = "invalid" -> frozen = 0 /\ res.status \notin {"accepted", "unknown", "succeeded"}
          [] Plan[e][i].kind # "invalid" /\ res.status \in {"dependent", "cancelled"} -> frozen = 0
          [] OTHER -> IF frozen = 0 THEN res.status = "pending"
                      ELSE Plan[e][i].kind = "resolve" \/ frozen = before

\* The completed prefix of a checkpoint that started at the version base, and the
\* version it carries.
ValidPrefix(x, e, base) ==
    /\ \A i, j \in Steps(e) :
          i < j /\ SameGroup(e, i, j) /\ x.results[i].status = "failed" => x.results[j].status = "dependent"
    /\ \A i \in 1..(x.next - 1) :
          LET before == After(x, e, i - 1, base)
          IN  ValidStep(x, e, i, before) /\ ValidDispatch(x, e, i, before)
    /\ \/ x.version = After(x, e, x.next - 1, base)
       \/ x.next = 1 /\ x.version = FactVersion

\* validAutomationContinuingCheckpoint of an execution that may go on.
ValidCheckpoint(x, e, base) ==
    /\ x.next \in Steps(e)
    /\ ValidPrefix(x, e, base)
    /\ \A i \in (x.next + 1)..Len(Plan[e]) : x.results[i] = Pending /\ x.dispatch[i] = 0
    /\ x.results[x.next].version = 0
    /\ \/ x.results[x.next].status = "pending" /\ x.dispatch[x.next] = 0
       \/ /\ x.results[x.next].status \in {"accepted", "unknown"}
          /\ Plan[e][x.next].kind # "invalid"
          /\ ValidDispatch(x, e, x.next, After(x, e, x.next - 1, base))

\* automationCompletedStatus
CompletedStatus(results) ==
    LET Has(s) == \E i \in DOMAIN results : results[i].status = s
    IN  IF ~Has("failed") THEN "succeeded"
        ELSE IF Has("succeeded") THEN "partially_succeeded" ELSE "failed"

\* validAutomationContinuingCheckpoint of one that has ended.
ValidFinal(x, e, base) ==
    /\ ValidPrefix(x, e, base)
    /\ IF x.status = "cancelled"
       THEN \A i \in x.next..Len(Plan[e]) : x.results[i].status = "cancelled" /\ x.dispatch[i] = 0
       ELSE x.next = Len(Plan[e]) + 1 /\ x.status = CompletedStatus(x.results)

\* automationCheckpointBase: the version a checkpoint says it started at.
CheckpointBase(x, e) ==
    LET Framed == {i \in 1..(x.next - 1) : Plan[e][i].kind # "resolve" /\ x.dispatch[i] # 0}
        Telling == Framed \cup {i \in 1..(x.next - 1) : x.results[i].status = "succeeded"}
        first == CHOOSE i \in Telling : \A j \in Telling : i <= j
    IN  IF x.evaluated # 0 THEN x.evaluated
        ELSE IF Telling = {} THEN x.version
        ELSE IF first \in Framed THEN x.dispatch[first] ELSE x.results[first].version

\* The version the executions before e left, as far as their rows tell.
Base(e) ==
    FactVersion + Cardinality({c \in Commands : c[1] < e /\ c[2] \in Confirmed(row[c[1]], c[1], row[c[1]].next - 1)})

\* automationTerminalExecutionVersion: an execution that has ended, and whose row
\* proves it.
Proves(p) ==
    LET x == row[p]
    IN  /\ x.status \in FinalStatus \ {"manual_action_required"}
        /\ x.evaluation = "pending" => x.status = "cancelled"
        /\ x.evaluation # "unreadable"
        /\ x.evaluation \notin {"none", "pending"} => x.evaluated = Base(p)
        /\ IF x.context THEN ValidFinal(x, p, Base(p)) ELSE x.next = 1 /\ x.version = FactVersion

\* automationPredecessorVersion; 0 is none.
PredecessorVersion(e) == IF \A p \in 1..(e - 1) : Proves(p) THEN Base(e) ELSE 0

\* The checkpoint may be acted on (RunAutomationOnce, before it dispatches).
Trusted(e) ==
    LET x == row[e]
    IN  /\ ValidCheckpoint(x, e, CheckpointBase(x, e))
        /\ PredecessorVersion(e) # 0
        /\ x.evaluation # "none" => x.evaluation = "matched" /\ x.evaluated = Base(e)
        /\ (x.next = 1 /\ x.results[1].status = "pending") \/ x.version = After(x, e, x.next - 1, Base(e))

----------------------------------------------------------------------------
(* Claims (RunAutomationOnce, first transaction) *)

\* Variant: executions that wait for a repetition are not looked for.
TurnUnlessWaiting(r, e) ==
    /\ runner[r].pc = "idle"
    /\ row[e].status \in ActiveStatus \ {"waiting"} /\ ~row[e].live
    /\ \A p \in 1..(e - 1) : ~Active(p)

\* A free process takes the first execution of the batch that has not ended, when
\* no lease on it is live.
Turn(r, e) ==
    /\ runner[r].pc = "idle"
    /\ Active(e) /\ ~row[e].live
    /\ \A p \in 1..(e - 1) : ~Active(p)

Result(e) == row[e].results[row[e].next]
CancelNow(e) == row[e].cancel /\ Result(e).status = "pending"

\* The results of the actions in S become s.
Mark(results, S, s) ==
    [i \in DOMAIN results |-> IF i \in S THEN [status |-> s, version |-> 0] ELSE results[i]]

\* A checkpoint that proves nothing: a person has to look at it.
Quarantine(r, e) ==
    /\ Turn(r, e)
    /\ IF row[e].context THEN ~Trusted(e) ELSE PredecessorVersion(e) = 0
    /\ row' = [row EXCEPT ![e].status = "manual_action_required"]
    /\ UNCHANGED <<runner, flight, receipt, changes, faults, surroundings>>

\* A requested cancellation, before the next action is started.
CancelRest(r, e) ==
    /\ Turn(r, e)
    /\ row[e].context /\ Trusted(e) /\ CancelNow(e)
    /\ row' = [row EXCEPT ![e].status = "cancelled",
                          ![e].results = Mark(@, row[e].next..Len(Plan[e]), "cancelled")]
    /\ UNCHANGED <<runner, flight, receipt, changes, faults, surroundings>>

ClaimEvaluation(r, e) ==
    /\ Turn(r, e)
    /\ ~row[e].context /\ PredecessorVersion(e) # 0
    /\ row' = [row EXCEPT ![e].lease = r, ![e].live = TRUE]
    /\ runner' = [runner EXCEPT ![r] = [Idle EXCEPT !.pc = "evaluate", !.command = <<e, 0>>,
                                                    !.version = PredecessorVersion(e)]]
    /\ UNCHANGED <<flight, receipt, changes, faults, surroundings>>

\* Variant: the version as it was at admission.
StartVersionOld(e) == row[e].version

\* The version an action starts from: the first one takes over what the executions
\* before have proved.
StartVersion(e) ==
    IF row[e].next = 1 /\ Result(e).status = "pending" THEN PredecessorVersion(e) ELSE row[e].version

\* Variant: the command is built anew for every repetition.
FrozenAnew(e) == Version

\* The version the command expects: frozen once, never built again for a repetition.
Frozen(e) ==
    IF row[e].dispatch[row[e].next] # 0 THEN row[e].dispatch[row[e].next] ELSE StartVersion(e)

\* The command is frozen, and the action accepted, before anything is sent.
Accepted(e, r) ==
    LET x == row[e]
        invalid == Plan[e][x.next].kind = "invalid"
    IN  [x EXCEPT !.status = "running", !.lease = r, !.live = TRUE, !.version = StartVersion(e),
                  !.dispatch[x.next] = IF invalid THEN @ ELSE Frozen(e),
                  !.results[x.next].status = IF invalid THEN @ ELSE "accepted"]

ClaimAction(r, e) ==
    /\ Turn(r, e)
    /\ row[e].context /\ Trusted(e) /\ ~CancelNow(e)
    /\ row' = [row EXCEPT ![e] = Accepted(e, r)]
    /\ runner' = [runner EXCEPT ![r] =
                     [Idle EXCEPT !.pc = "send", !.command = <<e, row[e].next>>, !.version = Frozen(e),
                                  !.reconciling = Result(e).status \in {"accepted", "unknown"}]]
    /\ UNCHANGED <<flight, receipt, changes, faults, surroundings>>

Claim(r) == \E e \in Executions :
    Quarantine(r, e) \/ CancelRest(r, e) \/ ClaimEvaluation(r, e) \/ ClaimAction(r, e)

----------------------------------------------------------------------------
(* Commands and their owners (moduleClient.command, CON, CUS, MSG) *)

\* A process hears what became of its command.
Hear(r, answer, output) ==
    runner' = [runner EXCEPT ![r].pc = "record", ![r].answer = answer, ![r].output = output]

\* A frozen failure is its own answer.
Send(r) ==
    /\ runner[r].pc = "send"
    /\ IF Kind(runner[r].command) = "invalid"
       THEN Hear(r, "refused", 0) /\ UNCHANGED flight
       ELSE /\ runner' = [runner EXCEPT ![r].pc = "wait"]
            /\ flight' = flight \cup {[command |-> runner[r].command, version |-> runner[r].version,
                                       by |-> r, checked |-> FALSE]}
    /\ UNCHANGED <<row, receipt, changes, faults, surroundings>>

\* The request ends at its owner with this answer, which is heard by whoever still
\* waits for it, or gets lost: the caller then knows nothing.
Answer(q, answer, output) ==
    /\ flight' = flight \ {q}
    /\ \/ q.by # NoRunner /\ Hear(q.by, answer, output) /\ UNCHANGED faults
       \/ q.by # NoRunner /\ faults < MaxFaults /\ Hear(q.by, "unknown", 0) /\ faults' = faults + 1
       \/ q.by = NoRunner /\ UNCHANGED <<runner, faults>>

\* The change that carries the grant of a "create".
Grant(c) == receipt[<<c[1], c[2] - 1>>]

\* Variant: the owner compares no version.
PermittedAnyVersion(q) == TRUE

\* What the owner checks in the transaction of a command: CON compares the expected
\* version under its lock.  Before that the other module has confirmed what it asks for.
Permitted(q) ==
    /\ q.command \in Asking => q.checked
    /\ Kind(q.command) = "change" => q.version = Version

\* What CON says to MSG (getAutomationMessageAuthorization): the grant still is the
\* latest change.
GrantHolds(q) == Grant(q.command) # NoReceipt /\ Grant(q.command).output = q.version /\ q.version = Version

\* What the other module says: a grant that holds, or a member, a team or a label that
\* is there.
Confirmable(q) == q.command \notin denied /\ (Kind(q.command) = "create" => GrantHolds(q))

\* The owner asks before its transaction, unless there is a receipt.
Ask(q) ==
    /\ q.command \in Asking /\ ~q.checked
    /\ receipt[q.command] = NoReceipt /\ Confirmable(q)
    /\ flight' = (flight \ {q}) \cup {[q EXCEPT !.checked = TRUE]}
    /\ UNCHANGED <<row, runner, receipt, changes, faults, surroundings>>

\* The command takes effect together with its receipt.
Perform(q) ==
    LET changing == Kind(q.command) = "change"
        output == IF changing THEN Version + 1 ELSE q.version
    IN  /\ receipt[q.command] = NoReceipt /\ Permitted(q)
        /\ receipt' = [receipt EXCEPT ![q.command] = [input |-> q.version, output |-> output]]
        /\ changes' = IF changing THEN Append(changes, q.command) ELSE changes
        /\ Answer(q, "ok", output)
        /\ UNCHANGED <<row, surroundings>>

\* The receipt answers every later request.
Replay(q) ==
    /\ receipt[q.command] # NoReceipt
    /\ IF receipt[q.command].input = q.version
       THEN Answer(q, "ok", receipt[q.command].output) ELSE Answer(q, "refused", 0)
    /\ UNCHANGED <<row, receipt, changes, surroundings>>

\* The owner refuses: it was told no; or the version it finds has moved on, which for a
\* message that was authorized says that the conversation may be deleted.
Refuse(q) ==
    /\ receipt[q.command] = NoReceipt
    /\ \/ q.command \in Asking /\ ~q.checked /\ ~Confirmable(q)
       \/ /\ q.command \in Asking => q.checked
          /\ Kind(q.command) \in {"change", "create"} /\ q.version # Version
    /\ Answer(q, "refused", 0)
    /\ UNCHANGED <<row, receipt, changes, surroundings>>

\* A refusal before the receipts are looked at, for instance after a change of keys;
\* it meets every request until AUT is let in again.
RefuseUnseen(q) ==
    /\ revoked /\ ~q.checked
    /\ Answer(q, "refused", 0)
    /\ UNCHANGED <<row, receipt, changes, surroundings>>

\* The process hears nothing in time; the request may still be running.
GiveUp(q) ==
    /\ q.by # NoRunner /\ faults < MaxFaults
    /\ faults' = faults + 1
    /\ flight' = (flight \ {q}) \cup {[q EXCEPT !.by = NoRunner]}
    /\ Hear(q.by, "unknown", 0)
    /\ UNCHANGED <<row, receipt, changes, surroundings>>

Owner(q) == Ask(q) \/ Perform(q) \/ Replay(q) \/ Refuse(q) \/ RefuseUnseen(q) \/ GiveUp(q)

----------------------------------------------------------------------------
(* Checkpoints (RunAutomationOnce, second transaction) *)

Confirms(w) ==
    w.answer = "ok" /\ Advances(w.command[1], w.command[2], w.output, w.version)

\* Variant: whatever was sent before.
RefutesAlways(w) == w.answer = "refused"

\* A refusal proves that nothing happened, unless the command was sent before.
Refutes(w) == w.answer = "refused" /\ ~w.reconciling
Unlease(x) == [x EXCEPT !.lease = NoRunner, !.live = FALSE]

\* Where an execution goes on after its action i: at n, unless it is cancelled or done.
GoOn(x, e, results, n) ==
    LET cancelled == x.cancel /\ n <= Len(Plan[e])
        after == IF cancelled THEN Mark(results, n..Len(Plan[e]), "cancelled") ELSE results
    IN  [x EXCEPT !.results = after, !.next = n,
                  !.status = IF cancelled THEN "cancelled"
                             ELSE IF n > Len(Plan[e]) THEN CompletedStatus(results) ELSE "received"]

Unknown(x, i) == [x EXCEPT !.results[i].status = "unknown", !.status = "waiting"]

\* Variants: one action too many is passed over; the next step is tried.
FailedTooFar(x, e, i) == GoOn(x, e, Mark(x.results, {i}, "failed"), i + 3)
FailedAlone(x, e, i) == GoOn(x, e, Mark(x.results, {i}, "failed"), i + 1)

\* The rest of the source action depends on the failed step and is skipped.
Failed(x, e, i) ==
    LET Rest == {j \in (i + 1)..Len(Plan[e]) : SameGroup(e, i, j)}
    IN  GoOn(x, e, Mark(Mark(x.results, {i}, "failed"), Rest, "dependent"), i + 1 + Cardinality(Rest))

Succeeded(x, e, i, output) ==
    LET y == GoOn(x, e, [x.results EXCEPT ![i] = [status |-> "succeeded", version |-> output]], i + 1)
    IN  [y EXCEPT !.version = output]

\* Variant: any process writes what it heard.
HoldsAlways(r, e) == TRUE

Holds(r, e) == row[e].lease = r

\* Only the holder of the lease writes, and an execution ends only once
\* (finishAutomationExecution): otherwise the transaction does nothing.
Record(r) ==
    LET w == runner[r]
        e == w.command[1]
        i == w.command[2]
        x == Unlease(row[e])
        y == IF Confirms(w) THEN Succeeded(x, e, i, w.output)
             ELSE IF Refutes(w) THEN Failed(x, e, i) ELSE Unknown(x, i)
    IN  /\ w.pc = "record" /\ i # 0
        /\ row' = IF Holds(r, e) /\ (y.status \in FinalStatus => Active(e))
                  THEN [row EXCEPT ![e] = y] ELSE row
        /\ runner' = [runner EXCEPT ![r] = Idle]
        /\ UNCHANGED <<flight, receipt, changes, faults, surroundings>>

----------------------------------------------------------------------------
(* Deferred conditions (completeAutomationSiblingEvaluation) *)

\* The conversation is read outside any transaction: it has moved on, the conditions
\* match or not, or the read fails, as it does while AUT is turned away.
Evaluate(r) ==
    /\ runner[r].pc = "evaluate"
    /\ \/ ~revoked /\ runner[r].version # Version /\ Hear(r, "failed", 0) /\ UNCHANGED faults
       \/ /\ ~revoked /\ runner[r].version = Version
          /\ \E answer \in {"matched", "no_match"} : Hear(r, answer, 0)
          /\ UNCHANGED faults
       \/ revoked /\ Hear(r, "unknown", 0) /\ UNCHANGED faults
       \/ faults < MaxFaults /\ faults' = faults + 1 /\ Hear(r, "unknown", 0)
    /\ UNCHANGED <<row, flight, receipt, changes, surroundings>>

\* The decision, under the same lease; a match queues the plan, unless it is empty or
\* cannot be compiled.
Decisions(x, answer, version) ==
    LET y == [Unlease(x) EXCEPT !.evaluation = answer, !.evaluated = version]
    IN  CASE answer = "matched" ->
                {[y EXCEPT !.context = TRUE, !.status = "received", !.version = FactVersion],
                 [y EXCEPT !.status = "failed"], [y EXCEPT !.status = "succeeded"]}
          [] answer = "unknown" -> {Unlease(x)}
          [] OTHER -> {[y EXCEPT !.status = answer]}

Decide(r) ==
    LET w == runner[r]
        e == w.command[1]
        x == row[e]
    IN  /\ w.pc = "record" /\ w.command[2] = 0
        /\ IF Holds(r, e) /\ x.status = "evaluating" /\ PredecessorVersion(e) = w.version
           THEN \E y \in Decisions(x, w.answer, w.version) : row' = [row EXCEPT ![e] = y]
           ELSE UNCHANGED row
        /\ runner' = [runner EXCEPT ![r] = Idle]
        /\ UNCHANGED <<flight, receipt, changes, faults, surroundings>>

----------------------------------------------------------------------------
(* What happens around the loop *)

\* cancelAutomationExecution: an action that was accepted is finished first; an
\* evaluation loses its lease at once.
CancelledNow(x) ==
    LET y == [x EXCEPT !.status = "cancelled",
                       !.results = Mark(@, {i \in DOMAIN @ : @[i].status = "pending"}, "cancelled")]
    IN  IF x.context THEN y ELSE [Unlease(x) EXCEPT !.status = "cancelled"]

\* Variant: a running execution is ended at once.
CancelledAtOnce(x) == CancelledNow(x)

Cancelled(x) == IF x.status \in {"running", "waiting"} THEN [x EXCEPT !.cancel = TRUE] ELSE CancelledNow(x)
Cancel(e) ==
    /\ Active(e)
    /\ row' = [row EXCEPT ![e] = Cancelled(@)]
    /\ UNCHANGED <<runner, flight, receipt, changes, faults, surroundings>>

\* A lease outlives every timeout of its holder: it runs out when the holder is gone,
\* or has been held up.
LeaseExpires(e) ==
    LET r == row[e].lease
        held == r # NoRunner /\ runner[r].pc # "idle" /\ runner[r].command[1] = e
    IN  /\ row[e].live
        /\ IF held THEN faults < MaxFaults /\ faults' = faults + 1 ELSE UNCHANGED faults
        /\ row' = [row EXCEPT ![e].live = FALSE]
        /\ UNCHANGED <<runner, flight, receipt, changes, surroundings>>

\* A process dies; what it sent goes on.
Crash(r) ==
    /\ runner[r].pc # "idle" /\ faults < MaxFaults
    /\ faults' = faults + 1
    /\ runner' = [runner EXCEPT ![r] = Idle]
    /\ flight' = {IF q.by = r THEN [q EXCEPT !.by = NoRunner] ELSE q : q \in flight}
    /\ UNCHANGED <<row, receipt, changes, surroundings>>

Edits == {k \in DOMAIN changes : changes[k] = Edit}
Undisturbed == Cardinality(Edits) + withdrawals < MaxDisturbances

\* Somebody else changes the conversation, or deletes it.
HumanChange ==
    /\ Cardinality(Edits) < MaxEdits /\ Undisturbed
    /\ changes' = Append(changes, Edit)
    /\ UNCHANGED <<row, runner, flight, receipt, faults, surroundings>>

\* The member, the team or the label a command names is removed, or the owner's own
\* requests to the other module are turned away; it may come back.
Withdraw(c) ==
    /\ c \notin denied /\ Undisturbed
    /\ denied' = denied \cup {c} /\ withdrawals' = withdrawals + 1
    /\ UNCHANGED revoked

Restore(c) ==
    /\ c \in denied
    /\ denied' = denied \ {c}
    /\ UNCHANGED <<revoked, withdrawals>>

\* The keys of AUT, or what it is authorized to do, are changed, and put right again.
Revoke ==
    /\ ~revoked /\ Undisturbed
    /\ revoked' = TRUE /\ withdrawals' = withdrawals + 1
    /\ UNCHANGED denied

Admit == revoked /\ revoked' = FALSE /\ UNCHANGED <<denied, withdrawals>>

Elsewhere ==
    /\ (\E c \in Asking : Withdraw(c) \/ Restore(c)) \/ Revoke \/ Admit
    /\ UNCHANGED <<row, runner, flight, receipt, changes, faults>>

Step(r) == Claim(r) \/ Send(r) \/ Evaluate(r) \/ Record(r) \/ Decide(r)

Next ==
    \/ \E r \in Runners : Step(r) \/ Crash(r)
    \/ \E q \in flight : Owner(q)
    \/ \E e \in Executions : Cancel(e) \/ LeaseExpires(e)
    \/ HumanChange \/ Elsewhere

Spec == Init /\ [][Next]_vars

\* The processes keep running and the owners answer them; leases run out.
Answered(r) == \E q \in flight : q.by = r /\ Owner(q)

FairSpec ==
    /\ Spec
    /\ \A r \in Runners : WF_vars(Step(r) \/ Answered(r))
    /\ WF_vars(\E e \in Executions : LeaseExpires(e))

----------------------------------------------------------------------------
(* Properties *)

RowType(e) ==
    [status : ActiveStatus \cup FinalStatus, context : BOOLEAN,
     evaluation : {"none", "pending", "matched", "no_match", "failed", "unreadable"},
     evaluated : Versions \cup {0}, next : 1..(Len(Plan[e]) + 1), version : Versions,
     cancel : BOOLEAN, lease : Runners \cup {NoRunner}, live : BOOLEAN,
     results : [Steps(e) -> [status : ResultStatus, version : Versions \cup {0}]],
     dispatch : [Steps(e) -> Versions \cup {0}]]

TypeOK ==
    /\ \A e \in Executions : row[e] \in RowType(e)
    /\ runner \in [Runners -> [pc : {"idle", "send", "wait", "record", "evaluate"},
                               command : Commands \cup (Executions \X {0}) \cup {Edit},
                               version : Versions \cup {0}, reconciling : BOOLEAN,
                               answer : {"", "ok", "refused", "unknown", "matched", "no_match", "failed"},
                               output : Versions \cup {0}]]
    /\ flight \subseteq [command : Commands, version : Versions, by : Runners \cup {NoRunner}, checked : BOOLEAN]
    /\ receipt \in [Commands -> [input : Versions, output : Versions] \cup {NoReceipt}]
    /\ changes \in Seq(Commands \cup {Edit})
    /\ faults \in 0..MaxFaults
    /\ denied \subseteq Asking /\ revoked \in BOOLEAN /\ withdrawals \in Nat

\* A result that says an action had no effect is the truth, and stays it: the owner
\* has no receipt of the command and no request for it is left.  (aut_runner.go: "never
\* fabricates failure".)
NoFabricatedFailure ==
    \A e \in Executions : \A i \in Steps(e) :
        row[e].results[i].status \in {"failed", "dependent", "cancelled"} =>
            /\ receipt[<<e, i>>] = NoReceipt
            /\ \A q \in flight : q.command # <<e, i>>

\* Rules act on the conversation the fact was about: once somebody else has changed it
\* no rule of the batch changes it again, and the rules before that changed it in their
\* order and in the order of their actions (aut_causality.go).
Before(c, d) == c[1] < d[1] \/ (c[1] = d[1] /\ c[2] < d[2])
FactFenced ==
    \A k, m \in DOMAIN changes :
        k < m /\ changes[m] # Edit => changes[k] # Edit /\ Before(changes[k], changes[m])

\* No order of deaths, retries, cancellations and edits writes a checkpoint the loop
\* itself would take for a corrupt one: an execution is only set aside for a row that
\* cannot be read, its own or one before it.
Damaged(e) == \E p \in 1..e : row[p].evaluation = "unreadable"
SoundNotQuarantined == \A e \in Executions : row[e].status = "manual_action_required" => Damaged(e)

\* A version a later rule goes on from is the one its predecessors really left: every
\* change they made is in it, and no request of theirs can still make one.
Inherited ==
    \A e \in Executions :
        ~Damaged(e - 1) /\ (\A p \in 1..(e - 1) : ~Active(p)) =>
            PredecessorVersion(e) = FactVersion + Cardinality({c \in Commands :
                c[1] < e /\ Kind(c) = "change" /\ receipt[c] # NoReceipt})

\* What has ended stays as it is, whatever its last holder still writes.
FinalIsFinal ==
    [][\A e \in Executions : ~Active(e) => row'[e] = row[e]]_vars

\* To the runner the owners are the store of CommandOnce: every dispatch of a command
\* carries the same input, it takes effect once, and a result that says it succeeded
\* says what its receipt says.
Outcome(c) ==
    IF receipt[c] = NoReceipt THEN NoReceipt
    ELSE [input |-> IF receipt[c].input = row[c[1]].dispatch[c[2]] THEN c ELSE Edit,
          output |-> receipt[c].output]

Reported == {c \in Commands : row[c[1]].results[c[2]].status = "succeeded"}
Once == INSTANCE CommandOnce WITH
    Callers <- Commands, Keys <- Commands,
    KeyOf <- [c \in Commands |-> c], InputOf <- [c \in Commands |-> c],
    Outputs <- Versions, Nothing <- NoReceipt,
    done <- [c \in Commands |-> Outcome(c)],
    told <- {[caller |-> c, kind |-> "ok", output |-> row[c[1]].results[c[2]].version] : c \in Reported}

ImplementsOwnerPromise == Once!Spec

\* Every execution ends, unless its owners keep it from being settled.  A command that
\* was sent once is repeated for good, and every refusal of a repetition proves nothing,
\* when its owner has no receipt of it and either somebody else has changed or deleted
\* the conversation since, or what the command names is gone and stays gone; and so is
\* every command, and every reading of the conversation, while AUT is turned away.
Refusable(c, version) ==
    /\ receipt[c] = NoReceipt
    /\ c \in denied \/ (Kind(c) \in {"change", "create"} /\ version # Version)

Unsettled(p) ==
    /\ Active(p)
    /\ IF row[p].context
       THEN /\ Result(p).status \in {"accepted", "unknown"}
            /\ revoked \/ Refusable(<<p, row[p].next>>, row[p].dispatch[row[p].next])
       ELSE revoked

Settles == <>[](\A e \in Executions : ~Active(e) \/ (\E p \in 1..e : Unsettled(p)))

=============================================================================
