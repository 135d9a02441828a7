-------------------------- MODULE CreationWorkflow --------------------------
(***************************************************************************)
(* A new conversation, the messages planned with it, and the fact that     *)
(* tells automation about it:                                              *)
(*   repository/conversation_creation_workflow.go  the plan, its           *)
(*       completion and rejection, creationWorkflowTarget                  *)
(*   repository/creation_workflow_coordinator.go   CompleteCreationWorkflow*)
(*   repository/message_creation_workflow.go  CreateCreationWorkflowMessage*)
(*   repository/conversation_repository.go    applyMessageActivity         *)
(*   repository/message_repository.go         ReconcilePendingActivity     *)
(*   repository/conversation_automation.go    PendingAutomationFactPage    *)
(*                                                                         *)
(* The conversation, its plan and the fact are committed together (CON).   *)
(* Then each planned message is committed by MSG and its activity by CON,  *)
(* in order, by the request that created the conversation, by loops that   *)
(* complete what was left, and by MSG's reconciler of activities.  The     *)
(* fact is held back until the plan is settled, and then carries the       *)
(* version the conversation has when nothing but the plan has happened to  *)
(* it: automation acts only on a conversation of exactly that version.     *)
(***************************************************************************)
EXTENDS Naturals, Sequences, FiniteSets

CONSTANTS
    N,           \* planned messages: the visitor's, and an answer for after hours
    Loops,       \* processes that complete pending workflows (AutomationBridge.Run)
    Request,     \* the request that created the conversation
    Reconciler,  \* MSG's loop over pending activities
    MaxTrouble,  \* bound: changes by people, deletions, store errors and deaths
    NoReceipt, NoCompletion

ASSUME PlanAssumption == N \in Nat \ {0} /\ MaxTrouble \in Nat
ASSUME NamesAssumption == Request # Reconciler /\ {Request, Reconciler} \cap Loops = {}

Steps == 1..N
Created == 1

\* What CON's journal says of a step: the version it found, whether that was another than
\* the plan's, and the version automation may act on; and of a completed plan.
Receipts == [before : Created..(Created + N + MaxTrouble), stale : BOOLEAN,
             target : Created..(Created + N)]

Completions == [target : {Created, Created + N}, steps : [Steps -> Receipts]]

ASSUME AbsentAssumption == NoReceipt \notin Receipts /\ NoCompletion \notin Completions

Completers == Loops \cup {Request}
Processes == Completers \cup {Reconciler}

VARIABLES
    status,    \* of the conversation: "open" stands for every status but deleting
    changes,   \* history: what made each version after the first, a step or Somebody
    receipt,   \* CON's activity receipt of each step
    plan,      \* status of the plan's row
    done,      \* the row that says the plan was completed
    message,   \* MSG's row and change of each step; "dropped" when the row is gone
    process,   \* what each process is doing, and for which step
    gate,      \* what a reader of pending facts has read of the plan
    released,  \* history: versions the fact was given out with, 0 when it was set aside
    trouble    \* how much of MaxTrouble was used

con == <<status, changes, receipt, plan, done>>
vars == <<con, message, process, gate, released, trouble>>

Somebody == 0
Version == Created + Len(changes)
Exists == status = "open"

\* The version the activity of a step is to find.
Expected(i) == Created + i - 1

Idle == [pc |-> "idle", step |-> 1]
Goto(p, pc) == process' = [process EXCEPT ![p].pc = pc]
Finish(p) == process' = [process EXCEPT ![p] = Idle]
At(p, pc) == process[p].pc = pc
Trouble == trouble < MaxTrouble /\ trouble' = trouble + 1

\* createWithInitialMessages: conversation, plan and fact in one transaction; its
\* request goes on at once.
Init ==
    /\ status = "open" /\ changes = <<>>
    /\ receipt = [i \in Steps |-> NoReceipt]
    /\ plan = "pending" /\ done = NoCompletion
    /\ message = [i \in Steps |-> "none"]
    /\ process = [p \in Processes |-> IF p = Request THEN [Idle EXCEPT !.pc = "check"] ELSE Idle]
    /\ gate = "idle"
    /\ released = {}
    /\ trouble = 0

----------------------------------------------------------------------------
(* CompleteCreationWorkflow *)

\* A loop finds the plan pending (PendingCreationWorkflows).
Begin(l) ==
    /\ At(l, "idle") /\ plan = "pending"
    /\ Goto(l, "check")
    /\ UNCHANGED <<con, message, gate, released, trouble>>

\* An error that is final, for the plan as it is and will be: a loop rejects the plan,
\* the request answers with an error.
Fails(p) == IF p \in Loops THEN Goto(p, "reject") ELSE Finish(p)

\* CreateCreationWorkflowMessage: MessageTargetExists.
Check(p) ==
    /\ At(p, "check")
    /\ IF Exists THEN Goto(p, "commit") ELSE Fails(p)
    /\ UNCHANGED <<con, message, gate, released, trouble>>

\* Then MSG's transaction: receipt, row and pending change are new, or the row that the
\* receipt names is read; it may be gone with the conversation.
Commit(p) ==
    LET i == process[p].step
    IN  /\ At(p, "commit")
        /\ message' = [message EXCEPT ![i] = IF @ = "none" THEN "pending" ELSE @]
        /\ IF message[i] = "dropped" THEN Fails(p) ELSE Goto(p, "apply")
        /\ UNCHANGED <<con, gate, released, trouble>>

\* The receipt of a step that finds the conversation in its version, or finds that
\* others have changed it: then the target stays what the plan wanted.
ReceiptAt(i, before) ==
    [before |-> before, stale |-> before # Expected(i),
     target |-> IF before = Expected(i) THEN before + 1 ELSE Expected(i)]

\* Variant: the receipt is not looked for under the lock.
ApplyAgain(p) ==
    LET i == process[p].step
    IN  /\ At(p, "apply") /\ Exists
        /\ IF Expected(i) > Version
           THEN Finish(p) /\ UNCHANGED <<changes, receipt>>
           ELSE /\ changes' = Append(changes, i)
                /\ receipt' = [receipt EXCEPT ![i] = ReceiptAt(i, Version)]
                /\ Goto(p, "mark")
        /\ UNCHANGED <<status, plan, done, message, gate, released, trouble>>

\* CON's transaction for the activity of a step, under the row lock, once.  A step that
\* comes too early is an error for now.
Apply(p) ==
    LET i == process[p].step
    IN  /\ At(p, "apply") /\ Exists
        /\ IF receipt[i] # NoReceipt
           THEN Goto(p, "mark") /\ UNCHANGED <<changes, receipt>>
           ELSE IF Expected(i) > Version
           THEN Finish(p) /\ UNCHANGED <<changes, receipt>>
           ELSE /\ changes' = Append(changes, i)
                /\ receipt' = [receipt EXCEPT ![i] = ReceiptAt(i, Version)]
                /\ Goto(p, "mark")
        /\ UNCHANGED <<status, plan, done, message, gate, released, trouble>>

\* CON refuses, its conversation is gone.
ApplyRefused(p) ==
    /\ p \in Completers /\ At(p, "apply") /\ ~Exists
    /\ Fails(p)
    /\ UNCHANGED <<con, message, gate, released, trouble>>

\* MSG's change is delivered; on to the next step, or to the end.
Mark(p) ==
    LET i == process[p].step
    IN  /\ At(p, "mark")
        /\ message' = [message EXCEPT ![i] = IF @ = "pending" THEN "delivered" ELSE @]
        /\ process' = [process EXCEPT ![p] =
              IF p = Reconciler THEN Idle
              ELSE IF i < N THEN [pc |-> "check", step |-> i + 1] ELSE [pc |-> "finalize", step |-> i]]
        /\ UNCHANGED <<con, gate, released, trouble>>

\* creationStepReceipt
ValidReceipt(i) ==
    /\ receipt[i] # NoReceipt
    /\ IF receipt[i].stale
       THEN receipt[i].before > Expected(i) /\ receipt[i].target = Expected(i)
       ELSE receipt[i].before = Expected(i) /\ receipt[i].target = receipt[i].before + 1

\* Variant: a step that was overtaken does not count.
CompletionAlwaysWhole == [target |-> Created + N, steps |-> receipt]

\* What the receipts prove: the version the plan leaves, or the one it began with when
\* somebody has come in between.
Completion ==
    [target |-> IF \E i \in Steps : receipt[i].stale THEN Created ELSE Created + N, steps |-> receipt]

\* Variant: the plan is left pending.
FinalizeWithoutStatus(p) ==
    /\ At(p, "finalize")
    /\ IF (\A i \in Steps : ValidReceipt(i)) /\ done \in {NoCompletion, Completion}
       THEN done' = Completion /\ UNCHANGED plan /\ Finish(p)
       ELSE UNCHANGED <<plan, done>> /\ Fails(p)
    /\ UNCHANGED <<status, changes, receipt, message, gate, released, trouble>>

\* FinalizeCreationWorkflow: every completion says the same.
Finalize(p) ==
    /\ At(p, "finalize")
    /\ IF (\A i \in Steps : ValidReceipt(i)) /\ done \in {NoCompletion, Completion}
       THEN /\ done' = Completion
            /\ plan' = IF plan = "pending" THEN "delivered" ELSE plan
            /\ Finish(p)
       ELSE UNCHANGED <<plan, done>> /\ Fails(p)
    /\ UNCHANGED <<status, changes, receipt, message, gate, released, trouble>>

\* RejectCreationWorkflow asks whether the conversation is there, and then rejects.
Ask(l) ==
    /\ At(l, "reject")
    /\ Goto(l, IF Exists THEN "manual" ELSE "cancelled")
    /\ UNCHANGED <<con, message, gate, released, trouble>>

Reject(l) ==
    /\ process[l].pc \in {"manual", "cancelled"}
    /\ plan' = IF plan = "pending" THEN process[l].pc ELSE plan
    /\ Finish(l)
    /\ UNCHANGED <<status, changes, receipt, done, message, gate, released, trouble>>

----------------------------------------------------------------------------
(* ReconcilePendingActivity *)

Take(i) ==
    /\ At(Reconciler, "idle") /\ message[i] = "pending"
    /\ process' = [process EXCEPT ![Reconciler] = [pc |-> "apply", step |-> i]]
    /\ UNCHANGED <<con, message, gate, released, trouble>>

\* cancelOrphanedCreate, when the conversation is gone.
CancelOrphan ==
    /\ At(Reconciler, "apply") /\ ~Exists
    /\ message' = [message EXCEPT ![process[Reconciler].step] = "dropped"]
    /\ Finish(Reconciler)
    /\ UNCHANGED <<con, gate, released, trouble>>

----------------------------------------------------------------------------
(* PendingAutomationFactPage, creationWorkflowTarget *)

\* The plan's row is read first.
ReadPlan ==
    /\ gate = "idle"
    /\ gate' = plan
    /\ UNCHANGED <<con, message, process, released, trouble>>

\* Variant: a fact whose plan is under way is given out with the version of its creation.
AnswerEarly ==
    {CASE gate = "manual" -> 0
       [] gate = "cancelled" \/ (gate # "manual" /\ done = NoCompletion) -> Created
       [] OTHER -> IF (\A i \in Steps : ValidReceipt(i)) /\ done = Completion THEN done.target ELSE 0}

\* Then the completion and its receipts: the fact is set aside, is given out, or waits.
Answer ==
    CASE gate = "manual" -> {0}
      [] gate = "cancelled" -> {Created}
      [] gate \notin {"manual", "cancelled"} /\ done = NoCompletion -> {}
      [] OTHER -> IF (\A i \in Steps : ValidReceipt(i)) /\ done = Completion THEN {done.target} ELSE {0}

GiveOut ==
    /\ gate # "idle"
    /\ released' = released \cup Answer
    /\ gate' = "idle"
    /\ UNCHANGED <<con, message, process, trouble>>

----------------------------------------------------------------------------
(* What happens meanwhile *)

\* People, other messages or routing change the conversation: always a new version.
Change ==
    /\ Exists /\ Trouble
    /\ changes' = Append(changes, Somebody)
    /\ UNCHANGED <<status, receipt, plan, done, message, process, gate, released>>

\* Delete: the durable marker.
MarkDeleting ==
    /\ Exists /\ Trouble
    /\ status' = "deleting" /\ changes' = Append(changes, Somebody)
    /\ UNCHANGED <<receipt, plan, done, message, process, gate, released>>

\* CleanupConversation takes the rows; that the conversation's own row goes later makes
\* no difference to anything here.
Cleanup ==
    /\ status = "deleting"
    /\ status' = "gone"
    /\ message' = [i \in Steps |-> IF message[i] = "none" THEN "none" ELSE "dropped"]
    /\ UNCHANGED <<changes, receipt, plan, done, process, gate, released, trouble>>

\* Variant: a loop takes any error for a final one.
InterruptedForGood(p) ==
    /\ ~At(p, "idle") /\ Trouble
    /\ IF p \in Loops /\ ~At(p, "reject") THEN Goto(p, "reject") ELSE Finish(p)
    /\ UNCHANGED <<con, message, gate, released>>

\* A process dies, or a store does not answer it: the loops begin again in a later
\* round.  (The reconciler asks CON then, and cancels what it would cancel in its next
\* round.)
Interrupted(p) ==
    /\ ~At(p, "idle") /\ Trouble
    /\ Finish(p)
    /\ UNCHANGED <<con, message, gate, released>>

Complete(p) == Check(p) \/ Commit(p) \/ Apply(p) \/ ApplyRefused(p) \/ Mark(p) \/ Finalize(p)
Loop(l) == Begin(l) \/ Complete(l) \/ Ask(l) \/ Reject(l)
Reconcile == (\E i \in Steps : Take(i)) \/ Apply(Reconciler) \/ Mark(Reconciler) \/ CancelOrphan
Gate == ReadPlan \/ GiveOut

Next ==
    \/ \E l \in Loops : Loop(l)
    \/ Complete(Request)
    \/ Reconcile
    \/ Gate
    \/ Change \/ MarkDeleting \/ Cleanup
    \/ \E p \in Processes : Interrupted(p)

Spec == Init /\ [][Next]_vars

\* The loops run every second, and so does the reader of facts; the reconcilers of
\* activities and of deletions every five.  The request may end at any time.
FairSpec ==
    /\ Spec
    /\ \A l \in Loops : WF_vars(Loop(l))
    /\ WF_vars(Reconcile) /\ WF_vars(Gate) /\ WF_vars(Cleanup)

----------------------------------------------------------------------------
(* Properties *)

\* Types; a version is made by each step once at most and by what people may do.
TypeOK ==
    /\ status \in {"open", "deleting", "gone"}
    /\ changes \in Seq(Steps \cup {Somebody}) /\ Len(changes) <= N + MaxTrouble
    /\ receipt \in [Steps -> Receipts \cup {NoReceipt}]
    /\ plan \in {"pending", "delivered", "cancelled", "manual"}
    /\ done \in Completions \cup {NoCompletion}
    /\ message \in [Steps -> {"none", "pending", "delivered", "dropped"}]
    /\ process \in [Processes -> [pc : {"idle", "check", "commit", "apply", "mark", "finalize", "reject",
                                        "manual", "cancelled"}, step : Steps]]
    /\ gate \in {"idle", "pending", "delivered", "cancelled", "manual"}
    /\ released \subseteq {0, Created, Created + N}
    /\ trouble \in 0..MaxTrouble

\* The version the fact is given out with is the one the plan alone has made; or, when
\* somebody came in between or the conversation is gone, one that it no longer has.
\* Automation never inherits the version of somebody's change ("AUT must fail its CAS",
\* conversation_repository.go:291), and while the conversation is there every reader of
\* the fact gets the same version.
TargetInheritsNothing ==
    \A t \in released :
        \/ t = Created + N /\ \A k \in Steps : k \in DOMAIN changes /\ changes[k] = k
        \/ t = Created /\ \E k \in DOMAIN changes : changes[k] = Somebody /\ (k <= N \/ ~Exists)

\* No order of completions, deaths, changes and deletions makes a sound plan look like
\* a broken one, which only a person could take up again.
NotSetAside == plan # "manual" /\ 0 \notin released

\* Every plan is settled and its fact given out; every message of it is delivered, or
\* gone with its conversation.
Settles ==
    <>[](/\ plan # "pending" /\ released # {}
         /\ \A i \in Steps : message[i] # "pending"
         /\ Exists \/ \A i \in Steps : message[i] \in {"none", "dropped"})
=============================================================================
