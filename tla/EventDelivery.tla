--------------------------- MODULE EventDelivery ----------------------------
(***************************************************************************)
(* Events between modules (modruntime/events.go): a command appends an     *)
(* event to the outbox in its own transaction, dispatchers fan the pending *)
(* events out to the targets that subscribe to them, and every target      *)
(* applies an event and records it in its inbox in one transaction.        *)
(*                                                                         *)
(* One source module; its processes run one dispatcher each.  An event is  *)
(* its outbox row's id, ids grow in insertion order, and rows of a         *)
(* transaction that has not committed are invisible.  Targets are numbered *)
(* in the order of their names.  Applying an event is abstracted to its    *)
(* inbox row, which commits with it.                                       *)
(*                                                                         *)
(* A definition headed "Variant" is a plausible mistake in the one that    *)
(* follows it.  Nothing refers to it; put in the place of that definition  *)
(* it violates the property PROJECT.json names for it.                     *)
(***************************************************************************)
EXTENDS Naturals, FiniteSets

CONSTANTS
    Aggregates,   \* objects whose changes are published
    Types,        \* event types
    Targets,      \* modules events are fanned out to, in name order
    Subscribes,   \* per target, the event types routed to it
    Dispatchers,  \* processes of the source module
    MaxEvents,    \* bound: events appended
    Limit,        \* events one round loads (100 in RunEventFanout)
    Serialized,   \* TRUE when commands lock the aggregate's row first
    MaxFaults,    \* bound: crashes and requests that time out
    NoAggregate, NoType

ASSUME RoutingAssumption ==
    /\ Targets \subseteq Nat
    /\ Subscribes \in [Targets -> SUBSET Types]
    /\ Serialized \in BOOLEAN

ASSUME EventBoundsAssumption ==
    /\ MaxEvents \in Nat
    /\ MaxFaults \in Nat
    /\ Limit \in Nat \ {0}

ASSUME AbsentEventAssumption == NoAggregate \notin Aggregates /\ NoType \notin Types

VARIABLES
    outbox,      \* event_outbox rows by id
    made,        \* ids drawn
    receipts,    \* event_delivery rows: <<event, target>>
    inbox,       \* per target, the events of its event_consumed rows
    dispatcher,  \* where each DeliverPending call is
    late,        \* requests given up on that the target may still serve
    faults       \* faults spent

vars == <<outbox, made, receipts, inbox, dispatcher, late, faults>>

Ids == 1 .. MaxEvents

NoEvent == [agg |-> NoAggregate, type |-> NoType, version |-> 0,
            status |-> "absent"]

Waiting == [pc |-> "idle", batch |-> {}, event |-> 0, todo |-> {}, target |-> 0]

Init ==
    /\ outbox = [e \in Ids |-> NoEvent]
    /\ made = 0
    /\ receipts = {}
    /\ inbox = [t \in Targets |-> {}]
    /\ dispatcher = [d \in Dispatchers |-> Waiting]
    /\ late = {}
    /\ faults = 0

Committed == {e \in 1 .. made : outbox[e].status \in {"pending", "delivered"}}
Pending == {e \in 1 .. made : outbox[e].status = "pending"}
Subscribers(e) == {t \in Targets : outbox[e].type \in Subscribes[t]}

\* v is one more than the largest version in S.
Follows(v, S) ==
    /\ \A u \in S : u < v
    /\ v = 1 \/ v - 1 \in S

VersionsIn(S, a) == {outbox[e].version : e \in {f \in S : outbox[f].agg = a}}

First(S) == {e \in S : \A f \in S : e <= f}

(***************************************************************************)
(* The source module's commands.                                           *)
(***************************************************************************)
\* Variant: the version counts the aggregate's rows still to be delivered.
AppendAfterPending(a, type) ==
    /\ made < MaxEvents
    /\ Serialized => \A e \in 1 .. made : outbox[e].agg = a => outbox[e].status # "open"
    /\ made' = made + 1
    /\ \E v \in 1 .. MaxEvents :
          /\ Follows(v, VersionsIn(Pending, a))
          /\ outbox' = [outbox EXCEPT
               ![made + 1] = [agg |-> a, type |-> type, version |-> v,
                              status |-> "open"]]
    /\ UNCHANGED <<receipts, inbox, dispatcher, late, faults>>

\* Variant: the version is the largest one found instead of the next.
AppendLatestVersion(a, type) ==
    /\ made < MaxEvents
    /\ Serialized => \A e \in 1 .. made : outbox[e].agg = a => outbox[e].status # "open"
    /\ made' = made + 1
    /\ \E v \in 0 .. MaxEvents :
          /\ Follows(v + 1, VersionsIn(Committed, a))
          /\ outbox' = [outbox EXCEPT
               ![made + 1] = [agg |-> a, type |-> type, version |-> v,
                              status |-> "open"]]
    /\ UNCHANGED <<receipts, inbox, dispatcher, late, faults>>

\* The next version is read from the committed rows, in the command's
\* transaction; only a lock the command took before keeps another one out.
AppendBusinessEvent(a, type) ==
    /\ made < MaxEvents
    /\ Serialized => \A e \in 1 .. made : outbox[e].agg = a => outbox[e].status # "open"
    /\ made' = made + 1
    /\ \E v \in 1 .. MaxEvents :
          /\ Follows(v, VersionsIn(Committed, a))
          /\ outbox' = [outbox EXCEPT
               ![made + 1] = [agg |-> a, type |-> type, version |-> v,
                              status |-> "open"]]
    /\ UNCHANGED <<receipts, inbox, dispatcher, late, faults>>

EndCommand(e, status) ==
    /\ outbox[e].status = "open"
    /\ outbox' = [outbox EXCEPT ![e].status = status]
    /\ UNCHANGED <<made, receipts, inbox, dispatcher, late, faults>>

Commit(e) == EndCommand(e, "pending")
Rollback(e) == EndCommand(e, "rolledback")

(***************************************************************************)
(* The target: EventInbox.Consume, one transaction.                        *)
(***************************************************************************)
\* Variant: any version not seen before is applied.
AcceptsNewer(t, e) ==
    \/ e \in inbox[t]
    \/ \A u \in VersionsIn(inbox[t], outbox[e].agg) : u < outbox[e].version

\* Variant: an event applied before is refused like any other stale version.
AcceptsFreshOnly(t, e) ==
    Follows(outbox[e].version, VersionsIn(inbox[t], outbox[e].agg))

\* Applied before, or next in its aggregate's sequence; a gap is a conflict.
\* Of two transactions for one event the inbox row's key admits one, and the
\* other ends like a request that timed out.
Accepts(t, e) ==
    \/ e \in inbox[t]
    \/ Follows(outbox[e].version, VersionsIn(inbox[t], outbox[e].agg))

Consume(t, e) ==
    /\ Accepts(t, e)
    /\ inbox' = [inbox EXCEPT ![t] = @ \cup {e}]

\* A request its dispatcher gave up on is served after all.
ServeLate(t, e) ==
    /\ <<e, t>> \in late
    /\ late' = late \ {<<e, t>>}
    /\ IF Accepts(t, e) THEN Consume(t, e) ELSE UNCHANGED inbox
    /\ UNCHANGED <<outbox, made, receipts, dispatcher, faults>>

(***************************************************************************)
(* The dispatcher: DeliverPending, over and over.                          *)
(***************************************************************************)
Goto(d, s) == dispatcher' = [dispatcher EXCEPT ![d] = s]

\* One round: the oldest pending events, at most Limit of them.
LoadPending(d) ==
    /\ dispatcher[d].pc = "idle"
    /\ Pending # {}
    /\ \E batch \in SUBSET Pending :
          /\ \A e \in batch, f \in Pending \ batch : e < f
          /\ \/ Cardinality(batch) = Limit
             \/ batch = Pending /\ Cardinality(batch) < Limit
          /\ Goto(d, [Waiting EXCEPT !.pc = "next", !.batch = batch])
    /\ UNCHANGED <<outbox, made, receipts, inbox, late, faults>>

\* An event without consumers is an error that ends the round.
NextEvent(d) ==
    /\ dispatcher[d].pc = "next"
    /\ IF \A e \in First(dispatcher[d].batch) : Subscribers(e) = {}
       THEN Goto(d, Waiting)
       ELSE \E e \in First(dispatcher[d].batch) :
              Goto(d, [dispatcher[d] EXCEPT !.pc = "fanout",
                                            !.batch = @ \ {e},
                                            !.event = e,
                                            !.todo = Subscribers(e)])
    /\ UNCHANGED <<outbox, made, receipts, inbox, late, faults>>

\* A target with a receipt is skipped.
NextTarget(d) ==
    /\ dispatcher[d].pc = "fanout"
    /\ \E t \in First(dispatcher[d].todo) :
          Goto(d, [dispatcher[d] EXCEPT
                     !.pc = IF <<dispatcher[d].event, t>> \in receipts
                            THEN "fanout" ELSE "post",
                     !.todo = @ \ {t},
                     !.target = t])
    /\ UNCHANGED <<outbox, made, receipts, inbox, late, faults>>

Deliver(d) ==
    /\ dispatcher[d].pc = "post"
    /\ Consume(dispatcher[d].target, dispatcher[d].event)
    /\ Goto(d, [dispatcher[d] EXCEPT !.pc = "receipt"])
    /\ UNCHANGED <<outbox, made, receipts, late, faults>>

\* A conflict at the target ends the round: nothing behind it is delivered.
DeliverRefused(d) ==
    /\ dispatcher[d].pc = "post"
    /\ ~Accepts(dispatcher[d].target, dispatcher[d].event)
    /\ Goto(d, Waiting)
    /\ UNCHANGED <<outbox, made, receipts, inbox, late, faults>>

\* Variant: a request that timed out counts as delivered.
TimedOutAsDelivered(d) ==
    /\ dispatcher[d].pc = "post"
    /\ faults < MaxFaults
    /\ faults' = faults + 1
    /\ late' = late \cup {<<dispatcher[d].event, dispatcher[d].target>>}
    /\ Goto(d, [dispatcher[d] EXCEPT !.pc = "receipt"])
    /\ UNCHANGED <<outbox, made, receipts, inbox>>

\* No answer in time, or the target is down: the request may be served later
\* or never, and the round ends.
DeliverTimedOut(d) ==
    /\ dispatcher[d].pc = "post"
    /\ faults < MaxFaults
    /\ faults' = faults + 1
    /\ late' = late \cup {<<dispatcher[d].event, dispatcher[d].target>>}
    /\ Goto(d, Waiting)
    /\ UNCHANGED <<outbox, made, receipts, inbox>>

\* A receipt another dispatcher wrote first is no error.
WriteReceipt(d) ==
    /\ dispatcher[d].pc = "receipt"
    /\ receipts' = receipts \cup {<<dispatcher[d].event, dispatcher[d].target>>}
    /\ Goto(d, [dispatcher[d] EXCEPT !.pc = "fanout"])
    /\ UNCHANGED <<outbox, made, inbox, late, faults>>

MarkDelivered(d) ==
    /\ dispatcher[d].pc = "fanout"
    /\ dispatcher[d].todo = {}
    /\ outbox' = [outbox EXCEPT ![dispatcher[d].event].status = "delivered"]
    /\ Goto(d, IF dispatcher[d].batch = {}
               THEN Waiting
               ELSE [dispatcher[d] EXCEPT !.pc = "next"])
    /\ UNCHANGED <<made, receipts, inbox, late, faults>>

\* The process dies anywhere in DeliverPending and starts again.
CrashDispatcher(d) ==
    /\ dispatcher[d].pc # "idle"
    /\ faults < MaxFaults
    /\ faults' = faults + 1
    /\ Goto(d, Waiting)
    /\ UNCHANGED <<outbox, made, receipts, inbox, late>>

(***************************************************************************)
(* Specification.                                                          *)
(***************************************************************************)
CommandStep ==
    \/ \E a \in Aggregates, type \in Types : AppendBusinessEvent(a, type)
    \/ \E e \in Ids : Commit(e) \/ Rollback(e)

DeliverPending(d) ==
    \/ LoadPending(d)
    \/ NextEvent(d)
    \/ NextTarget(d)
    \/ Deliver(d)
    \/ DeliverRefused(d)
    \/ WriteReceipt(d)
    \/ MarkDelivered(d)

Next ==
    \/ CommandStep
    \/ \E t \in Targets, e \in Ids : ServeLate(t, e)
    \/ \E d \in Dispatchers :
          DeliverPending(d) \/ DeliverTimedOut(d) \/ CrashDispatcher(d)

Spec == Init /\ [][Next]_vars

\* RunEventFanout starts a round on every tick and every request is bounded by
\* MaxTimeout; nothing promises that a request given up on is served.
FairSpec ==
    /\ Spec
    /\ \A d \in Dispatchers : WF_vars(DeliverPending(d))

(***************************************************************************)
(* Properties.                                                             *)
(***************************************************************************)
EventRow ==
    [agg : Aggregates, type : Types, version : Ids,
     status : {"open", "pending", "delivered", "rolledback"}]

DispatcherRow ==
    [pc : {"idle", "next", "fanout", "post", "receipt"},
     batch : SUBSET Ids, event : Ids \cup {0}, todo : SUBSET Targets,
     target : Targets \cup {0}]

\* Every variable holds a value of the shape the code keeps; ids are drawn in
\* order, a round works on created events, and one in a fan-out has an event.
TypeOK ==
    /\ made \in 0 .. MaxEvents
    /\ outbox \in [Ids -> EventRow \cup {NoEvent}]
    /\ \A e \in Ids : IF e <= made THEN outbox[e] \in EventRow
                                   ELSE outbox[e] = NoEvent
    /\ receipts \subseteq Ids \X Targets
    /\ inbox \in [Targets -> SUBSET Ids]
    /\ dispatcher \in [Dispatchers -> DispatcherRow]
    /\ \A d \in Dispatchers :
          /\ dispatcher[d].batch \subseteq 1 .. made
          /\ dispatcher[d].pc \in {"fanout", "post", "receipt"} =>
                dispatcher[d].event \in 1 .. made
          /\ dispatcher[d].pc \in {"post", "receipt"} =>
                dispatcher[d].target \in Targets
    /\ late \subseteq Ids \X Targets
    /\ faults \in 0 .. MaxFaults

\* An event marked delivered was applied by every target that subscribes to it,
\* across crashes, timeouts, late requests and dispatchers that work on stale
\* batches (DeliverPending, event_delivery receipts).
DeliveredToAll ==
    \A e \in 1 .. made : outbox[e].status = "delivered" =>
        \A t \in Subscribers(e) : e \in inbox[t]

\* What a target has applied of an aggregate is the beginning of what the
\* source committed about it: no gap, no second event with one version, nothing
\* that was rolled back (EventInbox.Consume, appendBusinessEvent).
AppliedInOrder ==
    \A t \in Targets : \A e \in inbox[t] :
        /\ e \in Committed
        /\ \A f \in Committed :
              /\ outbox[f].agg = outbox[e].agg
              /\ outbox[f].version <= outbox[e].version
              => f \in inbox[t]

\* The committed events of an aggregate carry the versions 1, 2, 3 and so on,
\* each once (appendBusinessEvent).
VersionsConsecutive ==
    \A a \in Aggregates :
        LET rows == {e \in Committed : outbox[e].agg = a}
        IN  VersionsIn(rows, a) = 1 .. Cardinality(rows)

\* Every committed event is eventually delivered to all its subscribers and
\* marked so (RunEventFanout, DeliverPending).
EveryEventDelivered ==
    \A e \in Ids : outbox[e].status = "pending" ~> outbox[e].status = "delivered"

\* No target takes the event, or one that does has no use for the type of an
\* earlier event of the same aggregate and so waits for a version it never gets.
Stuck(f) ==
    /\ f \in Pending
    /\ \/ Subscribers(f) = {}
       \/ \E t \in Subscribers(f), g \in Committed :
             /\ outbox[g].agg = outbox[f].agg
             /\ outbox[g].version < outbox[f].version
             /\ t \notin Subscribers(g)

\* A committed event is eventually marked delivered, unless it or an older one
\* can never be: nothing else holds the queue up for good, no crash, timeout,
\* late request, second dispatcher or bounded round (DeliverPending).
DeliveredUnlessStuck ==
    \A e \in Ids : outbox[e].status = "pending" ~>
        outbox[e].status = "delivered" \/ \E f \in 1 .. e : Stuck(f)
=============================================================================
