------------------------ MODULE EventDeliveryProofs -------------------------
(***************************************************************************)
(* Proofs about EventDelivery for every number of aggregates, targets,     *)
(* dispatchers, events and faults, and every routing of event types.       *)
(***************************************************************************)
EXTENDS EventDelivery, FiniteSetTheorems, TLAPS

(***************************************************************************)
(* Types.                                                                  *)
(***************************************************************************)

\* The empty outbox and the idle dispatchers are well typed.
LEMMA TypeInit == Init => TypeOK
  <1> SUFFICES ASSUME Init PROVE TypeOK
    OBVIOUS
  <1>1. Waiting \in DispatcherRow
    BY DEF Waiting, DispatcherRow
  <1>2. /\ dispatcher \in [Dispatchers -> DispatcherRow]
        /\ \A d \in Dispatchers : dispatcher[d].pc = "idle" /\ dispatcher[d].batch = {}
    BY <1>1 DEF Init, Waiting
  <1>3. made \in 0 .. MaxEvents /\ faults \in 0 .. MaxFaults
    BY EventBoundsAssumption DEF Init
  <1>4. /\ outbox \in [Ids -> EventRow \cup {NoEvent}]
        /\ \A e \in Ids : IF e <= made THEN outbox[e] \in EventRow
                                       ELSE outbox[e] = NoEvent
    BY EventBoundsAssumption DEF Init, Ids
  <1> QED
    BY <1>2, <1>3, <1>4 DEF Init, TypeOK

\* A dispatcher moves to a well-typed place that names existing events.
LEMMA MoveType ==
  ASSUME TypeOK, NEW d \in Dispatchers, NEW s \in DispatcherRow, Goto(d, s),
         made' = made,
         s.batch \subseteq 1 .. made,
         s.pc \in {"fanout", "post", "receipt"} => s.event \in 1 .. made,
         s.pc \in {"post", "receipt"} => s.target \in Targets
  PROVE  /\ dispatcher' \in [Dispatchers -> DispatcherRow]
         /\ \A c \in Dispatchers :
               /\ dispatcher'[c].batch \subseteq 1 .. made'
               /\ dispatcher'[c].pc \in {"fanout", "post", "receipt"} =>
                     dispatcher'[c].event \in 1 .. made'
               /\ dispatcher'[c].pc \in {"post", "receipt"} =>
                     dispatcher'[c].target \in Targets
  <1>1. dispatcher' = [dispatcher EXCEPT ![d] = s]
    BY DEF Goto
  <1>2. \A c \in Dispatchers : dispatcher'[c] = IF c = d THEN s ELSE dispatcher[c]
    BY <1>1 DEF TypeOK
  <1> QED
    BY <1>1, <1>2 DEF TypeOK

\* Going back to idle is such a move.
LEMMA WaitType ==
  /\ Waiting \in DispatcherRow
  /\ Waiting.pc = "idle" /\ Waiting.batch = {}
  BY DEF Waiting, DispatcherRow

\* Changing the status of a created event keeps the outbox well typed.
LEMMA StatusType ==
  ASSUME TypeOK, NEW e \in 1 .. made,
         NEW status \in {"open", "pending", "delivered", "rolledback"},
         outbox' = [outbox EXCEPT ![e].status = status], made' = made
  PROVE  /\ outbox' \in [Ids -> EventRow \cup {NoEvent}]
         /\ \A f \in Ids : IF f <= made' THEN outbox'[f] \in EventRow
                                         ELSE outbox'[f] = NoEvent
         /\ \A f \in Ids :
               /\ outbox'[f].agg = outbox[f].agg
               /\ outbox'[f].type = outbox[f].type
               /\ outbox'[f].version = outbox[f].version
               /\ outbox'[f].status = IF f = e THEN status ELSE outbox[f].status
  <1>1. e \in Ids /\ outbox[e] \in EventRow /\ made \in Nat
    BY EventBoundsAssumption DEF TypeOK, Ids
  <1> DEFINE row == [outbox[e] EXCEPT !.status = status]
  <1>2. row \in EventRow /\ row.agg = outbox[e].agg /\ row.type = outbox[e].type
        /\ row.version = outbox[e].version /\ row.status = status
    BY <1>1 DEF EventRow
  <1>3. outbox' = [outbox EXCEPT ![e] = row]
    BY <1>1
  <1> HIDE DEF row
  <1>4. \A f \in Ids : outbox'[f] = IF f = e THEN row ELSE outbox[f]
    BY <1>1, <1>3 DEF TypeOK
  <1>5. outbox' \in [Ids -> EventRow \cup {NoEvent}]
    BY <1>2, <1>3 DEF TypeOK
  <1>6. \A f \in Ids : IF f <= made' THEN outbox'[f] \in EventRow
                                     ELSE outbox'[f] = NoEvent
    BY <1>1, <1>2, <1>4 DEF TypeOK
  <1> QED
    BY <1>2, <1>4, <1>5, <1>6

\* Every step keeps the types.
LEMMA TypeStep == TypeOK /\ [Next]_vars => TypeOK'
  <1> SUFFICES ASSUME TypeOK, [Next]_vars PROVE TypeOK'
    OBVIOUS
  <1>0. made \in Nat /\ made <= MaxEvents /\ MaxEvents \in Nat
    BY EventBoundsAssumption DEF TypeOK
  <1>1. ASSUME NEW a \in Aggregates, NEW type \in Types, AppendBusinessEvent(a, type)
        PROVE  TypeOK'
    <2>1. PICK v \in 1 .. MaxEvents :
            outbox' = [outbox EXCEPT
              ![made + 1] = [agg |-> a, type |-> type, version |-> v,
                             status |-> "open"]]
      BY <1>1 DEF AppendBusinessEvent
    <2> DEFINE row == [agg |-> a, type |-> type, version |-> v, status |-> "open"]
    <2>2. row \in EventRow
      BY DEF EventRow, Ids
    <2>3. made' = made + 1 /\ made + 1 \in Ids
      BY <1>0, <1>1 DEF AppendBusinessEvent, Ids
    <2>4. outbox' = [outbox EXCEPT ![made + 1] = row]
      BY <2>1
    <2> HIDE DEF row
    <2>5. \A f \in Ids : outbox'[f] = IF f = made + 1 THEN row ELSE outbox[f]
      BY <2>3, <2>4 DEF TypeOK
    <2>6. outbox' \in [Ids -> EventRow \cup {NoEvent}]
      BY <2>2, <2>4 DEF TypeOK
    <2>7. \A f \in Ids : IF f <= made' THEN outbox'[f] \in EventRow
                                       ELSE outbox'[f] = NoEvent
      BY <1>0, <2>2, <2>3, <2>5 DEF TypeOK, Ids
    <2>8. 1 .. made \subseteq 1 .. made' /\ made' \in 0 .. MaxEvents
      BY <1>0, <2>3 DEF Ids
    <2> QED
      BY <1>1, <2>6, <2>7, <2>8 DEF AppendBusinessEvent, TypeOK
  <1>2. ASSUME NEW e \in Ids, NEW status \in {"pending", "rolledback"},
               EndCommand(e, status)
        PROVE  TypeOK'
    <2>1. e \in 1 .. made
      BY <1>0, <1>2 DEF EndCommand, TypeOK, Ids, NoEvent
    <2>2. /\ outbox' \in [Ids -> EventRow \cup {NoEvent}]
          /\ \A f \in Ids : IF f <= made' THEN outbox'[f] \in EventRow
                                          ELSE outbox'[f] = NoEvent
      BY <1>2, <2>1, StatusType DEF EndCommand
    <2> QED
      BY <1>2, <2>2 DEF EndCommand, TypeOK
  <1>3. ASSUME NEW t \in Targets, NEW e \in Ids, ServeLate(t, e)
        PROVE  TypeOK'
    <2>1. inbox' = [inbox EXCEPT ![t] = @ \cup {e}] \/ inbox' = inbox
      BY <1>3 DEF ServeLate, Consume
    <2>2. inbox' \in [Targets -> SUBSET Ids]
      BY <2>1 DEF TypeOK
    <2> QED
      BY <1>3, <2>2 DEF ServeLate, TypeOK
  <1>4. ASSUME NEW d \in Dispatchers, LoadPending(d)
        PROVE  TypeOK'
    <2>1. PICK batch \in SUBSET Pending :
            Goto(d, [Waiting EXCEPT !.pc = "next", !.batch = batch])
      BY <1>4 DEF LoadPending
    <2> DEFINE s == [Waiting EXCEPT !.pc = "next", !.batch = batch]
    <2>2. batch \subseteq 1 .. made /\ batch \subseteq Ids
      BY <1>0 DEF Pending, Ids
    <2>3. s \in DispatcherRow /\ s.pc = "next" /\ s.batch = batch
      BY <2>2 DEF Waiting, DispatcherRow
    <2>4. Goto(d, s) /\ made' = made
      BY <1>4, <2>1 DEF LoadPending
    <2> HIDE DEF s
    <2> QED
      BY <1>4, <2>2, <2>3, <2>4, MoveType DEF LoadPending, TypeOK
  <1>5. ASSUME NEW d \in Dispatchers, NextEvent(d)
        PROVE  TypeOK'
    <2>0. made' = made
      BY <1>5 DEF NextEvent
    <2>1. CASE Goto(d, Waiting)
      BY <1>5, <2>0, <2>1, MoveType, WaitType DEF NextEvent, TypeOK
    <2>2. ASSUME NEW e \in First(dispatcher[d].batch),
                 Goto(d, [dispatcher[d] EXCEPT !.pc = "fanout",
                                               !.batch = @ \ {e},
                                               !.event = e,
                                               !.todo = Subscribers(e)])
          PROVE  TypeOK'
      <3> DEFINE s == [dispatcher[d] EXCEPT !.pc = "fanout",
                                            !.batch = @ \ {e},
                                            !.event = e,
                                            !.todo = Subscribers(e)]
      <3>1. dispatcher[d] \in DispatcherRow /\ dispatcher[d].batch \subseteq 1 .. made
        BY DEF TypeOK
      <3>2. e \in 1 .. made /\ e \in Ids
        BY <1>0, <3>1 DEF First, Ids
      <3>3. s \in DispatcherRow /\ s.pc = "fanout" /\ s.event = e
            /\ s.batch = dispatcher[d].batch \ {e}
        BY <3>1, <3>2 DEF DispatcherRow, Subscribers
      <3>4. Goto(d, s)
        BY <2>2
      <3> HIDE DEF s
      <3> QED
        BY <1>5, <2>0, <3>1, <3>2, <3>3, <3>4, MoveType DEF NextEvent, TypeOK
    <2> QED
      BY <1>5, <2>1, <2>2 DEF NextEvent
  <1>6. ASSUME NEW d \in Dispatchers, NextTarget(d)
        PROVE  TypeOK'
    <2>1. PICK t \in First(dispatcher[d].todo) :
            Goto(d, [dispatcher[d] EXCEPT
                       !.pc = IF <<dispatcher[d].event, t>> \in receipts
                              THEN "fanout" ELSE "post",
                       !.todo = @ \ {t},
                       !.target = t])
      BY <1>6 DEF NextTarget
    <2> DEFINE pc == IF <<dispatcher[d].event, t>> \in receipts
                     THEN "fanout" ELSE "post"
    <2>2. pc \in {"fanout", "post"}
      OBVIOUS
    <2> HIDE DEF pc
    <2> DEFINE s == [dispatcher[d] EXCEPT !.pc = pc, !.todo = @ \ {t}, !.target = t]
    <2>3. dispatcher[d] \in DispatcherRow /\ dispatcher[d].batch \subseteq 1 .. made
          /\ dispatcher[d].event \in 1 .. made
      BY <1>6 DEF NextTarget, TypeOK
    <2>4. t \in Targets
      BY <2>3 DEF First, DispatcherRow
    <2>5. s \in DispatcherRow /\ s.event = dispatcher[d].event /\ s.target = t
          /\ s.batch = dispatcher[d].batch
      BY <2>2, <2>3, <2>4 DEF DispatcherRow
    <2>6. Goto(d, s) /\ made' = made
      BY <1>6, <2>1 DEF NextTarget, pc
    <2> HIDE DEF s
    <2> QED
      BY <1>6, <2>3, <2>4, <2>5, <2>6, MoveType DEF NextTarget, TypeOK
  <1>7. ASSUME NEW d \in Dispatchers, Deliver(d)
        PROVE  TypeOK'
    <2> DEFINE s == [dispatcher[d] EXCEPT !.pc = "receipt"]
    <2>1. dispatcher[d] \in DispatcherRow /\ dispatcher[d].batch \subseteq 1 .. made
          /\ dispatcher[d].event \in 1 .. made /\ dispatcher[d].target \in Targets
      BY <1>7 DEF Deliver, TypeOK
    <2>2. s \in DispatcherRow /\ s.event = dispatcher[d].event
          /\ s.target = dispatcher[d].target /\ s.batch = dispatcher[d].batch
      BY <2>1 DEF DispatcherRow
    <2>3. Goto(d, s) /\ made' = made
      BY <1>7 DEF Deliver
    <2>4. inbox' \in [Targets -> SUBSET Ids]
      BY <1>0, <1>7, <2>1 DEF Deliver, Consume, TypeOK, Ids
    <2> HIDE DEF s
    <2> QED
      BY <1>7, <2>1, <2>2, <2>3, <2>4, MoveType DEF Deliver, TypeOK
  <1>8. ASSUME NEW d \in Dispatchers,
               DeliverRefused(d) \/ DeliverTimedOut(d) \/ CrashDispatcher(d)
        PROVE  TypeOK'
    <2>1. Goto(d, Waiting) /\ made' = made /\ outbox' = outbox
          /\ receipts' = receipts /\ inbox' = inbox
      BY <1>8 DEF DeliverRefused, DeliverTimedOut, CrashDispatcher
    <2>2. faults' \in 0 .. MaxFaults
      BY <1>8, EventBoundsAssumption
      DEF DeliverRefused, DeliverTimedOut, CrashDispatcher, TypeOK
    <2>3. late' \subseteq Ids \X Targets
      <3>1. CASE DeliverTimedOut(d)
        <4>1. dispatcher[d].event \in Ids /\ dispatcher[d].target \in Targets
          BY <1>0, <3>1 DEF DeliverTimedOut, TypeOK, Ids
        <4> QED
          BY <3>1, <4>1 DEF DeliverTimedOut, TypeOK
      <3> QED
        BY <1>8, <3>1 DEF DeliverRefused, CrashDispatcher, TypeOK
    <2> QED
      BY <2>1, <2>2, <2>3, MoveType, WaitType DEF TypeOK
  <1>9. ASSUME NEW d \in Dispatchers, WriteReceipt(d)
        PROVE  TypeOK'
    <2> DEFINE s == [dispatcher[d] EXCEPT !.pc = "fanout"]
    <2>1. dispatcher[d] \in DispatcherRow /\ dispatcher[d].batch \subseteq 1 .. made
          /\ dispatcher[d].event \in 1 .. made /\ dispatcher[d].target \in Targets
      BY <1>9 DEF WriteReceipt, TypeOK
    <2>2. s \in DispatcherRow /\ s.event = dispatcher[d].event
          /\ s.target = dispatcher[d].target /\ s.batch = dispatcher[d].batch
      BY <2>1 DEF DispatcherRow
    <2>3. Goto(d, s) /\ made' = made
      BY <1>9 DEF WriteReceipt
    <2>4. receipts' \subseteq Ids \X Targets
      BY <1>0, <1>9, <2>1 DEF WriteReceipt, TypeOK, Ids
    <2> HIDE DEF s
    <2> QED
      BY <1>9, <2>1, <2>2, <2>3, <2>4, MoveType DEF WriteReceipt, TypeOK
  <1>10. ASSUME NEW d \in Dispatchers, MarkDelivered(d)
         PROVE  TypeOK'
    <2> DEFINE s == IF dispatcher[d].batch = {} THEN Waiting
                    ELSE [dispatcher[d] EXCEPT !.pc = "next"]
    <2>1. dispatcher[d] \in DispatcherRow /\ dispatcher[d].batch \subseteq 1 .. made
          /\ dispatcher[d].event \in 1 .. made
      BY <1>10 DEF MarkDelivered, TypeOK
    <2>2. s \in DispatcherRow /\ s.pc \in {"idle", "next"} /\ s.batch \subseteq 1 .. made
      BY <2>1, WaitType DEF DispatcherRow
    <2>3. Goto(d, s) /\ made' = made
      BY <1>10 DEF MarkDelivered
    <2>4. /\ outbox' \in [Ids -> EventRow \cup {NoEvent}]
          /\ \A f \in Ids : IF f <= made' THEN outbox'[f] \in EventRow
                                          ELSE outbox'[f] = NoEvent
      BY <1>10, <2>1, StatusType DEF MarkDelivered
    <2> HIDE DEF s
    <2> QED
      BY <1>10, <2>2, <2>3, <2>4, MoveType DEF MarkDelivered, TypeOK
  <1>11. CASE UNCHANGED vars
    BY <1>11 DEF vars, TypeOK, Pending
  <1> QED
    BY <1>1, <1>2, <1>3, <1>4, <1>5, <1>6, <1>7, <1>8, <1>9, <1>10, <1>11
    DEF Next, CommandStep, DeliverPending, Commit, Rollback

\* TypeOK holds in every reachable state.
THEOREM TypeCorrect == Spec => []TypeOK
  BY TypeInit, TypeStep, PTL DEF Spec

(***************************************************************************)
(* Delivery.                                                               *)
(***************************************************************************)

\* A receipt is written only for what its target applied.
ReceiptsApplied ==
    \A e \in Ids, t \in Targets : <<e, t>> \in receipts => e \in inbox[t]

\* A dispatcher in a fan-out has only applied targets behind it, except the one
\* it is posting to.
FanoutApplied ==
    \A d \in Dispatchers :
        /\ dispatcher[d].pc \in {"fanout", "post", "receipt"} =>
              \A t \in Subscribers(dispatcher[d].event) \ dispatcher[d].todo :
                  \/ dispatcher[d].event \in inbox[t]
                  \/ dispatcher[d].pc = "post" /\ t = dispatcher[d].target
        /\ dispatcher[d].pc = "receipt" =>
              dispatcher[d].event \in inbox[dispatcher[d].target]

\* DeliveredToAll is not inductive: the mark rests on what the dispatcher has
\* behind it, and that on the receipts it skipped.
DeliveryInvariant == ReceiptsApplied /\ FanoutApplied /\ DeliveredToAll

\* The empty outbox has delivered nothing.
LEMMA DeliveryInit == Init => DeliveryInvariant
  <1> SUFFICES ASSUME Init PROVE DeliveryInvariant
    OBVIOUS
  <1>1. 1 .. made = {} /\ receipts = {} /\ \A d \in Dispatchers : dispatcher[d].pc = "idle"
    BY DEF Init, Waiting
  <1> QED
    BY <1>1 DEF DeliveryInvariant, ReceiptsApplied, FanoutApplied, DeliveredToAll

\* What targets have applied only grows and a created event keeps its
\* subscribers: a step that marks nothing delivered and whose dispatchers stay,
\* wait or move to a place that keeps FanoutApplied keeps the invariant.
LEMMA FanoutMove ==
  ASSUME TypeOK, DeliveryInvariant, TypeOK',
         NEW d \in Dispatchers, NEW s \in DispatcherRow, Goto(d, s),
         \A t \in Targets : inbox[t] \subseteq inbox'[t],
         \A e \in 1 .. made : outbox'[e].type = outbox[e].type,
         s.pc \in {"fanout", "post", "receipt"} =>
            /\ s.event \in 1 .. made
            /\ \A t \in Subscribers(s.event) \ s.todo :
                  \/ s.event \in inbox'[t]
                  \/ s.pc = "post" /\ t = s.target,
         s.pc = "receipt" => s.event \in inbox'[s.target]
  PROVE  FanoutApplied'
  <1>1. \A c \in Dispatchers : dispatcher'[c] = IF c = d THEN s ELSE dispatcher[c]
    BY DEF Goto, TypeOK
  <1>2. \A e \in 1 .. made : Subscribers(e)' = Subscribers(e)
    BY DEF Subscribers
  <1> SUFFICES ASSUME NEW c \in Dispatchers
               PROVE  /\ dispatcher'[c].pc \in {"fanout", "post", "receipt"} =>
                            \A t \in Subscribers(dispatcher[c].event)' \ dispatcher'[c].todo :
                               \/ dispatcher'[c].event \in inbox'[t]
                               \/ dispatcher'[c].pc = "post" /\ t = dispatcher'[c].target
                      /\ dispatcher'[c].pc = "receipt" =>
                            dispatcher'[c].event \in inbox'[dispatcher'[c].target]
    BY DEF FanoutApplied
  <1>3. CASE c = d
    <2>1. dispatcher'[c] = s
      BY <1>1, <1>3
    <2>2. s.pc \in {"fanout", "post", "receipt"} => Subscribers(s.event)' = Subscribers(s.event)
      BY <1>2
    <2>3. Subscribers(dispatcher[c].event)' = {t \in Targets : outbox'[s.event].type \in Subscribes[t]}
      BY <2>1 DEF Subscribers
    <2>4. Subscribers(s.event)' = {t \in Targets : outbox'[s.event].type \in Subscribes[t]}
      BY DEF Subscribers
    <2> QED
      BY <2>1, <2>2, <2>3, <2>4
  <1>4. CASE c # d
    <2>1. dispatcher'[c] = dispatcher[c]
      BY <1>1, <1>4
    <2>2. dispatcher[c].pc \in {"fanout", "post", "receipt"} =>
            /\ dispatcher[c].event \in 1 .. made
            /\ Subscribers(dispatcher[c].event)' = Subscribers(dispatcher[c].event)
      <3>1. dispatcher[c].pc \in {"fanout", "post", "receipt"} => dispatcher[c].event \in 1 .. made
        BY DEF TypeOK
      <3>2. Subscribers(dispatcher[c].event)'
              = {t \in Targets : outbox'[dispatcher[c].event].type \in Subscribes[t]}
        BY <2>1 DEF Subscribers
      <3>3. Subscribers(dispatcher[c].event)
              = {t \in Targets : outbox[dispatcher[c].event].type \in Subscribes[t]}
        BY DEF Subscribers
      <3> QED
        BY <3>1, <3>2, <3>3
    <2>3. \A t \in Subscribers(dispatcher[c].event) : t \in Targets
      BY DEF Subscribers
    <2>4. dispatcher[c].pc = "receipt" => dispatcher[c].target \in Targets
      BY DEF TypeOK
    <2> QED
      BY <2>1, <2>2, <2>3, <2>4 DEF DeliveryInvariant, FanoutApplied
  <1> QED
    BY <1>3, <1>4

\* A step that marks nothing delivered keeps DeliveredToAll.
LEMMA MarksStay ==
  ASSUME TypeOK, DeliveryInvariant, TypeOK',
         \A t \in Targets : inbox[t] \subseteq inbox'[t],
         \A e \in 1 .. made' : outbox'[e].status = "delivered" =>
            /\ e \in 1 .. made
            /\ outbox[e].status = "delivered"
            /\ outbox'[e].type = outbox[e].type
  PROVE  DeliveredToAll'
  <1> SUFFICES ASSUME NEW e \in 1 .. made', outbox'[e].status = "delivered",
                      NEW t \in Targets, outbox'[e].type \in Subscribes[t]
               PROVE  e \in inbox'[t]
    BY DEF DeliveredToAll, Subscribers
  <1>1. e \in 1 .. made /\ outbox[e].status = "delivered" /\ t \in Subscribers(e)
    BY DEF Subscribers
  <1> QED
    BY <1>1 DEF DeliveryInvariant, DeliveredToAll

\* Receipts stay true as long as none is added.
LEMMA ReceiptsStay ==
  ASSUME DeliveryInvariant, receipts' = receipts,
         \A t \in Targets : inbox[t] \subseteq inbox'[t]
  PROVE  ReceiptsApplied'
  BY DEF DeliveryInvariant, ReceiptsApplied

\* The targets' inboxes only grow.
LEMMA InboxGrows ==
  ASSUME TypeOK, NEW t \in Targets, NEW e, Consume(t, e)
  PROVE  /\ \A u \in Targets : inbox[u] \subseteq inbox'[u]
         /\ e \in inbox'[t]
  BY DEF Consume, TypeOK

\* Every step keeps the delivery invariant.
LEMMA DeliveryStep ==
  TypeOK /\ DeliveryInvariant /\ [Next]_vars /\ TypeOK' => DeliveryInvariant'
  <1> SUFFICES ASSUME TypeOK, DeliveryInvariant, [Next]_vars, TypeOK'
               PROVE  DeliveryInvariant'
    OBVIOUS
  <1>0. made \in Nat /\ MaxEvents \in Nat /\ 1 .. made \subseteq Ids
    BY EventBoundsAssumption DEF TypeOK, Ids
  <1>1. ASSUME receipts' = receipts, dispatcher' = dispatcher,
               \A t \in Targets : inbox[t] \subseteq inbox'[t],
               \A e \in 1 .. made : outbox'[e].type = outbox[e].type,
               \A e \in 1 .. made' : outbox'[e].status = "delivered" =>
                  /\ e \in 1 .. made
                  /\ outbox[e].status = "delivered"
        PROVE  DeliveryInvariant'
    <2>1. DeliveredToAll'
      BY <1>1, MarksStay
    <2>2. ReceiptsApplied'
      BY <1>1, ReceiptsStay
    <2>3. FanoutApplied'
      <3> SUFFICES ASSUME NEW d \in Dispatchers PROVE FanoutApplied'
        BY DEF FanoutApplied
      <3>1. Goto(d, dispatcher[d]) /\ dispatcher[d] \in DispatcherRow
        BY <1>1 DEF Goto, TypeOK
      <3>2. dispatcher[d].pc \in {"fanout", "post", "receipt"} =>
              /\ dispatcher[d].event \in 1 .. made
              /\ \A t \in Subscribers(dispatcher[d].event) \ dispatcher[d].todo :
                    \/ dispatcher[d].event \in inbox'[t]
                    \/ dispatcher[d].pc = "post" /\ t = dispatcher[d].target
        BY <1>1 DEF DeliveryInvariant, FanoutApplied, TypeOK, Subscribers
      <3>3. dispatcher[d].pc = "receipt" =>
              dispatcher[d].event \in inbox'[dispatcher[d].target]
        BY <1>1 DEF DeliveryInvariant, FanoutApplied, TypeOK
      <3> QED
        BY <1>1, <3>1, <3>2, <3>3, FanoutMove
    <2> QED
      BY <2>1, <2>2, <2>3 DEF DeliveryInvariant
  <1>2. ASSUME NEW a \in Aggregates, NEW type \in Types, AppendBusinessEvent(a, type)
        PROVE  DeliveryInvariant'
    <2>0. PICK v \in 1 .. MaxEvents :
            outbox' = [outbox EXCEPT
              ![made + 1] = [agg |-> a, type |-> type, version |-> v,
                             status |-> "open"]]
      BY <1>2 DEF AppendBusinessEvent
    <2> DEFINE row == [agg |-> a, type |-> type, version |-> v, status |-> "open"]
    <2>1. outbox' = [outbox EXCEPT ![made + 1] = row] /\ row.status = "open"
      BY <2>0
    <2> HIDE DEF row
    <2>2. made + 1 \in Ids /\ made' = made + 1
      BY <1>0, <1>2 DEF AppendBusinessEvent, Ids
    <2>3. \A e \in Ids : outbox'[e] = IF e = made + 1 THEN row ELSE outbox[e]
      BY <2>1, <2>2 DEF TypeOK
    <2>4. \A e \in 1 .. made : outbox'[e] = outbox[e]
      BY <1>0, <2>3
    <2>5. \A e \in 1 .. made' : outbox'[e].status = "delivered" =>
            e \in 1 .. made /\ outbox[e].status = "delivered"
      <3> SUFFICES ASSUME NEW e \in 1 .. made', outbox'[e].status = "delivered"
                   PROVE  e \in 1 .. made /\ outbox[e].status = "delivered"
        OBVIOUS
      <3>1. e \in 1 .. made \/ e = made + 1
        BY <1>0, <2>2
      <3>2. e # made + 1
        BY <2>1, <2>2, <2>3
      <3> QED
        BY <2>4, <3>1, <3>2
    <2> QED
      BY <1>1, <1>2, <2>4, <2>5 DEF AppendBusinessEvent
  <1>3. ASSUME NEW e \in Ids, NEW status \in {"pending", "rolledback"},
               EndCommand(e, status)
        PROVE  DeliveryInvariant'
    <2>1. e \in 1 .. made
      BY <1>0, <1>3 DEF EndCommand, TypeOK, Ids, NoEvent
    <2>2. CASE status = "pending"
      <3>1. outbox' = [outbox EXCEPT ![e].status = "pending"] /\ made' = made
        BY <1>3, <2>2 DEF EndCommand
      <3>2. \A f \in Ids :
               /\ outbox'[f].type = outbox[f].type
               /\ outbox'[f].status = IF f = e THEN "pending" ELSE outbox[f].status
        BY <2>1, <3>1, StatusType
      <3> QED
        BY <1>0, <1>1, <1>3, <2>1, <3>1, <3>2 DEF EndCommand
    <2>3. CASE status = "rolledback"
      <3>1. outbox' = [outbox EXCEPT ![e].status = "rolledback"] /\ made' = made
        BY <1>3, <2>3 DEF EndCommand
      <3>2. \A f \in Ids :
               /\ outbox'[f].type = outbox[f].type
               /\ outbox'[f].status = IF f = e THEN "rolledback" ELSE outbox[f].status
        BY <2>1, <3>1, StatusType
      <3> QED
        BY <1>0, <1>1, <1>3, <2>1, <3>1, <3>2 DEF EndCommand
    <2> QED
      BY <2>2, <2>3
  <1>4. ASSUME NEW t \in Targets, NEW e \in Ids, ServeLate(t, e)
        PROVE  DeliveryInvariant'
    <2>1. \A u \in Targets : inbox[u] \subseteq inbox'[u]
      BY <1>4, InboxGrows DEF ServeLate
    <2> QED
      BY <1>1, <1>4, <2>1 DEF ServeLate
  <1>5. ASSUME NEW d \in Dispatchers, NEW s \in DispatcherRow, Goto(d, s),
               outbox' = outbox, made' = made, receipts' = receipts,
               \A t \in Targets : inbox[t] \subseteq inbox'[t],
               s.pc \in {"fanout", "post", "receipt"} =>
                  /\ s.event \in 1 .. made
                  /\ \A t \in Subscribers(s.event) \ s.todo :
                        \/ s.event \in inbox'[t]
                        \/ s.pc = "post" /\ t = s.target,
               s.pc = "receipt" => s.event \in inbox'[s.target]
        PROVE  DeliveryInvariant'
    <2>1. FanoutApplied'
      BY <1>5, FanoutMove
    <2>2. DeliveredToAll' /\ ReceiptsApplied'
      BY <1>5, MarksStay, ReceiptsStay
    <2> QED
      BY <2>1, <2>2 DEF DeliveryInvariant
  <1>6. ASSUME NEW d \in Dispatchers, Goto(d, Waiting), outbox' = outbox,
               made' = made, receipts' = receipts, inbox' = inbox
        PROVE  DeliveryInvariant'
    BY <1>5, <1>6, WaitType
  <1>7. ASSUME NEW d \in Dispatchers, LoadPending(d)
        PROVE  DeliveryInvariant'
    <2>1. PICK batch \in SUBSET Pending :
            Goto(d, [Waiting EXCEPT !.pc = "next", !.batch = batch])
      BY <1>7 DEF LoadPending
    <2> DEFINE s == [Waiting EXCEPT !.pc = "next", !.batch = batch]
    <2>2. s \in DispatcherRow /\ s.pc = "next"
      BY <1>0 DEF Waiting, DispatcherRow, Pending
    <2>3. Goto(d, s)
      BY <2>1
    <2> HIDE DEF s
    <2> QED
      BY <1>5, <1>7, <2>2, <2>3 DEF LoadPending
  <1>8. ASSUME NEW d \in Dispatchers, NextEvent(d)
        PROVE  DeliveryInvariant'
    <2>1. CASE Goto(d, Waiting)
      BY <1>6, <1>8, <2>1 DEF NextEvent
    <2>2. ASSUME NEW e \in First(dispatcher[d].batch),
                 Goto(d, [dispatcher[d] EXCEPT !.pc = "fanout",
                                               !.batch = @ \ {e},
                                               !.event = e,
                                               !.todo = Subscribers(e)])
          PROVE  DeliveryInvariant'
      <3> DEFINE s == [dispatcher[d] EXCEPT !.pc = "fanout",
                                            !.batch = @ \ {e},
                                            !.event = e,
                                            !.todo = Subscribers(e)]
      <3>1. dispatcher[d] \in DispatcherRow /\ e \in 1 .. made
        BY DEF TypeOK, First
      <3>2. s \in DispatcherRow /\ s.pc = "fanout" /\ s.event = e
            /\ s.todo = Subscribers(e)
        BY <1>0, <3>1 DEF DispatcherRow, Subscribers
      <3>3. Goto(d, s)
        BY <2>2
      <3> HIDE DEF s
      <3> QED
        BY <1>5, <1>8, <3>1, <3>2, <3>3 DEF NextEvent
    <2> QED
      BY <1>8, <2>1, <2>2 DEF NextEvent
  <1>9. ASSUME NEW d \in Dispatchers, NextTarget(d)
        PROVE  DeliveryInvariant'
    <2>1. PICK t \in First(dispatcher[d].todo) :
            Goto(d, [dispatcher[d] EXCEPT
                       !.pc = IF <<dispatcher[d].event, t>> \in receipts
                              THEN "fanout" ELSE "post",
                       !.todo = @ \ {t},
                       !.target = t])
      BY <1>9 DEF NextTarget
    <2> DEFINE pc == IF <<dispatcher[d].event, t>> \in receipts
                     THEN "fanout" ELSE "post"
    <2>2. pc \in {"fanout", "post"}
      OBVIOUS
    <2>3. dispatcher[d] \in DispatcherRow /\ dispatcher[d].event \in 1 .. made
          /\ dispatcher[d].pc = "fanout"
      BY <1>9 DEF NextTarget, TypeOK
    <2>4. t \in Targets
      BY <2>3 DEF First, DispatcherRow
    <2>5. pc = "fanout" => dispatcher[d].event \in inbox[t]
      BY <1>0, <2>3, <2>4 DEF DeliveryInvariant, ReceiptsApplied
    <2> HIDE DEF pc
    <2> DEFINE s == [dispatcher[d] EXCEPT !.pc = pc, !.todo = @ \ {t}, !.target = t]
    <2>6. s \in DispatcherRow /\ s.event = dispatcher[d].event /\ s.target = t
          /\ s.pc = pc /\ s.todo = dispatcher[d].todo \ {t}
      BY <2>2, <2>3, <2>4 DEF DispatcherRow
    <2>7. Goto(d, s)
      BY <2>1 DEF pc
    <2>8. \A u \in Subscribers(dispatcher[d].event) \ dispatcher[d].todo :
            dispatcher[d].event \in inbox[u]
      BY <2>3 DEF DeliveryInvariant, FanoutApplied
    <2> HIDE DEF s
    <2>9. \A u \in Subscribers(s.event) \ s.todo :
            s.event \in inbox[u] \/ (s.pc = "post" /\ u = s.target)
      BY <2>2, <2>5, <2>6, <2>8
    <2> QED
      BY <1>5, <1>9, <2>2, <2>3, <2>6, <2>7, <2>9 DEF NextTarget
  <1>10. ASSUME NEW d \in Dispatchers, Deliver(d)
         PROVE  DeliveryInvariant'
    <2> DEFINE s == [dispatcher[d] EXCEPT !.pc = "receipt"]
    <2>1. dispatcher[d] \in DispatcherRow /\ dispatcher[d].pc = "post"
          /\ dispatcher[d].event \in 1 .. made /\ dispatcher[d].target \in Targets
      BY <1>10 DEF Deliver, TypeOK
    <2>2. s \in DispatcherRow /\ s.event = dispatcher[d].event /\ s.pc = "receipt"
          /\ s.target = dispatcher[d].target /\ s.todo = dispatcher[d].todo
      BY <2>1 DEF DispatcherRow
    <2>3. Goto(d, s)
      BY <1>10 DEF Deliver
    <2>4. /\ \A u \in Targets : inbox[u] \subseteq inbox'[u]
          /\ dispatcher[d].event \in inbox'[dispatcher[d].target]
      BY <1>10, <2>1, InboxGrows DEF Deliver
    <2> HIDE DEF s
    <2>5. \A u \in Subscribers(s.event) \ s.todo : s.event \in inbox'[u]
      BY <2>1, <2>2, <2>4 DEF DeliveryInvariant, FanoutApplied, Subscribers
    <2> QED
      BY <1>5, <1>10, <2>1, <2>2, <2>3, <2>4, <2>5 DEF Deliver
  <1>11. ASSUME NEW d \in Dispatchers,
                DeliverRefused(d) \/ DeliverTimedOut(d) \/ CrashDispatcher(d)
         PROVE  DeliveryInvariant'
    BY <1>6, <1>11 DEF DeliverRefused, DeliverTimedOut, CrashDispatcher
  <1>12. ASSUME NEW d \in Dispatchers, WriteReceipt(d)
         PROVE  DeliveryInvariant'
    <2> DEFINE s == [dispatcher[d] EXCEPT !.pc = "fanout"]
    <2>1. dispatcher[d] \in DispatcherRow /\ dispatcher[d].pc = "receipt"
          /\ dispatcher[d].event \in 1 .. made /\ dispatcher[d].target \in Targets
      BY <1>12 DEF WriteReceipt, TypeOK
    <2>2. s \in DispatcherRow /\ s.event = dispatcher[d].event /\ s.pc = "fanout"
          /\ s.target = dispatcher[d].target /\ s.todo = dispatcher[d].todo
      BY <2>1 DEF DispatcherRow
    <2>3. Goto(d, s)
      BY <1>12 DEF WriteReceipt
    <2>4. /\ \A u \in Subscribers(dispatcher[d].event) \ dispatcher[d].todo :
                dispatcher[d].event \in inbox[u]
          /\ dispatcher[d].event \in inbox[dispatcher[d].target]
      BY <2>1 DEF DeliveryInvariant, FanoutApplied
    <2>5. inbox' = inbox /\ outbox' = outbox /\ made' = made
      BY <1>12 DEF WriteReceipt
    <2> HIDE DEF s
    <2>6. FanoutApplied'
      BY <2>1, <2>2, <2>3, <2>4, <2>5, FanoutMove
    <2>7. DeliveredToAll'
      BY <2>5, MarksStay
    <2>8. ReceiptsApplied'
      BY <1>12, <2>4, <2>5 DEF WriteReceipt, DeliveryInvariant, ReceiptsApplied
    <2> QED
      BY <2>6, <2>7, <2>8 DEF DeliveryInvariant
  <1>13. ASSUME NEW d \in Dispatchers, MarkDelivered(d)
         PROVE  DeliveryInvariant'
    <2> DEFINE s == IF dispatcher[d].batch = {} THEN Waiting
                    ELSE [dispatcher[d] EXCEPT !.pc = "next"]
    <2>1. dispatcher[d] \in DispatcherRow /\ dispatcher[d].pc = "fanout"
          /\ dispatcher[d].event \in 1 .. made /\ dispatcher[d].todo = {}
      BY <1>13 DEF MarkDelivered, TypeOK
    <2>2. s \in DispatcherRow /\ s.pc \in {"idle", "next"}
      BY <2>1, WaitType DEF DispatcherRow
    <2>3. Goto(d, s)
      BY <1>13 DEF MarkDelivered
    <2>4. \A u \in Subscribers(dispatcher[d].event) : dispatcher[d].event \in inbox[u]
      BY <2>1 DEF DeliveryInvariant, FanoutApplied
    <2>5. \A f \in Ids :
             /\ outbox'[f].type = outbox[f].type
             /\ outbox'[f].status = IF f = dispatcher[d].event THEN "delivered"
                                                               ELSE outbox[f].status
      BY <1>13, <2>1, StatusType DEF MarkDelivered
    <2>6. inbox' = inbox /\ made' = made /\ receipts' = receipts
      BY <1>13 DEF MarkDelivered
    <2> HIDE DEF s
    <2>7. FanoutApplied'
      BY <1>0, <2>2, <2>3, <2>5, <2>6, FanoutMove
    <2>8. DeliveredToAll'
      <3> SUFFICES ASSUME NEW e \in 1 .. made, outbox'[e].status = "delivered",
                          NEW t \in Targets, outbox'[e].type \in Subscribes[t]
                   PROVE  e \in inbox[t]
        BY <2>6 DEF DeliveredToAll, Subscribers
      <3>1. e \in Ids /\ t \in Subscribers(e)
        BY <1>0, <2>5 DEF Subscribers
      <3>2. e = dispatcher[d].event \/ outbox[e].status = "delivered"
        BY <2>5, <3>1
      <3> QED
        BY <2>4, <3>1, <3>2 DEF DeliveryInvariant, DeliveredToAll
    <2>9. ReceiptsApplied'
      BY <2>6, ReceiptsStay
    <2> QED
      BY <2>7, <2>8, <2>9 DEF DeliveryInvariant
  <1>14. CASE UNCHANGED vars
    BY <1>14 DEF vars, DeliveryInvariant, ReceiptsApplied, FanoutApplied,
                 DeliveredToAll, Subscribers
  <1> QED
    BY <1>2, <1>3, <1>4, <1>7, <1>8, <1>9, <1>10, <1>11, <1>12, <1>13, <1>14
    DEF Next, CommandStep, DeliverPending, Commit, Rollback

\* An event marked delivered was applied by all its subscribers, under every
\* interleaving of dispatchers, crashes, timeouts and late requests.
THEOREM DeliveredMeansApplied == Spec => []DeliveredToAll
  <1>1. DeliveryInvariant => DeliveredToAll
    BY DEF DeliveryInvariant
  <1> QED
    BY <1>1, TypeInit, TypeStep, DeliveryInit, DeliveryStep, PTL DEF Spec

(***************************************************************************)
(* Order.  Commands hold a lock on the aggregate they publish about.       *)
(***************************************************************************)

\* One transaction at a time publishes about an aggregate.
OneOpen ==
    \A e, f \in 1 .. made :
        /\ outbox[e].status = "open"
        /\ outbox[f].status = "open"
        /\ outbox[e].agg = outbox[f].agg
        => e = f

\* The version an open transaction drew is still the next one.
OpenFollows ==
    \A e \in 1 .. made : outbox[e].status = "open" =>
        Follows(outbox[e].version, VersionsIn(Committed, outbox[e].agg))

\* No two committed events of an aggregate have one version.
VersionsUnique ==
    \A e, f \in Committed :
        /\ outbox[e].agg = outbox[f].agg
        /\ outbox[e].version = outbox[f].version
        => e = f

\* Dispatchers and the requests they gave up on carry committed events only.
WorkCommitted ==
    /\ \A d \in Dispatchers :
          /\ dispatcher[d].batch \subseteq Committed
          /\ dispatcher[d].pc \in {"fanout", "post", "receipt"} =>
                dispatcher[d].event \in Committed
    /\ \A e \in Ids, t \in Targets : <<e, t>> \in late => e \in Committed

\* Neither AppliedInOrder nor VersionsConsecutive is inductive: an event that is
\* committed gets the next version because nobody else drew one meanwhile, and an
\* inbox stays a prefix because only committed events reach it.
OrderInvariant ==
    /\ OneOpen
    /\ OpenFollows
    /\ VersionsUnique
    /\ WorkCommitted
    /\ AppliedInOrder
    /\ VersionsConsecutive

\* The empty outbox is in order.
LEMMA OrderInit == Init => OrderInvariant
  <1> SUFFICES ASSUME Init PROVE OrderInvariant
    OBVIOUS
  <1>1. 1 .. made = {}
    BY DEF Init
  <1>2. Committed = {}
    BY <1>1 DEF Committed
  <1>3. OneOpen /\ OpenFollows /\ VersionsUnique
    BY <1>1, <1>2 DEF OneOpen, OpenFollows, VersionsUnique
  <1>4. WorkCommitted /\ AppliedInOrder
    BY DEF Init, Waiting, WorkCommitted, AppliedInOrder
  <1>5. VersionsConsecutive
    <2> SUFFICES ASSUME NEW a \in Aggregates
                 PROVE  VersionsIn({e \in Committed : outbox[e].agg = a}, a) =
                          1 .. Cardinality({e \in Committed : outbox[e].agg = a})
      BY DEF VersionsConsecutive
    <2>1. {e \in Committed : outbox[e].agg = a} = {}
      BY <1>2
    <2>2. VersionsIn({}, a) = {}
      BY DEF VersionsIn
    <2>3. 1 .. Cardinality({}) = {}
      BY FS_EmptySet
    <2> QED
      BY <2>1, <2>2, <2>3
  <1> QED
    BY <1>3, <1>4, <1>5 DEF OrderInvariant

\* Committed events are created events with a version from 1 on.
LEMMA CommittedRow ==
  ASSUME TypeOK
  PROVE  /\ made \in Nat
         /\ Committed \subseteq 1 .. made
         /\ IsFiniteSet(Committed)
         /\ \A e \in 1 .. made :
               /\ e \in Ids
               /\ outbox[e].agg \in Aggregates
               /\ outbox[e].version \in Ids
               /\ outbox[e].version \in Nat \ {0}
               /\ outbox[e].status \in {"open", "pending", "delivered", "rolledback"}
  <1>1. made \in Nat /\ MaxEvents \in Nat /\ made <= MaxEvents
    BY EventBoundsAssumption DEF TypeOK
  <1>2. Committed \subseteq 1 .. made
    BY DEF Committed
  <1>3. IsFiniteSet(1 .. made)
    BY <1>1, FS_Interval
  <1>4. IsFiniteSet(Committed)
    BY <1>2, <1>3, FS_Subset
  <1>5. \A e \in 1 .. made : e \in Ids /\ outbox[e] \in EventRow
    BY <1>1 DEF TypeOK, Ids
  <1>6. \A e \in 1 .. made :
           /\ outbox[e].agg \in Aggregates
           /\ outbox[e].version \in Ids
           /\ outbox[e].status \in {"open", "pending", "delivered", "rolledback"}
    BY <1>5 DEF EventRow
  <1>7. \A v \in Ids : v \in Nat \ {0}
    BY <1>1 DEF Ids
  <1> QED
    BY <1>1, <1>2, <1>4, <1>5, <1>6, <1>7

\* Whose version is in a set.
LEMMA VersionOf ==
  ASSUME NEW S, NEW a, NEW v
  PROVE  v \in VersionsIn(S, a) <=> \E e \in S : outbox[e].agg = a /\ outbox[e].version = v
  BY DEF VersionsIn

\* Steps that commit nothing and open nothing keep the versions in order.
LEMMA VersionsStay ==
  ASSUME OrderInvariant, TypeOK, made' = made, Committed' = Committed,
         \A e \in 1 .. made :
            /\ outbox'[e].agg = outbox[e].agg
            /\ outbox'[e].version = outbox[e].version
            /\ outbox'[e].status = "open" => outbox[e].status = "open"
  PROVE  OneOpen' /\ OpenFollows' /\ VersionsUnique' /\ VersionsConsecutive'
  <1>0. Committed \subseteq 1 .. made
    BY CommittedRow
  <1>1. OneOpen'
    BY DEF OrderInvariant, OneOpen
  <1>2. VersionsUnique'
    BY <1>0 DEF OrderInvariant, VersionsUnique
  <1>3. \A a : {e \in Committed' : outbox'[e].agg = a} = {e \in Committed : outbox[e].agg = a}
    BY <1>0
  <1>4. OpenFollows'
    <2> SUFFICES ASSUME NEW e \in 1 .. made, outbox'[e].status = "open"
                 PROVE  Follows(outbox[e].version, VersionsIn(Committed, outbox[e].agg))'
      BY DEF OpenFollows
    <2>1. Follows(outbox[e].version, VersionsIn(Committed, outbox[e].agg))
      BY DEF OrderInvariant, OpenFollows
    <2>2. VersionsIn(Committed, outbox[e].agg)' = VersionsIn(Committed, outbox[e].agg)
      BY <1>0 DEF VersionsIn
    <2> QED
      BY <2>1, <2>2 DEF Follows
  <1>5. VersionsConsecutive'
    <2> SUFFICES ASSUME NEW a \in Aggregates
                 PROVE  (LET rows == {e \in Committed : outbox[e].agg = a}
                         IN  VersionsIn(rows, a) = 1 .. Cardinality(rows))'
      BY DEF VersionsConsecutive
    <2> DEFINE rows == {e \in Committed : outbox[e].agg = a}
    <2>1. rows' = rows
      BY <1>3
    <2>2. VersionsIn(rows, a) = 1 .. Cardinality(rows)
      BY DEF OrderInvariant, VersionsConsecutive
    <2>3. VersionsIn(rows, a)' = VersionsIn(rows, a)
      BY <1>0, <2>1 DEF VersionsIn
    <2> HIDE DEF rows
    <2>4. (VersionsIn(rows, a) = 1 .. Cardinality(rows))'
      BY <2>1, <2>2, <2>3
    <2> QED
      BY <2>4 DEF rows
  <1> QED
    BY <1>1, <1>2, <1>4, <1>5

\* An inbox that stays is in order as long as nothing is committed.
LEMMA InboxesStay ==
  ASSUME OrderInvariant, TypeOK, inbox' = inbox, Committed' = Committed,
         \A e \in 1 .. made :
            /\ outbox'[e].agg = outbox[e].agg
            /\ outbox'[e].version = outbox[e].version
  PROVE  AppliedInOrder'
  <1>0. Committed \subseteq 1 .. made
    BY CommittedRow
  <1> QED
    BY <1>0 DEF OrderInvariant, AppliedInOrder

\* What Consume accepts of the committed events keeps the inbox a prefix.
LEMMA ConsumeInOrder ==
  ASSUME OrderInvariant, TypeOK, NEW t \in Targets, NEW e \in Committed,
         Consume(t, e), outbox' = outbox, made' = made
  PROVE  AppliedInOrder'
  <1>0. Committed' = Committed
    BY DEF Committed
  <1>1. \A u \in Targets : inbox'[u] = IF u = t THEN inbox[t] \cup {e} ELSE inbox[u]
    BY DEF Consume, TypeOK
  <1>2. \A u \in Targets : \A g \in inbox[u] :
          /\ g \in Committed
          /\ \A f \in Committed :
                outbox[f].agg = outbox[g].agg /\ outbox[f].version <= outbox[g].version
                => f \in inbox[u]
    BY DEF OrderInvariant, AppliedInOrder
  <1>3. \A f \in Committed :
          outbox[f].agg = outbox[e].agg /\ outbox[f].version <= outbox[e].version
          => f \in inbox'[t]
    <2> SUFFICES ASSUME NEW f \in Committed, outbox[f].agg = outbox[e].agg,
                        outbox[f].version <= outbox[e].version
                 PROVE  f \in inbox'[t]
      OBVIOUS
    <2>0. outbox[f].version \in Nat \ {0} /\ outbox[e].version \in Nat \ {0}
      BY CommittedRow
    <2>1. CASE e \in inbox[t]
      BY <1>1, <1>2, <2>1
    <2>2. CASE outbox[f].version = outbox[e].version
      BY <1>1, <2>2 DEF OrderInvariant, VersionsUnique
    <2>3. CASE e \notin inbox[t] /\ outbox[f].version < outbox[e].version
      <3>1. outbox[e].version - 1 \in VersionsIn(inbox[t], outbox[e].agg)
        BY <2>0, <2>3 DEF Consume, Accepts, Follows
      <3>2. PICK g \in inbox[t] : /\ outbox[g].agg = outbox[e].agg
                                  /\ outbox[g].version = outbox[e].version - 1
        BY <3>1, VersionOf
      <3>3. outbox[f].version <= outbox[g].version
        BY <2>0, <2>3, <3>2
      <3> QED
        BY <1>1, <1>2, <3>2, <3>3
    <2> QED
      BY <2>0, <2>1, <2>2, <2>3
  <1> QED
    BY <1>0, <1>1, <1>2, <1>3 DEF AppliedInOrder

\* A dispatcher that moves carries committed events if it did before.
LEMMA WorkMoves ==
  ASSUME OrderInvariant, TypeOK, Committed' = Committed, late' = late,
         NEW d \in Dispatchers, NEW s \in DispatcherRow, Goto(d, s),
         s.batch \subseteq Committed,
         s.pc \in {"fanout", "post", "receipt"} => s.event \in Committed
  PROVE  WorkCommitted'
  <1>1. \A c \in Dispatchers : dispatcher'[c] = IF c = d THEN s ELSE dispatcher[c]
    BY DEF Goto, TypeOK
  <1> QED
    BY <1>1 DEF OrderInvariant, WorkCommitted

\* Committing an event keeps the versions consecutive and the inboxes prefixes:
\* its version is one more than the number of those committed before.
LEMMA CommitInOrder ==
  ASSUME OrderInvariant, TypeOK, NEW e \in 1 .. made, Commit(e)
  PROVE  /\ Committed' = Committed \cup {e}
         /\ OneOpen' /\ OpenFollows' /\ VersionsUnique'
         /\ AppliedInOrder' /\ VersionsConsecutive'
  <1>1. /\ made' = made
        /\ outbox[e].status = "open"
        /\ \A f \in Ids :
              /\ outbox'[f].agg = outbox[f].agg
              /\ outbox'[f].version = outbox[f].version
              /\ outbox'[f].status = IF f = e THEN "pending" ELSE outbox[f].status
    BY StatusType DEF Commit, EndCommand
  <1>2. /\ made \in Nat /\ Committed \subseteq 1 .. made /\ 1 .. made \subseteq Ids
        /\ IsFiniteSet(Committed)
        /\ \A f \in 1 .. made : outbox[f].version \in Nat \ {0} /\ outbox[f].agg \in Aggregates
    BY CommittedRow
  <1>3. Committed' = Committed \cup {e}
    BY <1>1, <1>2 DEF Committed
  <1>4. e \notin Committed
    BY <1>1 DEF Committed
  <1> DEFINE rows(a) == {f \in Committed : outbox[f].agg = a}
  <1> DEFINE n == Cardinality(rows(outbox[e].agg))
  <1>5. \A a : IsFiniteSet(rows(a)) /\ Cardinality(rows(a)) \in Nat
    BY <1>2, FS_Subset, FS_CardinalityType
  <1>6. \A a \in Aggregates : VersionsIn(rows(a), a) = 1 .. Cardinality(rows(a))
    BY DEF OrderInvariant, VersionsConsecutive
  <1>7. \A a : VersionsIn(Committed, a) = VersionsIn(rows(a), a)
    BY DEF VersionsIn
  <1>8. n \in Nat /\ VersionsIn(Committed, outbox[e].agg) = 1 .. n
    BY <1>2, <1>5, <1>6, <1>7
  <1>9. outbox[e].version = n + 1
    <2>1. Follows(outbox[e].version, 1 .. n)
      BY <1>1, <1>8 DEF OrderInvariant, OpenFollows
    <2>2. outbox[e].version \in Nat \ {0}
      BY <1>2
    <2> HIDE DEF n
    <2>3. \A u \in 1 .. n : u < outbox[e].version
      BY <2>1 DEF Follows
    <2>4. n < outbox[e].version
      BY <1>8, <2>2, <2>3
    <2>5. outbox[e].version = 1 \/ outbox[e].version - 1 \in 1 .. n
      BY <2>1 DEF Follows
    <2> QED
      BY <1>8, <2>2, <2>4, <2>5
  <1>10. \A f \in Committed : outbox[f].agg = outbox[e].agg => outbox[f].version \in 1 .. n
    BY <1>8, VersionOf
  <1> HIDE DEF n
  <1>11. OneOpen'
    BY <1>1, <1>2 DEF OrderInvariant, OneOpen
  <1>12. OpenFollows'
    <2> SUFFICES ASSUME NEW f \in 1 .. made, outbox'[f].status = "open"
                 PROVE  Follows(outbox[f].version, VersionsIn(Committed, outbox[f].agg))'
      BY <1>1 DEF OpenFollows
    <2>1. f # e /\ outbox[f].status = "open"
      BY <1>1, <1>2
    <2>2. outbox[f].agg # outbox[e].agg
      BY <1>1, <2>1 DEF OrderInvariant, OneOpen
    <2>3. VersionsIn(Committed, outbox[f].agg)' = VersionsIn(Committed, outbox[f].agg)
      BY <1>1, <1>2, <1>3, <2>2 DEF VersionsIn
    <2>4. Follows(outbox[f].version, VersionsIn(Committed, outbox[f].agg))
      BY <2>1 DEF OrderInvariant, OpenFollows
    <2>5. outbox'[f].version = outbox[f].version
      BY <1>1, <1>2
    <2> QED
      BY <2>3, <2>4, <2>5 DEF Follows
  <1>13. VersionsUnique'
    <2> SUFFICES ASSUME NEW f \in Committed', NEW g \in Committed',
                        outbox'[f].agg = outbox'[g].agg,
                        outbox'[f].version = outbox'[g].version
                 PROVE  f = g
      BY DEF VersionsUnique
    <2>1. outbox[f].agg = outbox[g].agg /\ outbox[f].version = outbox[g].version
      BY <1>1, <1>2, <1>3
    <2>2. CASE f \in Committed /\ g \in Committed
      BY <2>1, <2>2 DEF OrderInvariant, VersionsUnique
    <2>3. CASE f = e /\ g \in Committed
      BY <1>8, <1>9, <1>10, <2>1, <2>3
    <2>4. CASE g = e /\ f \in Committed
      BY <1>8, <1>9, <1>10, <2>1, <2>4
    <2> QED
      BY <1>3, <2>2, <2>3, <2>4
  <1>14. AppliedInOrder'
    <2> SUFFICES ASSUME NEW t \in Targets, NEW g \in inbox[t]
                 PROVE  /\ g \in Committed'
                        /\ \A f \in Committed' :
                              /\ outbox'[f].agg = outbox'[g].agg
                              /\ outbox'[f].version <= outbox'[g].version
                              => f \in inbox[t]
      BY DEF AppliedInOrder, Commit, EndCommand
    <2>1. g \in Committed
          /\ \A f \in Committed :
                outbox[f].agg = outbox[g].agg /\ outbox[f].version <= outbox[g].version
                => f \in inbox[t]
      BY DEF OrderInvariant, AppliedInOrder
    <2>2. g \in Committed' /\ outbox'[g].agg = outbox[g].agg
          /\ outbox'[g].version = outbox[g].version
      BY <1>1, <1>2, <1>3, <2>1
    <2>3. ASSUME NEW f \in Committed', outbox'[f].agg = outbox'[g].agg,
                 outbox'[f].version <= outbox'[g].version
          PROVE  f \in inbox[t]
      <3>1. outbox[f].agg = outbox[g].agg /\ outbox[f].version <= outbox[g].version
        BY <1>1, <1>2, <1>3, <2>2, <2>3
      <3>2. CASE f = e
        <4>1. outbox[g].version \in 1 .. n
          BY <1>10, <2>1, <3>1, <3>2
        <4> QED
          BY <1>8, <1>9, <3>1, <3>2, <4>1
      <3> QED
        BY <1>3, <2>1, <3>1, <3>2
    <2> QED
      BY <2>2, <2>3
  <1>15. VersionsConsecutive'
    <2> SUFFICES ASSUME NEW a \in Aggregates
                 PROVE  (VersionsIn({f \in Committed : outbox[f].agg = a}, a) =
                           1 .. Cardinality({f \in Committed : outbox[f].agg = a}))'
      BY DEF VersionsConsecutive
    <2> DEFINE now == {f \in Committed : outbox[f].agg = a}'
    <2>1. now = {f \in Committed \cup {e} : outbox[f].agg = a}
      BY <1>1, <1>2, <1>3
    <2>2. VersionsIn({f \in Committed : outbox[f].agg = a}, a)' = {outbox[f].version : f \in now}
      BY <1>1, <1>2, <1>3 DEF VersionsIn
    <2>3. {outbox[f].version : f \in rows(a)} = 1 .. Cardinality(rows(a))
      BY <1>6 DEF VersionsIn
    <2>4. CASE a # outbox[e].agg
      <3>1. now = rows(a)
        BY <2>1, <2>4
      <3> QED
        BY <2>2, <2>3, <3>1
    <2>5. CASE a = outbox[e].agg
      <3>1. now = rows(a) \cup {e} /\ e \notin rows(a)
        BY <1>4, <2>1, <2>5
      <3> HIDE DEF now, rows
      <3>2. Cardinality(now) = n + 1
        BY <1>5, <2>5, <3>1, FS_AddElement DEF n
      <3>3. {outbox[f].version : f \in now} = {outbox[f].version : f \in rows(a)} \cup {n + 1}
        BY <1>9, <3>1
      <3>4. {outbox[f].version : f \in now} = (1 .. n) \cup {n + 1}
        BY <2>3, <2>5, <3>3 DEF n
      <3>5. (1 .. n) \cup {n + 1} = 1 .. (n + 1)
        BY <1>8
      <3>6. {outbox[f].version : f \in now} = 1 .. Cardinality(now)
        BY <3>2, <3>4, <3>5
      <3> QED
        BY <2>2, <3>6 DEF now
    <2> QED
      BY <2>4, <2>5
  <1> QED
    BY <1>3, <1>11, <1>12, <1>13, <1>14, <1>15

\* Every step of a system whose commands lock their aggregate keeps the order.
LEMMA OrderStep ==
  ASSUME Serialized
  PROVE  TypeOK /\ OrderInvariant /\ [Next]_vars /\ TypeOK' => OrderInvariant'
  <1> SUFFICES ASSUME TypeOK, OrderInvariant, [Next]_vars, TypeOK'
               PROVE  OrderInvariant'
    OBVIOUS
  <1>0. /\ made \in Nat /\ MaxEvents \in Nat /\ 1 .. made \subseteq Ids
        /\ Committed \subseteq 1 .. made
    BY CommittedRow, EventBoundsAssumption
  <1>1. ASSUME outbox' = outbox, made' = made, AppliedInOrder', WorkCommitted'
        PROVE  OrderInvariant'
    <2>1. Committed' = Committed
      BY <1>1 DEF Committed
    <2>2. OneOpen' /\ OpenFollows' /\ VersionsUnique' /\ VersionsConsecutive'
      BY <1>1, <2>1, VersionsStay
    <2> QED
      BY <1>1, <2>2 DEF OrderInvariant
  <1>2. ASSUME outbox' = outbox, made' = made, inbox' = inbox, late' = late,
               NEW d \in Dispatchers, NEW s \in DispatcherRow, Goto(d, s),
               s.batch \subseteq Committed,
               s.pc \in {"fanout", "post", "receipt"} => s.event \in Committed
        PROVE  OrderInvariant'
    <2>1. Committed' = Committed
      BY <1>2 DEF Committed
    <2>2. AppliedInOrder'
      BY <1>2, <2>1, InboxesStay
    <2>3. WorkCommitted'
      BY <1>2, <2>1, WorkMoves
    <2> QED
      BY <1>1, <1>2, <2>2, <2>3
  <1>3. ASSUME dispatcher' = dispatcher, late' = late, Committed \subseteq Committed'
        PROVE  WorkCommitted'
    BY <1>3 DEF OrderInvariant, WorkCommitted
  <1>4. ASSUME NEW a \in Aggregates, NEW type \in Types, AppendBusinessEvent(a, type)
        PROVE  OrderInvariant'
    <2>1. PICK v \in 1 .. MaxEvents :
            /\ Follows(v, VersionsIn(Committed, a))
            /\ outbox' = [outbox EXCEPT
                 ![made + 1] = [agg |-> a, type |-> type, version |-> v,
                                status |-> "open"]]
      BY <1>4 DEF AppendBusinessEvent
    <2>2. made + 1 \in Ids /\ made' = made + 1
      BY <1>0, <1>4 DEF AppendBusinessEvent, Ids
    <2>3. /\ \A f \in 1 .. made : outbox'[f] = outbox[f]
          /\ outbox'[made + 1].agg = a /\ outbox'[made + 1].version = v
          /\ outbox'[made + 1].status = "open"
      BY <1>0, <2>1, <2>2 DEF TypeOK
    <2>4. \A f \in 1 .. made' : f \in 1 .. made \/ f = made + 1
      BY <1>0, <2>2
    <2>5. Committed' = Committed
      BY <1>0, <2>2, <2>3, <2>4 DEF Committed
    <2>6. \A f \in 1 .. made : outbox[f].agg = a => outbox[f].status # "open"
      BY <1>4 DEF AppendBusinessEvent
    <2>7. OneOpen'
      BY <2>3, <2>4, <2>6 DEF OrderInvariant, OneOpen
    <2>8. \A b : {outbox'[f].version : f \in {g \in Committed : outbox'[g].agg = b}}
                 = VersionsIn(Committed, b)
      BY <1>0, <2>3 DEF VersionsIn
    <2>9. OpenFollows'
      <3> SUFFICES ASSUME NEW f \in 1 .. made', outbox'[f].status = "open"
                   PROVE  Follows(outbox[f].version, VersionsIn(Committed, outbox[f].agg))'
        BY DEF OpenFollows
      <3>1. VersionsIn(Committed, outbox[f].agg)' = VersionsIn(Committed, outbox'[f].agg)
        BY <2>5, <2>8 DEF VersionsIn
      <3>2. Follows(outbox'[f].version, VersionsIn(Committed, outbox'[f].agg))
        BY <2>1, <2>3, <2>4 DEF OrderInvariant, OpenFollows
      <3> QED
        BY <3>1, <3>2 DEF Follows
    <2>10. VersionsUnique'
      BY <1>0, <2>3, <2>5 DEF OrderInvariant, VersionsUnique
    <2>11. AppliedInOrder'
      BY <1>0, <1>4, <2>3, <2>5 DEF OrderInvariant, AppliedInOrder, AppendBusinessEvent
    <2>12. VersionsConsecutive'
      <3> SUFFICES ASSUME NEW b \in Aggregates
                   PROVE  (VersionsIn({f \in Committed : outbox[f].agg = b}, b) =
                             1 .. Cardinality({f \in Committed : outbox[f].agg = b}))'
        BY DEF VersionsConsecutive
      <3> DEFINE rows == {f \in Committed : outbox[f].agg = b}
      <3>1. rows' = rows
        BY <1>0, <2>3, <2>5
      <3>2. VersionsIn(rows, b)' = VersionsIn(rows, b)
        BY <1>0, <2>3, <3>1 DEF VersionsIn
      <3>3. VersionsIn(rows, b) = 1 .. Cardinality(rows)
        BY DEF OrderInvariant, VersionsConsecutive
      <3> HIDE DEF rows
      <3>4. (VersionsIn(rows, b) = 1 .. Cardinality(rows))'
        BY <3>1, <3>2, <3>3
      <3> QED
        BY <3>4 DEF rows
    <2>13. WorkCommitted'
      BY <1>3, <1>4, <2>5 DEF AppendBusinessEvent
    <2> QED
      BY <2>7, <2>9, <2>10, <2>11, <2>12, <2>13 DEF OrderInvariant
  <1>5. ASSUME NEW e \in Ids, Commit(e)
        PROVE  OrderInvariant'
    <2>1. e \in 1 .. made
      BY <1>0, <1>5 DEF Commit, EndCommand, TypeOK, Ids, NoEvent
    <2>2. /\ Committed \subseteq Committed'
          /\ OneOpen' /\ OpenFollows' /\ VersionsUnique'
          /\ AppliedInOrder' /\ VersionsConsecutive'
      BY <1>5, <2>1, CommitInOrder
    <2>3. WorkCommitted'
      BY <1>3, <1>5, <2>2 DEF Commit, EndCommand
    <2> QED
      BY <2>2, <2>3 DEF OrderInvariant
  <1>6. ASSUME NEW e \in Ids, Rollback(e)
        PROVE  OrderInvariant'
    <2>1. e \in 1 .. made /\ outbox[e].status = "open"
      BY <1>0, <1>6 DEF Rollback, EndCommand, TypeOK, Ids, NoEvent
    <2>2. outbox' = [outbox EXCEPT ![e].status = "rolledback"] /\ made' = made
      BY <1>6 DEF Rollback, EndCommand
    <2>3. \A f \in 1 .. made :
             /\ outbox'[f].agg = outbox[f].agg
             /\ outbox'[f].version = outbox[f].version
             /\ outbox'[f].status = IF f = e THEN "rolledback" ELSE outbox[f].status
      BY <1>0, <2>1, <2>2, StatusType
    <2>4. Committed' = Committed
      BY <2>1, <2>2, <2>3 DEF Committed
    <2>5. OneOpen' /\ OpenFollows' /\ VersionsUnique' /\ VersionsConsecutive'
      BY <2>2, <2>3, <2>4, VersionsStay
    <2>6. AppliedInOrder'
      BY <1>6, <2>3, <2>4, InboxesStay DEF Rollback, EndCommand
    <2>7. WorkCommitted'
      BY <1>3, <1>6, <2>4 DEF Rollback, EndCommand
    <2> QED
      BY <2>5, <2>6, <2>7 DEF OrderInvariant
  <1>7. ASSUME NEW t \in Targets, NEW e \in Ids, ServeLate(t, e)
        PROVE  OrderInvariant'
    <2>1. outbox' = outbox /\ made' = made /\ dispatcher' = dispatcher
          /\ late' \subseteq late /\ e \in Committed
      BY <1>7 DEF ServeLate, OrderInvariant, WorkCommitted
    <2>2. Committed' = Committed
      BY <2>1 DEF Committed
    <2>3. AppliedInOrder'
      <3>1. CASE Consume(t, e)
        BY <2>1, <3>1, ConsumeInOrder
      <3>2. CASE inbox' = inbox
        BY <2>1, <2>2, <3>2, InboxesStay
      <3> QED
        BY <1>7, <3>1, <3>2 DEF ServeLate
    <2>4. WorkCommitted'
      BY <2>1, <2>2 DEF OrderInvariant, WorkCommitted
    <2> QED
      BY <1>1, <2>1, <2>3, <2>4
  <1>8. ASSUME NEW d \in Dispatchers, LoadPending(d)
        PROVE  OrderInvariant'
    <2>1. PICK batch \in SUBSET Pending :
            Goto(d, [Waiting EXCEPT !.pc = "next", !.batch = batch])
      BY <1>8 DEF LoadPending
    <2> DEFINE s == [Waiting EXCEPT !.pc = "next", !.batch = batch]
    <2>2. batch \subseteq Committed
      BY DEF Pending, Committed
    <2>3. s \in DispatcherRow /\ s.pc = "next" /\ s.batch = batch
      BY <1>0, <2>2 DEF Waiting, DispatcherRow
    <2>4. Goto(d, s)
      BY <2>1
    <2> HIDE DEF s
    <2> QED
      BY <1>2, <1>8, <2>2, <2>3, <2>4 DEF LoadPending
  <1>9. ASSUME NEW d \in Dispatchers, Goto(d, Waiting), outbox' = outbox,
               made' = made, inbox' = inbox, late' = late
        PROVE  OrderInvariant'
    BY <1>2, <1>9, WaitType
  <1>10. ASSUME NEW d \in Dispatchers, NextEvent(d)
         PROVE  OrderInvariant'
    <2>1. CASE Goto(d, Waiting)
      BY <1>9, <1>10, <2>1 DEF NextEvent
    <2>2. ASSUME NEW e \in First(dispatcher[d].batch),
                 Goto(d, [dispatcher[d] EXCEPT !.pc = "fanout",
                                               !.batch = @ \ {e},
                                               !.event = e,
                                               !.todo = Subscribers(e)])
          PROVE  OrderInvariant'
      <3> DEFINE s == [dispatcher[d] EXCEPT !.pc = "fanout",
                                            !.batch = @ \ {e},
                                            !.event = e,
                                            !.todo = Subscribers(e)]
      <3>1. dispatcher[d] \in DispatcherRow /\ e \in Committed
            /\ dispatcher[d].batch \subseteq Committed
        BY DEF TypeOK, First, OrderInvariant, WorkCommitted
      <3>2. s \in DispatcherRow /\ s.event = e /\ s.batch = dispatcher[d].batch \ {e}
        BY <1>0, <3>1 DEF DispatcherRow, Subscribers
      <3>3. Goto(d, s)
        BY <2>2
      <3> HIDE DEF s
      <3> QED
        BY <1>2, <1>10, <3>1, <3>2, <3>3 DEF NextEvent
    <2> QED
      BY <1>10, <2>1, <2>2 DEF NextEvent
  <1>11. ASSUME NEW d \in Dispatchers, NextTarget(d)
         PROVE  OrderInvariant'
    <2>1. PICK t \in First(dispatcher[d].todo) :
            Goto(d, [dispatcher[d] EXCEPT
                       !.pc = IF <<dispatcher[d].event, t>> \in receipts
                              THEN "fanout" ELSE "post",
                       !.todo = @ \ {t},
                       !.target = t])
      BY <1>11 DEF NextTarget
    <2> DEFINE pc == IF <<dispatcher[d].event, t>> \in receipts
                     THEN "fanout" ELSE "post"
    <2>2. pc \in {"fanout", "post"}
      OBVIOUS
    <2>3. dispatcher[d] \in DispatcherRow /\ dispatcher[d].event \in Committed
          /\ dispatcher[d].batch \subseteq Committed
      BY <1>11 DEF NextTarget, TypeOK, OrderInvariant, WorkCommitted
    <2>4. t \in Targets
      BY <2>3 DEF First, DispatcherRow
    <2>5. Goto(d, [dispatcher[d] EXCEPT !.pc = pc, !.todo = @ \ {t}, !.target = t])
      BY <2>1
    <2> HIDE DEF pc
    <2> DEFINE s == [dispatcher[d] EXCEPT !.pc = pc, !.todo = @ \ {t}, !.target = t]
    <2>6. s \in DispatcherRow /\ s.event = dispatcher[d].event
          /\ s.batch = dispatcher[d].batch
      BY <2>2, <2>3, <2>4 DEF DispatcherRow
    <2>7. Goto(d, s)
      BY <2>5
    <2> HIDE DEF s
    <2> QED
      BY <1>2, <1>11, <2>3, <2>6, <2>7 DEF NextTarget
  <1>12. ASSUME NEW d \in Dispatchers, NEW pc \in {"fanout", "receipt"},
                dispatcher[d].pc \in {"post", "receipt"},
                Goto(d, [dispatcher[d] EXCEPT !.pc = pc]), outbox' = outbox,
                made' = made, late' = late, AppliedInOrder'
         PROVE  OrderInvariant'
    <2> DEFINE s == [dispatcher[d] EXCEPT !.pc = pc]
    <2>1. dispatcher[d] \in DispatcherRow /\ dispatcher[d].event \in Committed
          /\ dispatcher[d].batch \subseteq Committed
      BY <1>12 DEF TypeOK, OrderInvariant, WorkCommitted
    <2>2. s \in DispatcherRow /\ s.event = dispatcher[d].event
          /\ s.batch = dispatcher[d].batch
      BY <2>1 DEF DispatcherRow
    <2>3. Goto(d, s) /\ Committed' = Committed
      BY <1>12 DEF Committed
    <2> HIDE DEF s
    <2>4. WorkCommitted'
      BY <1>12, <2>1, <2>2, <2>3, WorkMoves
    <2> QED
      BY <1>1, <1>12, <2>4
  <1>13. ASSUME NEW d \in Dispatchers, Deliver(d)
         PROVE  OrderInvariant'
    <2>1. dispatcher[d].event \in Committed /\ dispatcher[d].target \in Targets
      BY <1>13 DEF Deliver, TypeOK, OrderInvariant, WorkCommitted
    <2>2. AppliedInOrder'
      BY <1>13, <2>1, ConsumeInOrder DEF Deliver
    <2> QED
      BY <1>12, <1>13, <2>2 DEF Deliver
  <1>14. ASSUME NEW d \in Dispatchers, DeliverRefused(d) \/ CrashDispatcher(d)
         PROVE  OrderInvariant'
    BY <1>9, <1>14 DEF DeliverRefused, CrashDispatcher
  <1>15. ASSUME NEW d \in Dispatchers, DeliverTimedOut(d)
         PROVE  OrderInvariant'
    <2>1. dispatcher[d].event \in Committed
      BY <1>15 DEF DeliverTimedOut, OrderInvariant, WorkCommitted
    <2>2. outbox' = outbox /\ made' = made /\ inbox' = inbox
      BY <1>15 DEF DeliverTimedOut
    <2>3. Committed' = Committed
      BY <2>2 DEF Committed
    <2>4. \A c \in Dispatchers : dispatcher'[c] = IF c = d THEN Waiting ELSE dispatcher[c]
      BY <1>15 DEF DeliverTimedOut, Goto, TypeOK
    <2>5. \A e \in Ids, t \in Targets : <<e, t>> \in late' => e \in Committed
      BY <1>15, <2>1 DEF DeliverTimedOut, OrderInvariant, WorkCommitted
    <2>6. WorkCommitted'
      BY <2>3, <2>4, <2>5, WaitType DEF OrderInvariant, WorkCommitted
    <2>7. AppliedInOrder'
      BY <2>2, <2>3, InboxesStay
    <2> QED
      BY <1>1, <2>2, <2>6, <2>7
  <1>16. ASSUME NEW d \in Dispatchers, WriteReceipt(d)
         PROVE  OrderInvariant'
    <2>1. outbox' = outbox /\ made' = made /\ inbox' = inbox /\ late' = late
      BY <1>16 DEF WriteReceipt
    <2>2. Committed' = Committed
      BY <2>1 DEF Committed
    <2>3. AppliedInOrder'
      BY <2>1, <2>2, InboxesStay
    <2> QED
      BY <1>12, <1>16, <2>1, <2>3 DEF WriteReceipt
  <1>17. ASSUME NEW d \in Dispatchers, MarkDelivered(d)
         PROVE  OrderInvariant'
    <2> DEFINE s == IF dispatcher[d].batch = {} THEN Waiting
                    ELSE [dispatcher[d] EXCEPT !.pc = "next"]
    <2>1. dispatcher[d] \in DispatcherRow /\ dispatcher[d].event \in Committed
          /\ dispatcher[d].batch \subseteq Committed
      BY <1>17 DEF MarkDelivered, TypeOK, OrderInvariant, WorkCommitted
    <2>2. s \in DispatcherRow /\ s.pc \in {"idle", "next"} /\ s.batch \subseteq Committed
      BY <2>1, WaitType DEF DispatcherRow
    <2>3. Goto(d, s)
      BY <1>17 DEF MarkDelivered
    <2>4. /\ outbox' = [outbox EXCEPT ![dispatcher[d].event].status = "delivered"]
          /\ made' = made /\ inbox' = inbox /\ late' = late
      BY <1>17 DEF MarkDelivered
    <2>5. \A f \in 1 .. made :
             /\ outbox'[f].agg = outbox[f].agg
             /\ outbox'[f].version = outbox[f].version
             /\ outbox'[f].status = IF f = dispatcher[d].event THEN "delivered"
                                                               ELSE outbox[f].status
      BY <1>0, <2>1, <2>4, StatusType
    <2>6. Committed' = Committed
      BY <2>1, <2>4, <2>5 DEF Committed
    <2> HIDE DEF s
    <2>7. OneOpen' /\ OpenFollows' /\ VersionsUnique' /\ VersionsConsecutive'
      BY <2>4, <2>5, <2>6, VersionsStay
    <2>8. AppliedInOrder'
      BY <2>4, <2>5, <2>6, InboxesStay
    <2>9. WorkCommitted'
      BY <2>2, <2>3, <2>4, <2>6, WorkMoves
    <2> QED
      BY <2>7, <2>8, <2>9 DEF OrderInvariant
  <1>18. CASE UNCHANGED vars
    <2>1. outbox' = outbox /\ made' = made /\ inbox' = inbox /\ late' = late
          /\ dispatcher' = dispatcher
      BY <1>18 DEF vars
    <2>2. Committed' = Committed
      BY <2>1 DEF Committed
    <2>3. AppliedInOrder' /\ WorkCommitted'
      BY <1>3, <2>1, <2>2, InboxesStay
    <2> QED
      BY <1>1, <2>1, <2>3
  <1> QED
    BY <1>4, <1>5, <1>6, <1>7, <1>8, <1>10, <1>11, <1>13, <1>14, <1>15, <1>16, <1>17,
       <1>18
    DEF Next, CommandStep, DeliverPending

\* What a target has applied of an aggregate is a prefix of what was committed
\* about it, when commands lock the aggregate (EventInbox.Consume).
THEOREM InboxesArePrefixes ==
  ASSUME Serialized
  PROVE  Spec => []AppliedInOrder
  <1>1. TypeOK /\ OrderInvariant /\ [Next]_vars /\ TypeOK' => OrderInvariant'
    BY OrderStep
  <1>2. OrderInvariant => AppliedInOrder
    BY DEF OrderInvariant
  <1> QED
    BY <1>1, <1>2, TypeInit, TypeStep, OrderInit, PTL DEF Spec

\* The committed events of an aggregate carry the versions 1, 2, 3 and so on,
\* each once, when commands lock the aggregate (appendBusinessEvent).
THEOREM VersionsHaveNoGaps ==
  ASSUME Serialized
  PROVE  Spec => []VersionsConsecutive
  <1>1. TypeOK /\ OrderInvariant /\ [Next]_vars /\ TypeOK' => OrderInvariant'
    BY OrderStep
  <1>2. OrderInvariant => VersionsConsecutive
    BY DEF OrderInvariant
  <1> QED
    BY <1>1, <1>2, TypeInit, TypeStep, OrderInit, PTL DEF Spec
=============================================================================
