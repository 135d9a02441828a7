----------------------- MODULE OutboundDeliveryProofs -----------------------
(***************************************************************************)
(* Proofs about OutboundDelivery for every number of messages, attempts,   *)
(* workers, texts and faults: its types, that it sends a message at most   *)
(* once, that it implements SendOnce, that what the provider reported      *)
(* decides an attempt whatever the order, and that a message's visible     *)
(* progress is never taken back.                                           *)
(*                                                                         *)
(* A claim token names one worker, so at most one worker is between the    *)
(* start of an attempt and its result (SendersHoldDispatch).  Nothing      *)
(* touches an attempt that is settled, untaken and sent by nobody          *)
(* (RefusedStays); only such attempts are marked safe (SafeMeansRefused),  *)
(* and only a message whose attempts are all safe gets another one         *)
(* (RetryAfterRefusal).                                                    *)
(***************************************************************************)
EXTENDS OutboundRefinement, TLAPS

(***************************************************************************)
(* The status algebra.                                                     *)
(***************************************************************************)

\* outboundProgress is a rank from 0 to 4.
LEMMA ProgressRange == \A s : Progress(s) \in 0 .. 4
  BY DEF Progress

\* mergeOutboundStatus never loses progress.
LEMMA MergeKeepsProgress ==
  ASSUME NEW current \in Statuses, NEW incoming \in Statuses
  PROVE  /\ MergeStatus(current, incoming) \in {current, incoming}
         /\ Progress(MergeStatus(current, incoming)) >= Progress(current)
  <1>1. Progress(current) \in 0 .. 4 /\ Progress(incoming) \in 0 .. 4
    BY ProgressRange
  <1>2. Progress("failed") = 0 /\ Progress("unknown") = 0
    BY DEF Progress
  <1> QED
    BY <1>1, <1>2 DEF MergeStatus

\* The parts of a recorded result have the types of the columns they go to.
LEMMA ResultTypes ==
  ASSUME NEW r \in AttemptRow, NEW id \in Nat, NEW status \in Statuses,
         NEW retrySafe \in BOOLEAN, NEW evidence \in BOOLEAN
  PROVE  /\ Merged(r, status, evidence) \in Statuses
         /\ FailureFlag(r, status, evidence) \in BOOLEAN
         /\ KnownId(r, id) \in Nat
         /\ SafeFlag(r, id, status, retrySafe, evidence) \in BOOLEAN
         /\ StateOf(Merged(r, status, evidence)) \in States
         /\ SafeFlag(r, id, status, retrySafe, evidence) =>
               /\ retrySafe
               /\ StateOf(Merged(r, status, evidence)) = "settled"
  <1>1. r.status \in Statuses /\ r.failureObserved \in BOOLEAN /\ r.providerId \in Nat
    BY DEF AttemptRow
  <1>2. MergeStatus(r.status, status) \in Statuses
    BY <1>1, MergeKeepsProgress
  <1>3. Merged(r, status, evidence) \in Statuses
    BY <1>2 DEF Merged, Statuses, Evidence
  <1>4. FailureFlag(r, status, evidence) \in BOOLEAN
    BY <1>1 DEF FailureFlag
  <1>5. KnownId(r, id) \in Nat
    BY <1>1 DEF KnownId
  <1>6. SafeFlag(r, id, status, retrySafe, evidence) \in BOOLEAN
    BY DEF SafeFlag
  <1>7. StateOf(Merged(r, status, evidence)) \in States
    BY DEF StateOf, States
  <1>8. SafeFlag(r, id, status, retrySafe, evidence) =>
          retrySafe /\ StateOf(Merged(r, status, evidence)) = "settled"
    BY DEF SafeFlag, StateOf
  <1> QED
    BY <1>3, <1>4, <1>5, <1>6, <1>7, <1>8

\* What a recorded result changes of an attempt row, and what it leaves alone.
LEMMA SettledRow ==
  ASSUME NEW r \in AttemptRow, NEW id \in Nat, NEW status \in Statuses,
         NEW retrySafe \in BOOLEAN, NEW evidence \in BOOLEAN,
         NEW s, s = Settled(r, id, status, retrySafe, evidence)
  PROVE  /\ s \in AttemptRow
         /\ s.msg = r.msg /\ s.body = r.body
         /\ s.token = r.token /\ s.started = r.started
         /\ s.status = Merged(r, status, evidence)
         /\ s.state = StateOf(s.status)
         /\ s.failureObserved = FailureFlag(r, status, evidence)
         /\ s.retrySafe => retrySafe /\ s.state = "settled"
  <1> DEFINE merged == Merged(r, status, evidence)
             flag == FailureFlag(r, status, evidence)
             known == KnownId(r, id)
             safe == SafeFlag(r, id, status, retrySafe, evidence)
             state == StateOf(merged)
  <1>1. merged \in Statuses /\ flag \in BOOLEAN /\ known \in Nat /\ safe \in BOOLEAN
        /\ state \in States /\ (safe => retrySafe /\ state = "settled")
        /\ state = StateOf(merged)
    BY ResultTypes
  <1>2. s = [r EXCEPT !.state = state, !.status = merged, !.providerId = known,
                      !.failureObserved = flag, !.retrySafe = safe]
    BY DEF Settled
  <1>3. merged = Merged(r, status, evidence) /\ flag = FailureFlag(r, status, evidence)
    OBVIOUS
  <1> HIDE DEF merged, flag, known, safe, state
  <1>4. /\ s \in AttemptRow
        /\ s.msg = r.msg /\ s.body = r.body
        /\ s.token = r.token /\ s.started = r.started
        /\ s.status = merged /\ s.state = state
        /\ s.failureObserved = flag /\ s.retrySafe = safe
    BY <1>1, <1>2 DEF AttemptRow
  <1> QED
    BY <1>1, <1>3, <1>4

(***************************************************************************)
(* Transactions.                                                           *)
(***************************************************************************)

\* The visible message row after a result keeps its type, its text and its
\* presence, and its progress never falls except from acceptance to failure.
LEMMA VisibleRow ==
  ASSUME NEW message \in MessageRow, NEW r \in AttemptRow,
         NEW superseded \in BOOLEAN,
         NEW v, v = Visible(message, r, superseded)
  PROVE  /\ v \in MessageRow
         /\ v.presence = message.presence
         /\ v.content = message.content
         /\ v.edited = message.edited
         /\ \/ Progress(v.status) >= Progress(message.status)
            \/ message.status = "provider_accepted" /\ v.status = "failed"
  <1> DEFINE failing == /\ r.failureObserved
                        /\ r.status = "failed"
                        /\ Progress(message.status) < 2
             shown == IF failing THEN "failed"
                      ELSE MergeStatus(message.status, r.status)
             flag == /\ IF superseded THEN message.deliveryFailed
                                      ELSE r.failureObserved
                     /\ Progress(shown) < 3
  <1>1. /\ message.status \in Statuses /\ r.status \in Statuses
        /\ r.failureObserved \in BOOLEAN /\ message.deliveryFailed \in BOOLEAN
    BY DEF MessageRow, AttemptRow
  <1>2. /\ MergeStatus(message.status, r.status) \in Statuses
        /\ Progress(MergeStatus(message.status, r.status)) >= Progress(message.status)
    BY <1>1, MergeKeepsProgress
  <1>3. /\ shown \in Statuses
        /\ \/ Progress(shown) >= Progress(message.status)
           \/ message.status = "provider_accepted" /\ shown = "failed"
    <2>1. CASE failing
      BY <2>1 DEF Progress, Statuses, Evidence
    <2>2. CASE ~failing
      BY <2>2, <1>2
    <2> QED
      BY <2>1, <2>2
  <1>4. flag \in BOOLEAN
    BY <1>1
  <1>5. v \in {message, [message EXCEPT !.status = shown, !.deliveryFailed = flag]}
    BY DEF Visible
  <1>6. Progress(message.status) >= Progress(message.status)
    BY ProgressRange
  <1> HIDE DEF failing, shown, flag
  <1>7. CASE v = message
    BY <1>6, <1>7
  <1>8. CASE v = [message EXCEPT !.status = shown, !.deliveryFailed = flag]
    BY <1>3, <1>4, <1>8 DEF MessageRow
  <1> QED
    BY <1>5, <1>7, <1>8

\* persistOutboundResult changes one attempt row and one message row.
LEMMA PersistEffect ==
  ASSUME TypeOK, NEW a \in 1 .. made, NEW id \in Nat, NEW status \in Statuses,
         NEW retrySafe \in BOOLEAN, NEW evidence \in BOOLEAN,
         PersistOutboundResult(a, id, status, retrySafe, evidence)
  PROVE  LET s == Settled(row[a], id, status, retrySafe, evidence)
         IN  /\ row[a] \in AttemptRow
             /\ s \in AttemptRow
             /\ row' = [row EXCEPT ![a] = s]
             /\ msg' \in [Messages -> MessageRow]
             /\ \A m \in Messages :
                  /\ msg'[m].presence = msg[m].presence
                  /\ msg'[m].content = msg[m].content
                  /\ msg'[m].edited = msg[m].edited
                  /\ \/ Progress(msg'[m].status) >= Progress(msg[m].status)
                     \/ msg[m].status = "provider_accepted" /\ msg'[m].status = "failed"
  <1> DEFINE s == Settled(row[a], id, status, retrySafe, evidence)
             v == Visible(msg[s.msg], s, Superseded(a))
  <1>1. row[a] \in AttemptRow
    BY BoundsAssumption DEF TypeOK, Attempts
  <1>2. s \in AttemptRow
    BY <1>1, SettledRow
  <1>3. s.msg \in Messages
    BY <1>2 DEF AttemptRow
  <1>4. /\ row' = [row EXCEPT ![a] = s]
        /\ msg' = [msg EXCEPT ![s.msg] = v]
    BY DEF PersistOutboundResult
  <1>5. msg[s.msg] \in MessageRow
    BY <1>3 DEF TypeOK
  <1>6. Superseded(a) \in BOOLEAN
    BY DEF Superseded
  <1> HIDE DEF s
  <1>7. /\ v \in MessageRow
        /\ v.presence = msg[s.msg].presence
        /\ v.content = msg[s.msg].content
        /\ v.edited = msg[s.msg].edited
        /\ \/ Progress(v.status) >= Progress(msg[s.msg].status)
           \/ msg[s.msg].status = "provider_accepted" /\ v.status = "failed"
    BY <1>2, <1>5, <1>6, VisibleRow
  <1> HIDE DEF v
  <1>8. msg' \in [Messages -> MessageRow]
    BY <1>3, <1>4, <1>7 DEF TypeOK
  <1>9. ASSUME NEW m \in Messages
        PROVE  /\ msg'[m].presence = msg[m].presence
               /\ msg'[m].content = msg[m].content
               /\ msg'[m].edited = msg[m].edited
               /\ \/ Progress(msg'[m].status) >= Progress(msg[m].status)
                  \/ msg[m].status = "provider_accepted" /\ msg'[m].status = "failed"
    <2>1. CASE m = s.msg
      BY <2>1, <1>3, <1>4, <1>7 DEF TypeOK
    <2>2. CASE m # s.msg
      BY <2>2, <1>3, <1>4, ProgressRange DEF TypeOK
    <2> QED
      BY <2>1, <2>2
  <1> QED
    BY <1>1, <1>2, <1>4, <1>8, <1>9 DEF s

\* The attempt row a recorded result leaves.
LEMMA ResultRow ==
  ASSUME TypeOK, NEW a \in 1 .. made, NEW id \in Nat, NEW status \in Statuses,
         NEW retrySafe \in BOOLEAN, NEW evidence \in BOOLEAN,
         PersistOutboundResult(a, id, status, retrySafe, evidence)
  PROVE  /\ a \in Attempts /\ row[a] \in AttemptRow /\ row'[a] \in AttemptRow
         /\ row'[a].msg = row[a].msg /\ row'[a].started = row[a].started
         /\ row'[a].body = row[a].body
         /\ row'[a].status = Merged(row[a], status, evidence)
         /\ row'[a].state = StateOf(row'[a].status)
         /\ row'[a].failureObserved = FailureFlag(row[a], status, evidence)
         /\ row'[a].retrySafe => retrySafe
         /\ \A b \in Attempts : b # a => row'[b] = row[b]
  <1> DEFINE s == Settled(row[a], id, status, retrySafe, evidence)
  <1>1. a \in Attempts
    BY BoundsAssumption DEF TypeOK, Attempts
  <1>2. /\ row[a] \in AttemptRow /\ s \in AttemptRow /\ row' = [row EXCEPT ![a] = s]
    BY PersistEffect
  <1>3. /\ s.msg = row[a].msg /\ s.started = row[a].started /\ s.body = row[a].body
        /\ s.status = Merged(row[a], status, evidence)
        /\ s.state = StateOf(s.status)
        /\ s.failureObserved = FailureFlag(row[a], status, evidence)
    BY <1>2, SettledRow
  <1>4. s.retrySafe => retrySafe
    BY <1>2, SettledRow
  <1> HIDE DEF s
  <1>5. row'[a] = s /\ \A b \in Attempts : b # a => row'[b] = row[b]
    BY <1>1, <1>2 DEF TypeOK
  <1> QED
    BY <1>1, <1>2, <1>3, <1>4, <1>5

(***************************************************************************)
(* Type correctness.                                                       *)
(***************************************************************************)

\* The initial state is well typed.
LEMMA TypeInit == Init => TypeOK
  BY BoundsAssumption
  DEF Init, TypeOK, Attempts, NoMessageRow, MessageRow, Statuses, Evidence,
      Idle, WorkerRow, NoId, NoRow

\* A row that is not absent is one of the created rows.
LEMMA PresentRow ==
  ASSUME TypeOK, NEW a \in Attempts, row[a].state # "absent"
  PROVE  a \in 1 .. made
  BY BoundsAssumption DEF TypeOK, Attempts, NoRow

\* Creating an attempt keeps the rows well typed.
LEMMA AppendType ==
  ASSUME TypeOK, NEW m \in Messages, NEW body \in Bodies, Append1(m, body)
  PROVE  /\ made' \in 0 .. MaxAttempts
         /\ made' = made + 1
         /\ row' \in [Attempts -> AttemptRow \cup {NoRow}]
         /\ \A a \in Attempts : IF a <= made' THEN row'[a] \in AttemptRow
                                              ELSE row'[a] = NoRow
  <1>1. /\ made \in 0 .. MaxAttempts /\ made < MaxAttempts /\ MaxAttempts \in Nat
        /\ made' = made + 1 /\ row' = [row EXCEPT ![made + 1] = Intent(m, body)]
    BY BoundsAssumption DEF Append1, TypeOK
  <1>2. Intent(m, body) \in AttemptRow
    BY DEF Intent, NoRow, AttemptRow, States, Statuses, NoId
  <1>3. made + 1 \in Attempts
    BY <1>1 DEF Attempts
  <1> QED
    BY <1>1, <1>2, <1>3 DEF TypeOK, Attempts

\* Recording a result keeps both tables well typed.
LEMMA PersistType ==
  ASSUME TypeOK, NEW a \in 1 .. made, NEW id \in Nat, NEW status \in Statuses,
         NEW retrySafe \in BOOLEAN, NEW evidence \in BOOLEAN,
         PersistOutboundResult(a, id, status, retrySafe, evidence),
         made' = made
  PROVE  /\ msg' \in [Messages -> MessageRow]
         /\ \A m \in Messages : msg'[m].presence = "live" => msg'[m].content \in Bodies
         /\ row' \in [Attempts -> AttemptRow \cup {NoRow}]
         /\ \A b \in Attempts : IF b <= made' THEN row'[b] \in AttemptRow
                                              ELSE row'[b] = NoRow
  <1> DEFINE s == Settled(row[a], id, status, retrySafe, evidence)
  <1>1. /\ s \in AttemptRow /\ row' = [row EXCEPT ![a] = s]
        /\ msg' \in [Messages -> MessageRow]
        /\ \A m \in Messages : /\ msg'[m].presence = msg[m].presence
                               /\ msg'[m].content = msg[m].content
    BY PersistEffect
  <1> HIDE DEF s
  <1>2. a \in Attempts /\ a <= made
    BY BoundsAssumption DEF TypeOK, Attempts
  <1> QED
    BY <1>1, <1>2 DEF TypeOK

\* Replacing one created row keeps the rows well typed.
LEMMA RowUpdate ==
  ASSUME TypeOK, NEW a \in 1 .. made, NEW s \in AttemptRow,
         row' = [row EXCEPT ![a] = s], made' = made
  PROVE  /\ row' \in [Attempts -> AttemptRow \cup {NoRow}]
         /\ \A b \in Attempts : IF b <= made' THEN row'[b] \in AttemptRow
                                              ELSE row'[b] = NoRow
  BY BoundsAssumption DEF TypeOK, Attempts

\* A worker stays well typed when it takes a well typed next position.
LEMMA WorkerUpdate ==
  ASSUME TypeOK, NEW w \in Workers, NEW k \in WorkerRow,
         worker' = [worker EXCEPT ![w] = k],
         k.pc # "idle" => k.attempt \in 1 .. made,
         k.disposition = "accepted" => k.status \in Evidence,
         made' = made
  PROVE  /\ worker' \in [Workers -> WorkerRow]
         /\ \A v \in Workers :
              /\ worker'[v].pc # "idle" => worker'[v].attempt \in 1 .. made'
              /\ worker'[v].disposition = "accepted" => worker'[v].status \in Evidence
  BY DEF TypeOK

\* Going back to idle is well typed.
LEMMA ReleaseType ==
  ASSUME TypeOK, NEW w \in Workers, Release(w), made' = made
  PROVE  /\ worker' \in [Workers -> WorkerRow]
         /\ \A v \in Workers :
              /\ worker'[v].pc # "idle" => worker'[v].attempt \in 1 .. made'
              /\ worker'[v].disposition = "accepted" => worker'[v].status \in Evidence
  <1>1. Idle \in WorkerRow /\ Idle.pc = "idle" /\ Idle.disposition = "none"
    BY DEF Idle, WorkerRow, Statuses, NoId
  <1> QED
    BY <1>1, WorkerUpdate DEF Release

\* Every step keeps every variable well typed.
LEMMA TypeStep == TypeOK /\ [Next]_vars => TypeOK'
  <1> SUFFICES ASSUME TypeOK, [Next]_vars PROVE TypeOK'
    OBVIOUS
  <1> USE BoundsAssumption
  <1>1. ASSUME NEW m \in Messages, NEW body \in Bodies, CreateOutboundMessage(m, body)
        PROVE  TypeOK'
    <2>1. /\ msg' \in [Messages -> MessageRow]
          /\ \A n \in Messages : msg'[n].presence = "live" => msg'[n].content \in Bodies
      BY <1>1 DEF CreateOutboundMessage, TypeOK, MessageRow
    <2>2. /\ made' \in 0 .. MaxAttempts /\ made' = made + 1
          /\ row' \in [Attempts -> AttemptRow \cup {NoRow}]
          /\ \A a \in Attempts : IF a <= made' THEN row'[a] \in AttemptRow
                                               ELSE row'[a] = NoRow
      BY <1>1, AppendType DEF CreateOutboundMessage
    <2> QED
      BY <1>1, <2>1, <2>2 DEF CreateOutboundMessage, TypeOK
  <1>2. ASSUME NEW m \in Messages, RetryOutboundMessage(m)
        PROVE  TypeOK'
    <2>1. /\ msg' \in [Messages -> MessageRow]
          /\ \A n \in Messages : msg'[n].presence = "live" => msg'[n].content \in Bodies
      BY <1>2 DEF RetryOutboundMessage, TypeOK, MessageRow, Statuses
    <2>2. msg[m].content \in Bodies
      BY <1>2 DEF RetryOutboundMessage, TypeOK
    <2>3. /\ made' \in 0 .. MaxAttempts /\ made' = made + 1
          /\ row' \in [Attempts -> AttemptRow \cup {NoRow}]
          /\ \A a \in Attempts : IF a <= made' THEN row'[a] \in AttemptRow
                                               ELSE row'[a] = NoRow
      BY <1>2, <2>2, AppendType DEF RetryOutboundMessage
    <2> QED
      BY <1>2, <2>1, <2>3 DEF RetryOutboundMessage, TypeOK
  <1>3. ASSUME NEW m \in Messages, NEW body \in Bodies, UpdateContent(m, body)
        PROVE  TypeOK'
    <2>1. /\ msg' \in [Messages -> MessageRow]
          /\ \A n \in Messages : msg'[n].presence = "live" => msg'[n].content \in Bodies
      <3> DEFINE v == [msg[m] EXCEPT !.content = body, !.edited = TRUE]
      <3>1. v \in MessageRow /\ v.content \in Bodies
        BY DEF TypeOK, MessageRow
      <3>2. msg' = [msg EXCEPT ![m] = v]
        BY <1>3 DEF UpdateContent, TypeOK
      <3> HIDE DEF v
      <3> QED
        BY <3>1, <3>2 DEF TypeOK
    <2> QED
      BY <1>3, <2>1 DEF UpdateContent, TypeOK
  <1>4. ASSUME NEW m \in Messages, DeleteMessage(m) \/ CleanupConversation(m)
         PROVE  TypeOK'
    <2>1. PICK p \in {"deleted", "removed"} :
            msg' = [msg EXCEPT ![m].presence = p, ![m].content = NoBody]
      BY <1>4 DEF DeleteMessage, CleanupConversation
    <2>2. /\ msg' \in [Messages -> MessageRow]
          /\ \A n \in Messages : msg'[n].presence = "live" => msg'[n].content \in Bodies
      <3> DEFINE v == [msg[m] EXCEPT !.presence = p, !.content = NoBody]
      <3>1. v \in MessageRow /\ v.presence # "live"
        BY DEF TypeOK, MessageRow
      <3>2. msg' = [msg EXCEPT ![m] = v]
        BY <2>1 DEF TypeOK
      <3> HIDE DEF v
      <3> QED
        BY <3>1, <3>2 DEF TypeOK
    <2>3. UNCHANGED <<made, row, elapsed, worker, copies, seen, faults>>
      BY <1>4 DEF DeleteMessage, CleanupConversation
    <2> QED
      BY <2>2, <2>3 DEF TypeOK
  <1>5. ASSUME NEW a \in Attempts, LeaseElapses(a)
        PROVE  TypeOK'
    BY <1>5 DEF LeaseElapses, TypeOK
  <1>6. ASSUME NEW w \in Workers, NEW a \in Attempts, ExpireOutboundDispatches(w, a)
        PROVE  TypeOK'
    <2>1. a \in 1 .. made
      BY <1>6, PresentRow DEF ExpireOutboundDispatches
    <2> QED
      BY <1>6, <2>1, PersistType
      DEF ExpireOutboundDispatches, TypeOK, Statuses, NoId

  <1>7. ASSUME NEW w \in Workers, NEW a \in Attempts, ClaimNextOutbound(w, a)
        PROVE  TypeOK'
    <2> DEFINE s == [row[a] EXCEPT !.state = "claimed", !.token = w]
               k == [Idle EXCEPT !.pc = "claimed", !.attempt = a]
    <2>1. a \in 1 .. made
      BY <1>7, PresentRow DEF ClaimNextOutbound, Claimable
    <2>2. row[a] \in AttemptRow
      BY <2>1 DEF TypeOK, Attempts
    <2>3. s \in AttemptRow
      BY <2>2 DEF AttemptRow, States
    <2>4. k \in WorkerRow /\ k.attempt = a /\ k.disposition = "none"
      BY <2>1 DEF Idle, WorkerRow, Statuses, NoId
    <2>5. /\ row' = [row EXCEPT ![a] = s]
          /\ worker' = [worker EXCEPT ![w] = k]
          /\ elapsed' \subseteq Attempts
          /\ UNCHANGED <<msg, made, copies, seen, faults>>
      BY <1>7 DEF ClaimNextOutbound, TypeOK
    <2> HIDE DEF s, k
    <2>6. /\ row' \in [Attempts -> AttemptRow \cup {NoRow}]
          /\ \A b \in Attempts : IF b <= made' THEN row'[b] \in AttemptRow
                                               ELSE row'[b] = NoRow
      BY <2>1, <2>3, <2>5, RowUpdate
    <2>7. /\ worker' \in [Workers -> WorkerRow]
          /\ \A v \in Workers :
               /\ worker'[v].pc # "idle" => worker'[v].attempt \in 1 .. made'
               /\ worker'[v].disposition = "accepted" => worker'[v].status \in Evidence
      BY <2>1, <2>4, <2>5, WorkerUpdate
    <2> QED
      BY <2>5, <2>6, <2>7 DEF TypeOK
  <1>8. ASSUME NEW w \in Workers, BindingConfirmed(w)
        PROVE  TypeOK'
    <2> DEFINE k == [worker[w] EXCEPT !.pc = "bound"]
    <2>1. worker[w] \in WorkerRow /\ worker[w].attempt \in 1 .. made
          /\ (worker[w].disposition = "accepted" => worker[w].status \in Evidence)
      BY <1>8 DEF BindingConfirmed, TypeOK
    <2>2. k \in WorkerRow /\ k.attempt = worker[w].attempt
          /\ k.disposition = worker[w].disposition /\ k.status = worker[w].status
      BY <2>1 DEF WorkerRow
    <2>3. worker' = [worker EXCEPT ![w] = k]
          /\ UNCHANGED <<msg, made, row, elapsed, copies, seen, faults>>
      BY <1>8 DEF BindingConfirmed
    <2> HIDE DEF k
    <2>4. /\ worker' \in [Workers -> WorkerRow]
          /\ \A v \in Workers :
               /\ worker'[v].pc # "idle" => worker'[v].attempt \in 1 .. made'
               /\ worker'[v].disposition = "accepted" => worker'[v].status \in Evidence
      BY <2>1, <2>2, <2>3, WorkerUpdate
    <2> QED
      BY <2>3, <2>4 DEF TypeOK
  <1>9. ASSUME NEW w \in Workers, CancelClaimedOutbound(w) \/ StartCancelled(w)
        PROVE  TypeOK'
    <2>1. /\ worker[w].attempt \in 1 .. made
          /\ PersistOutboundResult(worker[w].attempt, NoId, "cancelled", FALSE, FALSE)
          /\ Release(w)
          /\ UNCHANGED <<made, elapsed, copies, seen, faults>>
      BY <1>9 DEF CancelClaimedOutbound, StartCancelled, TypeOK
    <2>2. NoId \in Nat /\ "cancelled" \in Statuses
      BY DEF NoId, Statuses
    <2> QED
      BY <2>1, <2>2, PersistType, ReleaseType DEF TypeOK
  <1>10. ASSUME NEW w \in Workers, CancelClaimLost(w) \/ StartClaimLost(w)
        PROVE  TypeOK'
    BY <1>10, ReleaseType DEF CancelClaimLost, StartClaimLost, TypeOK
  <1>11. ASSUME NEW w \in Workers, BindingUnavailable(w) \/ Crash(w)
         PROVE  TypeOK'
    BY <1>11, ReleaseType DEF BindingUnavailable, Crash, TypeOK
  <1>12. ASSUME NEW w \in Workers, StartOutboundDispatch(w)
         PROVE  TypeOK'
    <2> DEFINE a == worker[w].attempt
               s == [row[a] EXCEPT !.state = "sending", !.started = TRUE]
               k == [worker[w] EXCEPT !.pc = "sending"]
    <2>1. worker[w] \in WorkerRow /\ a \in 1 .. made
          /\ (worker[w].disposition = "accepted" => worker[w].status \in Evidence)
      BY <1>12 DEF StartOutboundDispatch, TypeOK
    <2>2. row[a] \in AttemptRow
      BY <2>1 DEF TypeOK, Attempts
    <2>3. s \in AttemptRow
      BY <2>2 DEF AttemptRow, States
    <2>4. k \in WorkerRow /\ k.attempt = a
          /\ k.disposition = worker[w].disposition /\ k.status = worker[w].status
      BY <2>1 DEF WorkerRow
    <2>5. /\ row' = [row EXCEPT ![a] = s]
          /\ worker' = [worker EXCEPT ![w] = k]
          /\ UNCHANGED <<msg, made, elapsed, copies, seen, faults>>
      BY <1>12 DEF StartOutboundDispatch
    <2> HIDE DEF a, s, k
    <2>6. /\ row' \in [Attempts -> AttemptRow \cup {NoRow}]
          /\ \A b \in Attempts : IF b <= made' THEN row'[b] \in AttemptRow
                                               ELSE row'[b] = NoRow
      BY <2>1, <2>3, <2>5, RowUpdate
    <2>7. /\ worker' \in [Workers -> WorkerRow]
          /\ \A v \in Workers :
               /\ worker'[v].pc # "idle" => worker'[v].attempt \in 1 .. made'
               /\ worker'[v].disposition = "accepted" => worker'[v].status \in Evidence
      BY <2>1, <2>4, <2>5, WorkerUpdate
    <2>8. UNCHANGED <<msg, made, elapsed, copies, seen, faults>>
      BY <2>5
    <2> QED
      BY <2>6, <2>7, <2>8 DEF TypeOK
  <1>13. ASSUME NEW w \in Workers, NEW taken \in BOOLEAN,
                NEW disposition \in {"accepted", "rejected", "unknown"},
                NEW status \in Statuses \ {"cancelled"},
                disposition = "accepted" => status \in Evidence,
                Respond(w, taken, disposition, status)
         PROVE  TypeOK'
    <2> DEFINE a == worker[w].attempt
               n == copies[a] + 1
               k == [pc |-> "posted", attempt |-> a, disposition |-> disposition,
                     status |-> status,
                     id |-> IF disposition = "accepted" THEN n ELSE NoId]
    <2>1. worker[w] \in WorkerRow /\ a \in 1 .. made /\ a \in Attempts
      BY <1>13 DEF Respond, TypeOK, Attempts
    <2>2. n \in Nat
      BY <2>1 DEF TypeOK
    <2>3. k \in WorkerRow /\ k.attempt = a
          /\ k.disposition = disposition /\ k.status = status
      BY <2>1, <2>2 DEF WorkerRow, NoId
    <2>4. copies' \in [Attempts -> Nat]
      BY <1>13, <2>1, <2>2 DEF Respond, TypeOK
    <2>5. /\ worker' = [worker EXCEPT ![w] = k]
          /\ UNCHANGED <<msg, made, row, elapsed, seen, faults>>
      BY <1>13 DEF Respond
    <2> HIDE DEF a, n, k
    <2>6. /\ worker' \in [Workers -> WorkerRow]
          /\ \A v \in Workers :
               /\ worker'[v].pc # "idle" => worker'[v].attempt \in 1 .. made'
               /\ worker'[v].disposition = "accepted" => worker'[v].status \in Evidence
      BY <1>13, <2>1, <2>3, <2>5, WorkerUpdate
    <2>7. UNCHANGED <<msg, made, row, elapsed, seen, faults>>
      BY <2>5
    <2> QED
      BY <2>4, <2>6, <2>7 DEF TypeOK
  <1>14. ASSUME NEW w \in Workers, Send(w)
         PROVE  TypeOK'
    <2>1. ResponseStatuses \subseteq Evidence /\ Evidence \subseteq Statuses \ {"cancelled"}
      BY DEF ResponseStatuses, Evidence, Statuses
    <2>2. CASE SendAccepted(w)
      BY <2>1, <2>2, <1>13 DEF SendAccepted
    <2>3. CASE SendRejected(w)
      BY <2>1, <2>3, <1>13 DEF SendRejected, Evidence, Statuses
    <2>4. CASE SendUnknown(w)
      BY <2>4, <1>13 DEF SendUnknown, Statuses
    <2> QED
      BY <1>14, <2>2, <2>3, <2>4 DEF Send
  <1>15. ASSUME NEW w \in Workers, CompleteOutboundDispatch(w)
         PROVE  TypeOK'
    <2> DEFINE a == worker[w].attempt
    <2>1. /\ worker[w] \in WorkerRow /\ a \in 1 .. made /\ a \in Attempts
          /\ Release(w) /\ UNCHANGED <<made, elapsed, copies, faults>>
          /\ (worker[w].disposition = "accepted" => worker[w].status \in Evidence)
      BY <1>15 DEF CompleteOutboundDispatch, TypeOK, Attempts
    <2>2. worker[w].id \in Nat /\ worker[w].status \in Statuses
      BY <2>1 DEF WorkerRow
    <2>3. /\ worker' \in [Workers -> WorkerRow]
          /\ \A v \in Workers :
               /\ worker'[v].pc # "idle" => worker'[v].attempt \in 1 .. made'
               /\ worker'[v].disposition = "accepted" => worker'[v].status \in Evidence
      BY <2>1, ReleaseType
    <2>4. CASE UNCHANGED <<msg, row, seen>>
      BY <2>1, <2>3, <2>4 DEF TypeOK
    <2>5. ASSUME NEW retrySafe \in BOOLEAN, NEW evidence \in BOOLEAN,
                 PersistOutboundResult(a, worker[w].id, worker[w].status,
                                       retrySafe, evidence),
                 seen' \in [Attempts -> SUBSET Evidence]
          PROVE  TypeOK'
      <3>1. /\ msg' \in [Messages -> MessageRow]
            /\ \A m \in Messages : msg'[m].presence = "live" => msg'[m].content \in Bodies
            /\ row' \in [Attempts -> AttemptRow \cup {NoRow}]
            /\ \A b \in Attempts : IF b <= made' THEN row'[b] \in AttemptRow
                                                 ELSE row'[b] = NoRow
        BY <2>1, <2>2, <2>5, PersistType
      <3> QED
        BY <2>1, <2>3, <2>5, <3>1 DEF TypeOK
    <2> QED
      <3>1. seen \in [Attempts -> SUBSET Evidence]
        BY DEF TypeOK
      <3> DEFINE accepted == worker[w].disposition = "accepted"
      <3>2. \/ UNCHANGED <<msg, row, seen>>
            \/ /\ PersistOutboundResult(a, worker[w].id, worker[w].status,
                                        FirstRejection(w), accepted)
               /\ seen' = IF accepted
                          THEN [seen EXCEPT ![a] = @ \cup {worker[w].status}]
                          ELSE seen
        BY <1>15 DEF CompleteOutboundDispatch
      <3>3. FirstRejection(w) \in BOOLEAN /\ accepted \in BOOLEAN
        BY DEF FirstRejection
      <3>4. (seen' = IF accepted
                     THEN [seen EXCEPT ![a] = @ \cup {worker[w].status}]
                     ELSE seen)
            => seen' \in [Attempts -> SUBSET Evidence]
        BY <2>1, <3>1
      <3> QED
        BY <3>2, <3>3, <3>4, <2>4, <2>5
  <1>16. ASSUME NEW a \in Attempts, StatusStep(a)
         PROVE  TypeOK'
    <2>1. PICK id \in 1 .. copies[a], status \in CallbackStatuses :
            ApplyOutboundStatus(a, id, status)
      BY <1>16 DEF StatusStep
    <2>2. a \in 1 .. made
      BY <2>1, PresentRow DEF ApplyOutboundStatus, Recordable
    <2>3. id \in Nat /\ status \in Evidence /\ status \in Statuses
      BY <2>1 DEF TypeOK, CallbackStatuses, Evidence, Statuses
    <2>4. /\ PersistOutboundResult(a, id, status, FALSE, TRUE)
          /\ seen' \in [Attempts -> SUBSET Evidence]
          /\ UNCHANGED <<made, elapsed, worker, copies, faults>>
      BY <2>1, <2>3 DEF ApplyOutboundStatus, TypeOK
    <2>5. /\ msg' \in [Messages -> MessageRow]
          /\ \A m \in Messages : msg'[m].presence = "live" => msg'[m].content \in Bodies
          /\ row' \in [Attempts -> AttemptRow \cup {NoRow}]
          /\ \A b \in Attempts : IF b <= made' THEN row'[b] \in AttemptRow
                                               ELSE row'[b] = NoRow
      BY <2>2, <2>3, <2>4, PersistType
    <2> QED
      BY <2>4, <2>5 DEF TypeOK
  <1>17. CASE UNCHANGED vars
    BY <1>17 DEF vars, TypeOK
  <1> QED
    BY <1>1, <1>2, <1>3, <1>4, <1>5, <1>6, <1>7, <1>8, <1>9,
       <1>10, <1>11, <1>12, <1>13, <1>14, <1>15, <1>16, <1>17
    DEF Next, AgentStep, WorkerStep, SendBinding, StartStep

\* Every reachable state is well typed.
THEOREM TypeCorrect == Spec => []TypeOK
  BY TypeInit, TypeStep, PTL DEF Spec

DispatchInvariant == SendersHoldDispatch /\ DispatchShape

\* No worker starts or continues a dispatch in this step.
SendersOnlyLeave ==
    \A v \in Workers : worker'[v] = worker[v] \/ worker'[v].pc \in {"idle", "claimed", "bound"}

(***************************************************************************)
(* Dispatches.                                                             *)
(***************************************************************************)

\* Before the first attempt nobody holds a claim and nothing was sent.
LEMMA DispatchInit == Init => DispatchInvariant
  BY DEF Init, DispatchInvariant, SendersHoldDispatch, DispatchShape, Sends,
         NoRow, Idle

\* A worker that only leaves a dispatch is not sending afterwards unless it was.
LEMMA SendsOnlyLeave ==
  ASSUME SendersOnlyLeave, NEW w \in Workers, NEW a, Sends(w, a)'
  PROVE  Sends(w, a) /\ worker'[w] = worker[w]
  BY DEF SendersOnlyLeave, Sends

\* A step that leaves rows and copies alone keeps the invariant.
LEMMA QuietDispatch ==
  ASSUME DispatchInvariant, UNCHANGED <<row, copies>>, SendersOnlyLeave
  PROVE  DispatchInvariant'
  <1>1. SendersHoldDispatch'
    BY SendsOnlyLeave DEF DispatchInvariant, SendersHoldDispatch
  <1>2. DispatchShape'
    BY DEF DispatchInvariant, DispatchShape
  <1> QED
    BY <1>1, <1>2 DEF DispatchInvariant

\* A result recorded on a dispatched attempt is no cancellation, and a
\* cancellation of a claimed attempt is recorded as one.
LEMMA ResultStatus ==
  ASSUME NEW r \in AttemptRow, NEW status \in Statuses, NEW evidence \in BOOLEAN
  PROVE  /\ r.status # "cancelled" /\ status # "cancelled"
              => Merged(r, status, evidence) # "cancelled"
         /\ r.status \in {"queued", "cancelled"} /\ status = "cancelled" /\ ~evidence
              => Merged(r, status, evidence) = "cancelled"
  <1>1. r.status \in Statuses
    BY DEF AttemptRow
  <1>2. MergeStatus(r.status, status) \in {r.status, status}
    BY <1>1, MergeKeepsProgress
  <1>3. r.status # "cancelled" /\ status # "cancelled"
          => Merged(r, status, evidence) # "cancelled"
    BY <1>2 DEF Merged
  <1>4. ASSUME r.status \in {"queued", "cancelled"}, status = "cancelled", ~evidence
        PROVE  Merged(r, status, evidence) = "cancelled"
    <2>1. Progress(r.status) = 0
      BY <1>4 DEF Progress
    <2>2. MergeStatus(r.status, status) = status
      BY <1>4, <2>1 DEF MergeStatus
    <2> QED
      BY <1>4, <2>2 DEF Merged
  <1> QED
    BY <1>3, <1>4

\* Recording a result on an attempt keeps the invariant.
LEMMA PersistDispatch ==
  ASSUME TypeOK, DispatchInvariant, NEW a \in 1 .. made, NEW id \in Nat,
         NEW status \in Statuses, NEW retrySafe \in BOOLEAN, NEW evidence \in BOOLEAN,
         PersistOutboundResult(a, id, status, retrySafe, evidence),
         \/ row[a].started /\ status # "cancelled"
         \/ ~row[a].started /\ status = "cancelled" /\ ~evidence,
         copies' = copies, SendersOnlyLeave
  PROVE  DispatchInvariant'
  <1> DEFINE s == Settled(row[a], id, status, retrySafe, evidence)
  <1>1. row[a] \in AttemptRow /\ s \in AttemptRow /\ row' = [row EXCEPT ![a] = s]
    BY PersistEffect
  <1>2. /\ s.token = row[a].token /\ s.started = row[a].started
        /\ s.status = Merged(row[a], status, evidence)
        /\ s.state = StateOf(s.status)
        /\ s.retrySafe => s.state = "settled"
    BY <1>1, SettledRow
  <1>3. a \in Attempts
    BY BoundsAssumption DEF TypeOK, Attempts
  <1>4. /\ row[a].started => row[a].status # "cancelled"
        /\ ~row[a].started => row[a].status \in {"queued", "cancelled"}
    BY <1>3 DEF DispatchInvariant, DispatchShape
  <1>5. IF row[a].started THEN s.status # "cancelled" ELSE s.status = "cancelled"
    BY <1>1, <1>2, <1>4, ResultStatus
  <1>6. /\ s.started <=> s.state \in {"sending", "unknown", "settled"}
        /\ ~s.started => s.state = "cancelled"
    BY <1>2, <1>5 DEF StateOf
  <1> HIDE DEF s
  <1>7. /\ \A b \in Attempts : b # a => row'[b] = row[b]
        /\ row'[a] = s
    BY <1>1, <1>3 DEF TypeOK
  <1>8. DispatchShape'
    BY <1>2, <1>3, <1>5, <1>6, <1>7 DEF DispatchInvariant, DispatchShape
  <1>9. SendersHoldDispatch'
    BY <1>2, <1>7, SendsOnlyLeave DEF DispatchInvariant, SendersHoldDispatch
  <1> QED
    BY <1>8, <1>9 DEF DispatchInvariant

\* A created attempt is neither dispatched nor sent by anyone.
LEMMA AppendDispatch ==
  ASSUME TypeOK, DispatchInvariant, NEW m \in Messages, NEW body, Append1(m, body),
         UNCHANGED <<worker, copies>>
  PROVE  DispatchInvariant'
  <1> DEFINE b == made + 1
  <1>1. /\ b \in Attempts /\ row[b] = NoRow /\ row' = [row EXCEPT ![b] = Intent(m, body)]
    BY BoundsAssumption DEF Append1, TypeOK, Attempts
  <1>2. ~NoRow.started
    BY DEF NoRow
  <1>3. /\ ~Intent(m, body).started /\ Intent(m, body).state = "queued"
        /\ Intent(m, body).status = "queued" /\ ~Intent(m, body).retrySafe
    BY DEF Intent, NoRow
  <1> HIDE DEF b
  <1>4. /\ row'[b] = Intent(m, body)
        /\ \A a \in Attempts : a # b => row'[a] = row[a]
    BY <1>1 DEF TypeOK
  <1>5. ~row[b].started
    BY <1>1, <1>2
  <1>6. DispatchShape'
    BY <1>1, <1>3, <1>4, <1>5 DEF DispatchInvariant, DispatchShape
  <1>7. SendersHoldDispatch'
    BY <1>1, <1>4, <1>5 DEF DispatchInvariant, SendersHoldDispatch, Sends
  <1> QED
    BY <1>6, <1>7 DEF DispatchInvariant

\* A worker that sends an attempt is the only one.
LEMMA OneSender ==
  ASSUME DispatchInvariant, NEW v \in Workers, NEW w \in Workers,
         NEW a \in Attempts, Sends(v, a), Sends(w, a)
  PROVE  v = w
  BY DEF DispatchInvariant, SendersHoldDispatch

\* Claiming changes an attempt nobody has dispatched.
LEMMA ClaimDispatch ==
  ASSUME TypeOK, DispatchInvariant, NEW w \in Workers, NEW a \in Attempts,
         ClaimNextOutbound(w, a)
  PROVE  DispatchInvariant'
  <1> DEFINE s == [row[a] EXCEPT !.state = "claimed", !.token = w]
  <1>1. /\ row' = [row EXCEPT ![a] = s]
        /\ worker' = [worker EXCEPT ![w] = [Idle EXCEPT !.pc = "claimed", !.attempt = a]]
        /\ copies' = copies /\ ~row[a].started
        /\ row[a].state \in {"queued", "claimed"}
    BY DEF ClaimNextOutbound, Claimable
  <1>2. row[a] \in AttemptRow
    BY <1>1, PresentRow, BoundsAssumption DEF TypeOK, Attempts
  <1>3. /\ s.state = "claimed" /\ ~s.started /\ s.status = row[a].status
        /\ s.retrySafe = row[a].retrySafe
    BY <1>1, <1>2 DEF AttemptRow
  <1> HIDE DEF s
  <1>4. row'[a] = s /\ \A b \in Attempts : b # a => row'[b] = row[b]
    BY <1>1 DEF TypeOK
  <1>5. SendersOnlyLeave
    BY <1>1 DEF SendersOnlyLeave, TypeOK, Idle
  <1>6. DispatchShape'
    BY <1>1, <1>3, <1>4 DEF DispatchInvariant, DispatchShape
  <1>7. SendersHoldDispatch'
    BY <1>1, <1>4, <1>5, SendsOnlyLeave DEF DispatchInvariant, SendersHoldDispatch
  <1> QED
    BY <1>6, <1>7 DEF DispatchInvariant

\* What starting a dispatch does to the attempt and to the worker.
LEMMA StartEffect ==
  ASSUME TypeOK, NEW w \in Workers, StartOutboundDispatch(w)
  PROVE  LET a == worker[w].attempt
         IN  /\ a \in Attempts /\ a \in 1 .. made
             /\ row[a].state = "claimed" /\ row[a].token = w /\ ~row[a].started
             /\ row'[a].state = "sending" /\ row'[a].started
             /\ row'[a].token = w /\ row'[a].status = row[a].status
             /\ row'[a].retrySafe = row[a].retrySafe /\ row'[a].msg = row[a].msg
             /\ \A b \in Attempts : b # a => row'[b] = row[b]
             /\ worker'[w].pc = "sending" /\ worker'[w].attempt = a
             /\ \A v \in Workers : v # w => worker'[v] = worker[v]
             /\ UNCHANGED <<msg, made, copies>>
  <1> DEFINE a == worker[w].attempt
             s == [row[a] EXCEPT !.state = "sending", !.started = TRUE]
             k == [worker[w] EXCEPT !.pc = "sending"]
  <1>1. a \in 1 .. made /\ a \in Attempts /\ worker[w] \in WorkerRow
    BY BoundsAssumption DEF StartOutboundDispatch, TypeOK, Attempts
  <1>2. row[a] \in AttemptRow
    BY <1>1 DEF TypeOK
  <1>3. /\ row[a].state = "claimed" /\ row[a].token = w /\ ~row[a].started
        /\ row' = [row EXCEPT ![a] = s]
        /\ worker' = [worker EXCEPT ![w] = k]
        /\ UNCHANGED <<msg, made, copies>>
    BY DEF StartOutboundDispatch, ClaimHeld
  <1>4. /\ s.state = "sending" /\ s.started /\ s.token = row[a].token
        /\ s.status = row[a].status /\ s.retrySafe = row[a].retrySafe
        /\ s.msg = row[a].msg
    BY <1>2 DEF AttemptRow
  <1>5. k.pc = "sending" /\ k.attempt = a
    BY <1>1 DEF WorkerRow
  <1> HIDE DEF s, k
  <1>6. row'[a] = s /\ \A b \in Attempts : b # a => row'[b] = row[b]
    BY <1>1, <1>3 DEF TypeOK
  <1>7. worker'[w] = k /\ \A v \in Workers : v # w => worker'[v] = worker[v]
    BY <1>3 DEF TypeOK
  <1> QED
    BY <1>1, <1>3, <1>4, <1>5, <1>6, <1>7

\* Starting makes the holder of the claim the attempt's first and only sender.
LEMMA StartDispatch ==
  ASSUME TypeOK, DispatchInvariant, NEW w \in Workers, StartOutboundDispatch(w)
  PROVE  DispatchInvariant'
  <1> DEFINE a == worker[w].attempt
  <1>1. /\ a \in Attempts /\ ~row[a].started /\ row[a].state = "claimed"
        /\ row'[a].state = "sending" /\ row'[a].started
        /\ row'[a].token = w /\ row'[a].status = row[a].status
        /\ row'[a].retrySafe = row[a].retrySafe
        /\ \A b \in Attempts : b # a => row'[b] = row[b]
        /\ worker'[w].pc = "sending" /\ worker'[w].attempt = a
        /\ \A v \in Workers : v # w => worker'[v] = worker[v]
        /\ copies' = copies
    BY StartEffect
  <1> HIDE DEF a
  <1>2. copies[a] = 0 /\ row[a].status = "queued" /\ ~row[a].retrySafe
    BY <1>1 DEF DispatchInvariant, DispatchShape, TypeOK
  <1>3. \A v \in Workers : ~Sends(v, a)
    BY <1>1 DEF DispatchInvariant, SendersHoldDispatch
  <1>4. DispatchShape'
    BY <1>1, <1>2 DEF DispatchInvariant, DispatchShape
  <1>5. \A v \in Workers, b \in Attempts :
          Sends(v, b)' => (v = w /\ b = a) \/ (v # w /\ b # a /\ Sends(v, b))
    BY <1>1, <1>3 DEF Sends
  <1>6. SendersHoldDispatch'
    BY <1>1, <1>2, <1>5 DEF DispatchInvariant, SendersHoldDispatch, Sends
  <1> QED
    BY <1>4, <1>6 DEF DispatchInvariant

\* What a POST does to the copies and to the worker.
LEMMA RespondEffect ==
  ASSUME TypeOK, NEW w \in Workers, NEW taken \in BOOLEAN, NEW disposition,
         NEW status, Respond(w, taken, disposition, status)
  PROVE  LET a == worker[w].attempt
         IN  /\ a \in Attempts /\ a \in 1 .. made
             /\ worker[w].pc = "sending"
             /\ copies'[a] = IF taken THEN copies[a] + 1 ELSE copies[a]
             /\ \A b \in Attempts : b # a => copies'[b] = copies[b]
             /\ worker'[w].pc = "posted" /\ worker'[w].attempt = a
             /\ worker'[w].disposition = disposition
             /\ \A v \in Workers : v # w => worker'[v] = worker[v]
             /\ UNCHANGED <<msg, made, row>>
  <1> DEFINE a == worker[w].attempt
  <1>1. a \in 1 .. made /\ a \in Attempts
    BY BoundsAssumption DEF Respond, TypeOK, Attempts
  <1>2. /\ copies'[a] = IF taken THEN copies[a] + 1 ELSE copies[a]
        /\ \A b \in Attempts : b # a => copies'[b] = copies[b]
    BY <1>1 DEF Respond, TypeOK
  <1>3. /\ worker'[w].pc = "posted" /\ worker'[w].attempt = a
        /\ worker'[w].disposition = disposition
        /\ \A v \in Workers : v # w => worker'[v] = worker[v]
    BY DEF Respond, TypeOK
  <1> QED
    BY <1>1, <1>2, <1>3 DEF Respond

\* The provider takes the first copy of an attempt from its only sender.
LEMMA RespondDispatch ==
  ASSUME TypeOK, DispatchInvariant, NEW w \in Workers, NEW taken \in BOOLEAN,
         NEW disposition, NEW status, Respond(w, taken, disposition, status)
  PROVE  DispatchInvariant'
  <1> DEFINE a == worker[w].attempt
  <1>1. /\ a \in Attempts /\ worker[w].pc = "sending"
        /\ copies'[a] = IF taken THEN copies[a] + 1 ELSE copies[a]
        /\ \A b \in Attempts : b # a => copies'[b] = copies[b]
        /\ worker'[w].pc = "posted" /\ worker'[w].attempt = a
        /\ \A v \in Workers : v # w => worker'[v] = worker[v]
        /\ row' = row
    BY RespondEffect
  <1>2. Sends(w, a)
    BY <1>1 DEF Sends
  <1>3. row[a].started /\ copies[a] = 0 /\ \A v \in Workers : v # w => ~Sends(v, a)
    BY <1>1, <1>2, OneSender DEF DispatchInvariant, SendersHoldDispatch
  <1> HIDE DEF a
  <1>4. copies'[a] <= 1
    BY <1>1, <1>3
  <1>5. DispatchShape'
    BY <1>1, <1>3, <1>4 DEF DispatchInvariant, DispatchShape
  <1>6. \A v \in Workers, b \in Attempts :
          Sends(v, b)' => (v = w /\ b = a) \/ (v # w /\ b # a /\ Sends(v, b))
    BY <1>1, <1>3 DEF Sends
  <1>7. SendersHoldDispatch'
    BY <1>1, <1>2, <1>6 DEF DispatchInvariant, SendersHoldDispatch, Sends
  <1> QED
    BY <1>5, <1>7 DEF DispatchInvariant

\* Recording an answer writes one attempt, or nothing when the claim is not the
\* worker's or another copy is on record.
LEMMA CompleteEffect ==
  ASSUME TypeOK, NEW w \in Workers, CompleteOutboundDispatch(w)
  PROVE  LET a == worker[w].attempt
         IN  /\ a \in 1 .. made /\ a \in Attempts /\ worker[w].pc = "posted"
             /\ Release(w) /\ made' = made /\ copies' = copies
             /\ worker[w].id \in Nat
             /\ worker[w].status \in Statuses /\ worker[w].status # "cancelled"
             /\ FirstRejection(w) \in BOOLEAN
             /\ \/ UNCHANGED <<msg, row>>
                \/ /\ row[a].started
                   /\ row[a].state \in {"sending", "unknown", "settled"}
                   /\ \E evidence \in BOOLEAN :
                        PersistOutboundResult(a, worker[w].id, worker[w].status,
                                              FirstRejection(w), evidence)
  <1> DEFINE a == worker[w].attempt
             accepted == worker[w].disposition = "accepted"
  <1>1. a \in 1 .. made /\ a \in Attempts /\ worker[w] \in WorkerRow
    BY BoundsAssumption DEF CompleteOutboundDispatch, TypeOK, Attempts
  <1>2. /\ worker[w].id \in Nat /\ worker[w].status \in Statuses
        /\ worker[w].status # "cancelled"
    BY <1>1 DEF WorkerRow
  <1>3. FirstRejection(w) \in BOOLEAN /\ accepted \in BOOLEAN
    BY DEF FirstRejection
  <1>4. \/ UNCHANGED <<msg, row>>
        \/ /\ Recordable(row[a], worker[w].id)
           /\ PersistOutboundResult(a, worker[w].id, worker[w].status,
                                    FirstRejection(w), accepted)
    BY DEF CompleteOutboundDispatch
  <1>5. worker[w].pc = "posted" /\ Release(w) /\ made' = made /\ copies' = copies
    BY DEF CompleteOutboundDispatch
  <1> QED
    BY <1>1, <1>2, <1>3, <1>4, <1>5 DEF Recordable

\* Every step keeps the invariant.
LEMMA DispatchStep ==
  TypeOK /\ DispatchInvariant /\ [Next]_vars => DispatchInvariant'
  <1> SUFFICES ASSUME TypeOK, DispatchInvariant, [Next]_vars
               PROVE  DispatchInvariant'
    OBVIOUS
  <1>1. ASSUME NEW m \in Messages, NEW body \in Bodies, CreateOutboundMessage(m, body)
        PROVE  DispatchInvariant'
    BY <1>1, AppendDispatch DEF CreateOutboundMessage
  <1>2. ASSUME NEW m \in Messages, RetryOutboundMessage(m)
        PROVE  DispatchInvariant'
    BY <1>2, AppendDispatch DEF RetryOutboundMessage
  <1>3. ASSUME NEW m \in Messages,
               \/ \E body \in Bodies : UpdateContent(m, body)
               \/ DeleteMessage(m) \/ CleanupConversation(m)
        PROVE  DispatchInvariant'
    BY <1>3, QuietDispatch
    DEF UpdateContent, DeleteMessage, CleanupConversation, SendersOnlyLeave
  <1>4. ASSUME NEW a \in Attempts, LeaseElapses(a)
        PROVE  DispatchInvariant'
    BY <1>4, QuietDispatch DEF LeaseElapses, SendersOnlyLeave
  <1>5. ASSUME NEW w \in Workers, NEW a \in Attempts, ExpireOutboundDispatches(w, a)
        PROVE  DispatchInvariant'
    <2>1. a \in 1 .. made
      BY <1>5, PresentRow DEF ExpireOutboundDispatches
    <2>2. SendersOnlyLeave
      BY <1>5 DEF ExpireOutboundDispatches, SendersOnlyLeave
    <2>3. NoId \in Nat /\ "unknown" \in Statuses /\ "unknown" # "cancelled"
      BY DEF NoId, Statuses
    <2> QED
      BY <1>5, <2>1, <2>2, <2>3, PersistDispatch DEF ExpireOutboundDispatches
  <1>6. ASSUME NEW w \in Workers, NEW a \in Attempts, ClaimNextOutbound(w, a)
        PROVE  DispatchInvariant'
    BY <1>6, ClaimDispatch
  <1>7. ASSUME NEW w \in Workers, BindingConfirmed(w)
        PROVE  DispatchInvariant'
    <2>1. worker'[w].pc = "bound" /\ \A v \in Workers : v # w => worker'[v] = worker[v]
      BY <1>7 DEF BindingConfirmed, TypeOK, WorkerRow
    <2> QED
      BY <1>7, <2>1, QuietDispatch DEF BindingConfirmed, SendersOnlyLeave
  <1>8. ASSUME NEW w \in Workers, Release(w)
        PROVE  SendersOnlyLeave
    BY <1>8 DEF Release, TypeOK, Idle, SendersOnlyLeave
  <1>9. ASSUME NEW w \in Workers, CancelClaimedOutbound(w) \/ StartCancelled(w)
        PROVE  DispatchInvariant'
    <2>1. /\ worker[w].attempt \in 1 .. made
          /\ PersistOutboundResult(worker[w].attempt, NoId, "cancelled", FALSE, FALSE)
          /\ Release(w) /\ copies' = copies /\ ~row[worker[w].attempt].started
      BY <1>9 DEF CancelClaimedOutbound, StartCancelled, TypeOK, ClaimHeld
    <2>2. NoId \in Nat /\ "cancelled" \in Statuses
      BY DEF NoId, Statuses
    <2> QED
      BY <1>8, <2>1, <2>2, PersistDispatch
  <1>10. ASSUME NEW w \in Workers,
                \/ CancelClaimLost(w) \/ StartClaimLost(w)
                \/ BindingUnavailable(w) \/ Crash(w)
         PROVE  DispatchInvariant'
    BY <1>8, <1>10, QuietDispatch
    DEF CancelClaimLost, StartClaimLost, BindingUnavailable, Crash
  <1>11. ASSUME NEW w \in Workers, StartOutboundDispatch(w)
         PROVE  DispatchInvariant'
    BY <1>11, StartDispatch
  <1>12. ASSUME NEW w \in Workers, Send(w)
         PROVE  DispatchInvariant'
    BY <1>12, RespondDispatch DEF Send, SendAccepted, SendRejected, SendUnknown
  <1>13. ASSUME NEW w \in Workers, CompleteOutboundDispatch(w)
         PROVE  DispatchInvariant'
    <2> DEFINE a == worker[w].attempt
    <2>1. /\ a \in 1 .. made /\ Release(w) /\ copies' = copies
          /\ worker[w].id \in Nat
          /\ worker[w].status \in Statuses /\ worker[w].status # "cancelled"
          /\ FirstRejection(w) \in BOOLEAN
      BY <1>13, CompleteEffect
    <2>2. CASE UNCHANGED <<msg, row>>
      BY <1>8, <2>1, <2>2, QuietDispatch
    <2>3. ASSUME NEW evidence \in BOOLEAN, row[a].started,
                 PersistOutboundResult(a, worker[w].id, worker[w].status,
                                       FirstRejection(w), evidence)
          PROVE  DispatchInvariant'
      BY <1>8, <2>1, <2>3, PersistDispatch
    <2> QED
      BY <1>13, <2>2, <2>3, CompleteEffect
  <1>14. ASSUME NEW a \in Attempts, StatusStep(a)
         PROVE  DispatchInvariant'
    <2>1. PICK id \in 1 .. copies[a], status \in CallbackStatuses :
            ApplyOutboundStatus(a, id, status)
      BY <1>14 DEF StatusStep
    <2>2. a \in 1 .. made
      BY <2>1, PresentRow DEF ApplyOutboundStatus, Recordable
    <2>3. id \in Nat /\ status \in Statuses /\ status # "cancelled"
      BY <2>1 DEF TypeOK, CallbackStatuses, Evidence, Statuses
    <2>4. /\ PersistOutboundResult(a, id, status, FALSE, TRUE)
          /\ row[a].started /\ copies' = copies /\ SendersOnlyLeave
      BY <2>1 DEF ApplyOutboundStatus, Recordable, SendersOnlyLeave
    <2> QED
      BY <2>2, <2>3, <2>4, PersistDispatch
  <1>15. CASE UNCHANGED vars
    BY <1>15, QuietDispatch DEF vars, SendersOnlyLeave
  <1> QED
    BY <1>1, <1>2, <1>3, <1>4, <1>5, <1>6, <1>7, <1>9,
       <1>10, <1>11, <1>12, <1>13, <1>14, <1>15
    DEF Next, AgentStep, WorkerStep, SendBinding, StartStep

(***************************************************************************)
(* Refusals.                                                               *)
(***************************************************************************)
RefusalInvariant == SafeMeansRefused /\ RetryAfterRefusal

\* Before the first attempt nothing was refused or retried.
LEMMA RefusalInit == Init => RefusalInvariant
  BY DEF Init, RefusalInvariant, SafeMeansRefused, RetryAfterRefusal, Idle

\* A step that creates no attempt keeps the invariant when refused attempts stay
\* refused, safe ones are refused, and no rejection on its way is wrong.
LEMMA RefusalFrame ==
  ASSUME TypeOK, RefusalInvariant, made' = made,
         \A c \in 1 .. made :
            /\ Refused(c) => Refused(c)'
            /\ row'[c].msg = row[c].msg
            /\ row'[c].retrySafe => row[c].retrySafe \/ Refused(c)',
         \A m \in Messages : msg[m].presence # "absent" => msg'[m].presence # "absent",
         \A w \in Workers :
            worker'[w].pc = "posted" /\ worker'[w].disposition = "rejected"
              => copies'[worker'[w].attempt] = 0
  PROVE  RefusalInvariant'
  <1>1. \A c \in 1 .. made : row[c].msg \in Messages
    BY BoundsAssumption DEF TypeOK, Attempts, AttemptRow
  <1>2. SafeMeansRefused'
    BY DEF RefusalInvariant, SafeMeansRefused
  <1>3. (\A a \in 1 .. made : msg[row[a].msg].presence # "absent")'
    BY <1>1 DEF RefusalInvariant, RetryAfterRefusal
  <1>4. (\A a, b \in 1 .. made : a < b /\ row[a].msg = row[b].msg => Refused(a))'
    BY DEF RefusalInvariant, RetryAfterRefusal
  <1> QED
    BY <1>2, <1>3, <1>4 DEF RefusalInvariant, RetryAfterRefusal

\* A refused attempt whose row and copies a step leaves alone stays refused when
\* nobody starts to send it.
LEMMA RefusedStays ==
  ASSUME NEW c, Refused(c), row'[c] = row[c], copies'[c] = copies[c],
         \A v \in Workers : Sends(v, c)' => Sends(v, c)
  PROVE  Refused(c)'
  BY DEF Refused

\* Steps that leave attempts, copies and dispatches alone.
LEMMA QuietRefusal ==
  ASSUME TypeOK, RefusalInvariant, UNCHANGED <<made, row, copies>>, SendersOnlyLeave,
         \A m \in Messages : msg[m].presence # "absent" => msg'[m].presence # "absent"
  PROVE  RefusalInvariant'
  <1>1. \A c \in 1 .. made : Refused(c) => Refused(c)'
    BY RefusedStays, SendsOnlyLeave
  <1>2. \A w \in Workers :
          worker'[w].pc = "posted" /\ worker'[w].disposition = "rejected"
            => copies'[worker'[w].attempt] = 0
    BY DEF SendersOnlyLeave, RefusalInvariant, SafeMeansRefused
  <1> QED
    BY <1>1, <1>2, RefusalFrame

\* A result is never recorded on a refused attempt; a safe one makes it refused.
LEMMA PersistRefusal ==
  ASSUME TypeOK, RefusalInvariant, NEW a \in 1 .. made, NEW id \in Nat,
         NEW status \in Statuses, NEW retrySafe \in BOOLEAN, NEW evidence \in BOOLEAN,
         PersistOutboundResult(a, id, status, retrySafe, evidence),
         UNCHANGED <<made, copies>>, SendersOnlyLeave, ~Refused(a),
         retrySafe => copies[a] = 0 /\ \A v \in Workers : ~Sends(v, a)'
  PROVE  RefusalInvariant'
  <1> DEFINE s == Settled(row[a], id, status, retrySafe, evidence)
  <1>1. /\ row[a] \in AttemptRow /\ s \in AttemptRow /\ row' = [row EXCEPT ![a] = s]
        /\ \A m \in Messages : msg'[m].presence = msg[m].presence
    BY PersistEffect
  <1>2. s.msg = row[a].msg /\ (s.retrySafe => retrySafe /\ s.state = "settled")
    BY <1>1, SettledRow
  <1>3. a \in Attempts /\ \A c \in 1 .. made : c \in Attempts
    BY BoundsAssumption DEF TypeOK, Attempts
  <1> HIDE DEF s
  <1>4. row'[a] = s /\ \A c \in Attempts : c # a => row'[c] = row[c]
    BY <1>1, <1>3 DEF TypeOK
  <1>5. s.retrySafe => Refused(a)'
    BY <1>2, <1>4 DEF Refused
  <1>6. \A c \in 1 .. made : Refused(c) => Refused(c)'
    BY <1>3, <1>4, RefusedStays, SendsOnlyLeave
  <1>7. \A w \in Workers :
          worker'[w].pc = "posted" /\ worker'[w].disposition = "rejected"
            => copies'[worker'[w].attempt] = 0
    BY DEF SendersOnlyLeave, RefusalInvariant, SafeMeansRefused
  <1>8. \A c \in 1 .. made : /\ row'[c].msg = row[c].msg
                             /\ row'[c].retrySafe => row[c].retrySafe \/ Refused(c)'
    BY <1>2, <1>3, <1>4, <1>5
  <1> QED
    BY <1>1, <1>6, <1>7, <1>8, RefusalFrame

\* A new attempt follows refused attempts only.
LEMMA AppendRefusal ==
  ASSUME TypeOK, RefusalInvariant, NEW m \in Messages, NEW body, Append1(m, body),
         UNCHANGED <<worker, copies>>,
         \A a \in AttemptsOf(m) : Refused(a),
         \A n \in Messages : msg[n].presence # "absent" => msg'[n].presence # "absent",
         msg'[m].presence # "absent"
  PROVE  RefusalInvariant'
  <1> DEFINE b == made + 1
  <1>1. /\ made \in Nat /\ b \in Attempts /\ made' = b
        /\ row' = [row EXCEPT ![b] = Intent(m, body)]
        /\ \A a \in 1 .. made : a \in Attempts /\ a # b
    BY BoundsAssumption DEF Append1, TypeOK, Attempts
  <1>2. Intent(m, body).msg = m /\ ~Intent(m, body).retrySafe
    BY DEF Intent, NoRow
  <1>3. /\ row'[b].msg = m /\ ~row'[b].retrySafe
        /\ \A a \in 1 .. made : row'[a] = row[a]
    BY <1>1, <1>2 DEF TypeOK
  <1>4. \A a \in 1 .. made' : a \in 1 .. made \/ a = b
    BY <1>1
  <1>5. \A a \in 1 .. made : row[a].msg \in Messages
    BY <1>1 DEF TypeOK, AttemptRow
  <1>6. \A a \in 1 .. made : Refused(a) => Refused(a)'
    BY <1>3, RefusedStays DEF Sends
  <1>7. SafeMeansRefused'
    BY <1>3, <1>4, <1>6 DEF RefusalInvariant, SafeMeansRefused
  <1>8. (\A a \in 1 .. made : msg[row[a].msg].presence # "absent")'
    BY <1>3, <1>4, <1>5 DEF RefusalInvariant, RetryAfterRefusal
  <1>9. ASSUME NEW c \in 1 .. made', NEW d \in 1 .. made', c < d, row'[c].msg = row'[d].msg
        PROVE  Refused(c)'
    <2>1. c \in 1 .. made
      BY <1>1, <1>4, <1>9
    <2>2. CASE d \in 1 .. made
      BY <1>3, <1>6, <1>9, <2>1, <2>2 DEF RefusalInvariant, RetryAfterRefusal
    <2>3. CASE d = b
      BY <1>3, <1>6, <1>9, <2>1, <2>3 DEF AttemptsOf
    <2> QED
      BY <1>4, <2>2, <2>3
  <1> QED
    BY <1>7, <1>8, <1>9 DEF RefusalInvariant, RetryAfterRefusal

\* Claiming or starting an attempt disturbs no refused one.
LEMMA HoldRefusal ==
  ASSUME TypeOK, DispatchInvariant, RefusalInvariant, NEW a \in Attempts,
         row[a].state # "settled",
         row'[a].msg = row[a].msg, row'[a].retrySafe = row[a].retrySafe,
         \A b \in Attempts : b # a => row'[b] = row[b],
         UNCHANGED <<msg, made, copies>>,
         \A v \in Workers, b \in Attempts : Sends(v, b)' => b = a \/ Sends(v, b),
         \A v \in Workers : worker'[v].pc = "posted" => worker'[v] = worker[v]
  PROVE  RefusalInvariant'
  <1>1. \A c \in 1 .. made : c \in Attempts
    BY BoundsAssumption DEF TypeOK, Attempts
  <1>2. ~Refused(a)
    BY DEF Refused
  <1>3. \A c \in 1 .. made : Refused(c) => Refused(c)'
    BY <1>1, <1>2, RefusedStays
  <1>4. \A c \in 1 .. made : row'[c].msg = row[c].msg /\ row'[c].retrySafe = row[c].retrySafe
    BY <1>1
  <1>5. \A w \in Workers :
          worker'[w].pc = "posted" /\ worker'[w].disposition = "rejected"
            => copies'[worker'[w].attempt] = 0
    BY DEF RefusalInvariant, SafeMeansRefused
  <1> QED
    BY <1>3, <1>4, <1>5, RefusalFrame

\* A worker that is about to post has an attempt of its own, so its POST leaves
\* refused attempts and other workers' rejections alone.
LEMMA RespondRefusal ==
  ASSUME TypeOK, DispatchInvariant, RefusalInvariant, NEW w \in Workers,
         NEW taken \in BOOLEAN, NEW disposition, NEW status,
         Respond(w, taken, disposition, status),
         disposition = "rejected" => ~taken
  PROVE  RefusalInvariant'
  <1> DEFINE a == worker[w].attempt
  <1>1. /\ a \in Attempts /\ worker[w].pc = "sending"
        /\ copies'[a] = IF taken THEN copies[a] + 1 ELSE copies[a]
        /\ \A b \in Attempts : b # a => copies'[b] = copies[b]
        /\ worker'[w].pc = "posted" /\ worker'[w].attempt = a
        /\ worker'[w].disposition = disposition
        /\ \A v \in Workers : v # w => worker'[v] = worker[v]
        /\ UNCHANGED <<msg, made, row>>
    BY RespondEffect
  <1>2. Sends(w, a)
    BY <1>1 DEF Sends
  <1>3. copies[a] = 0 /\ \A v \in Workers : v # w => ~Sends(v, a)
    BY <1>1, <1>2, OneSender DEF DispatchInvariant, SendersHoldDispatch
  <1> HIDE DEF a
  <1>4. \A c \in 1 .. made : c \in Attempts
    BY BoundsAssumption DEF TypeOK, Attempts
  <1>5. \A c \in 1 .. made : Refused(c) => c # a
    BY <1>2 DEF Refused
  <1>6. \A v \in Workers, c \in Attempts : Sends(v, c)' => Sends(v, c)
    BY <1>1, <1>2 DEF Sends
  <1>7. \A c \in 1 .. made : Refused(c) => Refused(c)'
    BY <1>1, <1>4, <1>5, <1>6, RefusedStays
  <1>8. ASSUME NEW v \in Workers, worker'[v].pc = "posted", worker'[v].disposition = "rejected"
        PROVE  copies'[worker'[v].attempt] = 0
    <2>1. CASE v = w
      BY <1>1, <1>3, <1>8, <2>1
    <2>2. CASE v # w
      <3>1. worker'[v] = worker[v] /\ worker[v].attempt \in Attempts
        BY <1>1, <1>4, <1>8, <2>2 DEF TypeOK
      <3>2. worker[v].attempt # a
        BY <1>3, <1>8, <2>2, <3>1 DEF Sends
      <3> QED
        BY <1>1, <1>8, <3>1, <3>2 DEF RefusalInvariant, SafeMeansRefused
    <2> QED
      BY <2>1, <2>2
  <1> QED
    BY <1>1, <1>7, <1>8, RefusalFrame

\* Every step keeps the invariant, when a rejected POST was never delivered.
LEMMA RefusalStep ==
  DefiniteRejections /\ TypeOK /\ DispatchInvariant /\ RefusalInvariant /\ [Next]_vars
    => RefusalInvariant'
  <1> SUFFICES ASSUME DefiniteRejections, TypeOK, DispatchInvariant, RefusalInvariant,
                      [Next]_vars
               PROVE  RefusalInvariant'
    OBVIOUS
  <1>1. ASSUME NEW m \in Messages, NEW body \in Bodies, CreateOutboundMessage(m, body)
        PROVE  RefusalInvariant'
    <2>1. AttemptsOf(m) = {}
      BY <1>1 DEF CreateOutboundMessage, AttemptsOf, RefusalInvariant, RetryAfterRefusal
    <2>2. msg'[m].presence = "live"
          /\ \A n \in Messages : msg[n].presence # "absent" => msg'[n].presence # "absent"
      BY <1>1 DEF CreateOutboundMessage, TypeOK, MessageRow
    <2> QED
      BY <1>1, <2>1, <2>2, AppendRefusal DEF CreateOutboundMessage
  <1>2. ASSUME NEW m \in Messages, RetryOutboundMessage(m)
        PROVE  RefusalInvariant'
    <2>1. \A a \in AttemptsOf(m) : Refused(a)
      BY <1>2 DEF RetryOutboundMessage, Retryable, AttemptsOf, RefusalInvariant,
                  SafeMeansRefused
    <2>2. msg'[m].presence = "live"
          /\ \A n \in Messages : msg[n].presence # "absent" => msg'[n].presence # "absent"
      BY <1>2 DEF RetryOutboundMessage, TypeOK, MessageRow
    <2> QED
      BY <1>2, <2>1, <2>2, AppendRefusal DEF RetryOutboundMessage
  <1>3. ASSUME NEW m \in Messages,
               \/ \E body \in Bodies : UpdateContent(m, body)
               \/ DeleteMessage(m) \/ CleanupConversation(m)
        PROVE  RefusalInvariant'
    <2>1. \A n \in Messages : msg[n].presence # "absent" => msg'[n].presence # "absent"
      BY <1>3 DEF UpdateContent, DeleteMessage, CleanupConversation, TypeOK, MessageRow
    <2> QED
      BY <1>3, <2>1, QuietRefusal
      DEF UpdateContent, DeleteMessage, CleanupConversation, SendersOnlyLeave
  <1>4. ASSUME NEW a \in Attempts, LeaseElapses(a)
        PROVE  RefusalInvariant'
    BY <1>4, QuietRefusal DEF LeaseElapses, SendersOnlyLeave
  <1>5. ASSUME NEW w \in Workers, NEW a \in Attempts, ExpireOutboundDispatches(w, a)
        PROVE  RefusalInvariant'
    <2>1. a \in 1 .. made
      BY <1>5, PresentRow DEF ExpireOutboundDispatches
    <2>2. SendersOnlyLeave /\ ~Refused(a)
      BY <1>5 DEF ExpireOutboundDispatches, SendersOnlyLeave, Refused
    <2>3. NoId \in Nat /\ "unknown" \in Statuses
      BY DEF NoId, Statuses
    <2> QED
      BY <1>5, <2>1, <2>2, <2>3, PersistRefusal DEF ExpireOutboundDispatches
  <1>6. ASSUME NEW w \in Workers, NEW a \in Attempts, ClaimNextOutbound(w, a)
        PROVE  RefusalInvariant'
    <2> DEFINE s == [row[a] EXCEPT !.state = "claimed", !.token = w]
    <2>1. /\ row' = [row EXCEPT ![a] = s] /\ row[a].state \in {"queued", "claimed"}
          /\ UNCHANGED <<msg, made, copies>>
      BY <1>6 DEF ClaimNextOutbound, Claimable
    <2>2. row[a] \in AttemptRow
      BY <2>1, PresentRow, BoundsAssumption DEF TypeOK, Attempts
    <2>3. s.msg = row[a].msg /\ s.retrySafe = row[a].retrySafe
      BY <2>2 DEF AttemptRow
    <2> HIDE DEF s
    <2>4. row'[a] = s /\ \A b \in Attempts : b # a => row'[b] = row[b]
      BY <2>1 DEF TypeOK
    <2>5. /\ worker'[w].pc = "claimed"
          /\ \A v \in Workers : v # w => worker'[v] = worker[v]
      BY <1>6 DEF ClaimNextOutbound, TypeOK, Idle
    <2>6. \A v \in Workers, b \in Attempts : Sends(v, b)' => Sends(v, b)
      BY <2>5 DEF Sends
    <2> QED
      BY <2>1, <2>3, <2>4, <2>5, <2>6, HoldRefusal
  <1>7. ASSUME NEW w \in Workers, BindingConfirmed(w)
        PROVE  RefusalInvariant'
    <2>1. worker'[w].pc = "bound" /\ \A v \in Workers : v # w => worker'[v] = worker[v]
      BY <1>7 DEF BindingConfirmed, TypeOK, WorkerRow
    <2> QED
      BY <1>7, <2>1, QuietRefusal DEF BindingConfirmed, SendersOnlyLeave
  <1>8. ASSUME NEW w \in Workers, Release(w)
        PROVE  SendersOnlyLeave /\ \A a : ~Sends(w, a)'
    BY <1>8 DEF Release, TypeOK, Idle, SendersOnlyLeave, Sends
  <1>9. ASSUME NEW w \in Workers, CancelClaimedOutbound(w) \/ StartCancelled(w)
        PROVE  RefusalInvariant'
    <2>1. /\ worker[w].attempt \in 1 .. made
          /\ PersistOutboundResult(worker[w].attempt, NoId, "cancelled", FALSE, FALSE)
          /\ Release(w) /\ UNCHANGED <<made, copies>>
          /\ ~Refused(worker[w].attempt)
      BY <1>9 DEF CancelClaimedOutbound, StartCancelled, TypeOK, ClaimHeld, Refused
    <2>2. NoId \in Nat /\ "cancelled" \in Statuses
      BY DEF NoId, Statuses
    <2> QED
      BY <1>8, <2>1, <2>2, PersistRefusal
  <1>10. ASSUME NEW w \in Workers,
                \/ CancelClaimLost(w) \/ StartClaimLost(w)
                \/ BindingUnavailable(w) \/ Crash(w)
         PROVE  RefusalInvariant'
    BY <1>8, <1>10, QuietRefusal
    DEF CancelClaimLost, StartClaimLost, BindingUnavailable, Crash
  <1>11. ASSUME NEW w \in Workers, StartOutboundDispatch(w)
         PROVE  RefusalInvariant'
    <2> DEFINE a == worker[w].attempt
    <2>1. /\ a \in Attempts /\ row[a].state = "claimed"
          /\ row'[a].retrySafe = row[a].retrySafe /\ row'[a].msg = row[a].msg
          /\ \A b \in Attempts : b # a => row'[b] = row[b]
          /\ worker'[w].pc = "sending" /\ worker'[w].attempt = a
          /\ \A v \in Workers : v # w => worker'[v] = worker[v]
          /\ UNCHANGED <<msg, made, copies>>
      BY <1>11, StartEffect
    <2> HIDE DEF a
    <2>2. \A v \in Workers, b \in Attempts : Sends(v, b)' => b = a \/ Sends(v, b)
      BY <2>1 DEF Sends
    <2> QED
      BY <2>1, <2>2, HoldRefusal
  <1>12. ASSUME NEW w \in Workers, Send(w)
         PROVE  RefusalInvariant'
    BY <1>12, RespondRefusal DEF Send, SendAccepted, SendRejected, SendUnknown
  <1>13. ASSUME NEW w \in Workers, CompleteOutboundDispatch(w)
         PROVE  RefusalInvariant'
    <2>1. PICK a \in 1 .. made : a \in Attempts /\ a = worker[w].attempt
      BY <1>13, CompleteEffect
    <2>2. /\ worker[w].pc = "posted"
          /\ Release(w) /\ UNCHANGED <<made, copies>>
          /\ worker[w].id \in Nat /\ worker[w].status \in Statuses
          /\ FirstRejection(w) \in BOOLEAN
      BY <1>13, CompleteEffect
    <2>3. Sends(w, a)
      BY <2>1, <2>2 DEF Sends
    <2>4. ~Refused(a) /\ SendersOnlyLeave
      BY <1>8, <2>2, <2>3 DEF Refused
    <2>5. FirstRejection(w) => copies[a] = 0
      BY <2>1, <2>2 DEF FirstRejection, RefusalInvariant, SafeMeansRefused
    <2>6. ASSUME NEW v \in Workers PROVE ~Sends(v, a)'
      <3>1. CASE v = w
        BY <1>8, <2>2, <3>1
      <3>2. CASE v # w
        BY <2>1, <2>3, <2>4, <3>2, OneSender, SendsOnlyLeave
      <3> QED
        BY <3>1, <3>2
    <2>7. CASE UNCHANGED <<msg, row>>
      BY <2>2, <2>4, <2>7, QuietRefusal
    <2>8. ASSUME NEW evidence \in BOOLEAN,
                 PersistOutboundResult(a, worker[w].id, worker[w].status,
                                       FirstRejection(w), evidence)
          PROVE  RefusalInvariant'
      BY <2>2, <2>4, <2>5, <2>6, <2>8, PersistRefusal
    <2> QED
      BY <1>13, <2>1, <2>7, <2>8, CompleteEffect
  <1>14. ASSUME NEW a \in Attempts, StatusStep(a)
         PROVE  RefusalInvariant'
    <2>1. PICK id \in 1 .. copies[a], status \in CallbackStatuses :
            ApplyOutboundStatus(a, id, status)
      BY <1>14 DEF StatusStep
    <2>2. a \in 1 .. made
      BY <2>1, PresentRow DEF ApplyOutboundStatus, Recordable
    <2>3. id \in Nat /\ status \in Statuses /\ copies[a] # 0
      BY <2>1 DEF TypeOK, CallbackStatuses, Evidence, Statuses
    <2>4. /\ PersistOutboundResult(a, id, status, FALSE, TRUE)
          /\ UNCHANGED <<made, copies>> /\ SendersOnlyLeave /\ ~Refused(a)
      BY <2>1, <2>3 DEF ApplyOutboundStatus, SendersOnlyLeave, Refused
    <2> QED
      BY <2>2, <2>3, <2>4, PersistRefusal
  <1>15. CASE UNCHANGED vars
    BY <1>15, QuietRefusal DEF vars, SendersOnlyLeave
  <1> QED
    BY <1>1, <1>2, <1>3, <1>4, <1>5, <1>6, <1>7, <1>9,
       <1>10, <1>11, <1>12, <1>13, <1>14, <1>15
    DEF Next, AgentStep, WorkerStep, SendBinding, StartStep

(***************************************************************************)
(* The theorems.                                                           *)
(***************************************************************************)

\* In every reachable state the dispatch part of the invariant holds, whatever
\* a rejection by the provider means.
LEMMA DispatchCorrect == Spec => []DispatchInvariant
  BY TypeCorrect, DispatchInit, DispatchStep, PTL DEF Spec

\* An attempt that CancelClaimedOutbound or StartOutboundDispatch cancelled was
\* never posted and never will be, even by a worker that outlived its lease.
THEOREM CancelledStaysUnsent == Spec => []CancelledNeverSent
  <1>1. TypeOK /\ DispatchInvariant => CancelledNeverSent
    <2> SUFFICES ASSUME TypeOK, DispatchInvariant, NEW a \in 1 .. made,
                        row[a].state = "cancelled"
                 PROVE  /\ copies[a] = 0
                        /\ \A w \in Workers : worker[w].attempt = a
                             => worker[w].pc \in {"idle", "claimed", "bound"}
      BY DEF CancelledNeverSent
    <2>1. a \in Attempts
      BY BoundsAssumption DEF TypeOK, Attempts
    <2>2. ~row[a].started /\ copies[a] = 0
      BY <2>1 DEF DispatchInvariant, DispatchShape, TypeOK
    <2>3. \A w \in Workers : ~Sends(w, a)
      BY <2>1, <2>2 DEF DispatchInvariant, SendersHoldDispatch
    <2>4. \A w \in Workers :
            worker[w].pc \in {"idle", "claimed", "bound", "sending", "posted"}
      BY DEF TypeOK, WorkerRow
    <2> QED
      BY <2>2, <2>3, <2>4 DEF Sends
  <1> QED
    BY <1>1, TypeCorrect, DispatchCorrect, PTL

\* The whole invariant is inductive when a rejected POST was never delivered.
THEOREM SendCorrect == DefiniteRejections => (Spec => []SendInvariant)
  <1> SUFFICES ASSUME DefiniteRejections PROVE Spec => []SendInvariant
    OBVIOUS
  <1>1. TypeOK /\ DispatchInvariant /\ RefusalInvariant /\ [Next]_vars => RefusalInvariant'
    BY RefusalStep
  <1>2. DispatchInvariant /\ RefusalInvariant => SendInvariant
    BY DEF DispatchInvariant, RefusalInvariant, SendInvariant
  <1> QED
    BY <1>1, <1>2, TypeCorrect, DispatchCorrect, RefusalInit, PTL DEF Spec

\* The recipient gets at most one copy of a message, whatever workers, leases,
\* crashes, callbacks, edits and retries do, provided a rejected POST was never
\* delivered (checkOutboundRetry, StartOutboundDispatch).
THEOREM SentAtMostOnce == DefiniteRejections => (Spec => []AtMostOneCopy)
  <1> SUFFICES ASSUME DefiniteRejections PROVE Spec => []AtMostOneCopy
    OBVIOUS
  <1>1. TypeOK /\ SendInvariant => AtMostOneCopy
    <2> SUFFICES ASSUME TypeOK, SendInvariant PROVE AtMostOneCopy
      OBVIOUS
    <2>1. \A a \in Attempts : copies[a] <= 1
      BY DEF SendInvariant, DispatchShape
    <2>2. \A a, b \in 1 .. made : a < b /\ row[a].msg = row[b].msg => copies[a] = 0
      BY DEF SendInvariant, RetryAfterRefusal, Refused
    <2>3. \A a, b \in 1 .. made : a < b \/ b < a \/ a = b
      BY DEF TypeOK
    <2> QED
      BY <2>1, <2>2, <2>3 DEF AtMostOneCopy
  <1> QED
    BY <1>1, TypeCorrect, SendCorrect, PTL

(***************************************************************************)
(* Refinement: OutboundDelivery implements SendOnce.                       *)
(*                                                                         *)
(* The abstract phase of a message is read off its latest attempt, since   *)
(* every earlier one is refused.  A step changes the class of at most one  *)
(* attempt, and only of one that is not refused, which is the latest one   *)
(* of its message.                                                         *)
(***************************************************************************)
IsLatest(m, a) == a \in AttemptsOf(m) /\ \A b \in AttemptsOf(m) : b <= a

\* A message with attempts has a latest one.
HasLatest == \A m \in Messages : AttemptsOf(m) # {} => \E a : IsLatest(m, a)

RefinementInvariant == TypeOK /\ SendInvariant /\ HasLatest

\* What an attempt's row says of its message.
Class(r) ==
    IF r.state = "cancelled" THEN "closed"
    ELSE IF ~r.started THEN "queued"
    ELSE IF r.retrySafe THEN "refused" ELSE "open"

\* What the latest attempt and the copies of it say of the message.
PhaseBy(a) == IF copies[a] > 0 THEN "taken" ELSE Class(row[a])
CopiesBy(a) == IF copies[a] > 0 THEN {<<a, 1>>} ELSE {}

Viewed ==
    \A m \in Messages, a \in Attempts : IsLatest(m, a) =>
        PhaseOf(m) = PhaseBy(a) /\ CopiesOf(m) = CopiesBy(a)

\* There is one latest attempt.
LEMMA LatestUnique ==
  ASSUME TypeOK, NEW m, NEW a, IsLatest(m, a)
  PROVE  Latest(m) = a
  <1>1. AttemptsOf(m) \subseteq Nat
    BY DEF TypeOK, AttemptsOf
  <1>2. \A b : IsLatest(m, b) => b = a
    BY <1>1 DEF IsLatest
  <1> QED
    BY <1>2 DEF IsLatest, Latest

\* The latest attempt alone decides the abstract state of its message: the
\* attempts before it are refused, so no copy of them is out.
LEMMA LatestDecides == TypeOK /\ SendInvariant => Viewed
  <1> SUFFICES ASSUME TypeOK, SendInvariant, NEW m \in Messages, NEW a \in Attempts,
                      IsLatest(m, a)
               PROVE  PhaseOf(m) = PhaseBy(a) /\ CopiesOf(m) = CopiesBy(a)
    BY DEF Viewed
  <1>1. /\ a \in AttemptsOf(m)
        /\ \A b \in AttemptsOf(m) : b # a => copies[b] = 0
    <2>1. ASSUME NEW b \in AttemptsOf(m), b # a PROVE copies[b] = 0
      <3>1. b < a /\ b \in 1 .. made /\ a \in 1 .. made /\ row[a].msg = row[b].msg
        BY <2>1 DEF IsLatest, AttemptsOf, TypeOK
      <3> QED
        BY <3>1 DEF SendInvariant, RetryAfterRefusal, Refused
    <2> QED
      BY <2>1 DEF IsLatest
  <1>2. copies[a] \in Nat /\ copies[a] <= 1
    BY DEF TypeOK, SendInvariant, DispatchShape
  <1>3. CopiesOf(m) = {a} \X (1 .. copies[a])
    <2>1. \A b \in AttemptsOf(m) : b # a => {b} \X (1 .. copies[b]) = {}
      BY <1>1
    <2> QED
      BY <1>1, <2>1 DEF CopiesOf
  <1>4. CASE copies[a] = 0
    <2>1. CopiesOf(m) = {} /\ AttemptsOf(m) # {}
      BY <1>1, <1>3, <1>4
    <2>2. Latest(m) = a
      BY LatestUnique
    <2>3. ~(row[a].state = "cancelled" /\ row[a].started)
      BY DEF SendInvariant, DispatchShape
    <2>4. row[a].retrySafe => row[a].started
      BY DEF SendInvariant, DispatchShape
    <2>5. PhaseOf(m) = Class(row[a])
      BY <2>1, <2>2, <2>3, <2>4 DEF PhaseOf, Class
    <2> QED
      BY <1>4, <2>1, <2>5 DEF PhaseBy, CopiesBy
  <1>5. CASE copies[a] = 1
    <2>1. CopiesOf(m) = {<<a, 1>>} /\ AttemptsOf(m) # {}
      BY <1>1, <1>3, <1>5
    <2>2. PhaseOf(m) = "taken"
      BY <2>1 DEF PhaseOf
    <2> QED
      BY <1>5, <2>1, <2>2 DEF PhaseBy, CopiesBy
  <1> QED
    BY <1>2, <1>4, <1>5

\* The same after a step.
LEMMA LatestDecidesNext == (TypeOK /\ SendInvariant)' => Viewed'
  BY LatestDecides, PTL

\* Before the first attempt every message is where SendOnce starts it.
LEMMA RefinementInit == Init => HasLatest /\ Abstract!Init
  <1> SUFFICES ASSUME Init PROVE HasLatest /\ Abstract!Init
    OBVIOUS
  <1>0. 1 .. made = {}
    BY DEF Init
  <1>1. \A m \in Messages : AttemptsOf(m) = {}
    BY <1>0 DEF AttemptsOf
  <1>2. \A m \in Messages : PhaseOf(m) = "none" /\ CopiesOf(m) = {}
    BY <1>1 DEF PhaseOf, CopiesOf
  <1> QED
    BY <1>1, <1>2 DEF HasLatest, Abstract!Init

\* A step that writes no attempt of a message, or writes it without changing its
\* class, is invisible for the message.
LEMMA MessageStays ==
  ASSUME TypeOK, HasLatest, Viewed, Viewed', NEW m \in Messages,
         AttemptsOf(m)' = AttemptsOf(m),
         \A c \in AttemptsOf(m) : /\ Class(row'[c]) = Class(row[c])
                                  /\ copies'[c] = copies[c]
  PROVE  PhaseOf(m)' = PhaseOf(m) /\ CopiesOf(m)' = CopiesOf(m)
  <1>1. CASE AttemptsOf(m) = {}
    BY <1>1 DEF PhaseOf, CopiesOf
  <1>2. CASE AttemptsOf(m) # {}
    <2>1. PICK a : IsLatest(m, a)
      BY <1>2 DEF HasLatest
    <2>2. a \in AttemptsOf(m) /\ a \in Attempts
      BY <2>1, BoundsAssumption DEF IsLatest, AttemptsOf, TypeOK, Attempts
    <2>3. IsLatest(m, a)'
      BY <2>1 DEF IsLatest
    <2>4. PhaseOf(m) = PhaseBy(a) /\ CopiesOf(m) = CopiesBy(a)
      BY <2>1, <2>2 DEF Viewed
    <2>5. PhaseOf(m)' = PhaseBy(a)' /\ CopiesOf(m)' = CopiesBy(a)'
      BY <2>2, <2>3 DEF Viewed
    <2>6. PhaseBy(a)' = PhaseBy(a) /\ CopiesBy(a)' = CopiesBy(a)
      BY <2>2 DEF PhaseBy, CopiesBy, Class
    <2> QED
      BY <2>4, <2>5, <2>6
  <1> QED
    BY <1>1, <1>2

\* A step that is invisible for every message is a stutter of SendOnce.
LEMMA AllStay ==
  ASSUME \A m \in Messages : PhaseOf(m)' = PhaseOf(m) /\ CopiesOf(m)' = CopiesOf(m)
  PROVE  UNCHANGED Abstract!vars
  BY DEF Abstract!vars

\* A step that is invisible for all messages but one moves that one.
LEMMA OneMoves ==
  ASSUME NEW m \in Messages, NEW from, NEW to,
         PhaseOf(m) = from, PhaseOf(m)' = to,
         \A n \in Messages : n # m => PhaseOf(n)' = PhaseOf(n) /\ CopiesOf(n)' = CopiesOf(n)
  PROVE  /\ Abstract!Move(m, from, to)
         /\ CopiesOf(m)' = CopiesOf(m)
              => UNCHANGED [n \in Messages |-> CopiesOf(n)]
         /\ \A S : CopiesOf(m)' = S =>
              [n \in Messages |-> CopiesOf(n)]'
                = [[n \in Messages |-> CopiesOf(n)] EXCEPT ![m] = S]
  BY DEF Abstract!Move

\* A step that writes one attempt keeps the attempts of every message.
LEMMA SameAttempts ==
  ASSUME made' = made, \A c \in 1 .. made : row'[c].msg = row[c].msg
  PROVE  \A m : AttemptsOf(m)' = AttemptsOf(m)
  BY DEF AttemptsOf

\* An attempt that is not refused is the latest one of its message.
LEMMA LiveIsLatest ==
  ASSUME TypeOK, SendInvariant, NEW a \in 1 .. made, ~Refused(a)
  PROVE  IsLatest(row[a].msg, a)
  <1>1. \A b \in AttemptsOf(row[a].msg) : ~(a < b)
    BY DEF AttemptsOf, SendInvariant, RetryAfterRefusal
  <1>2. a \in Nat /\ \A b \in AttemptsOf(row[a].msg) : b \in Nat
    BY DEF AttemptsOf, TypeOK
  <1> QED
    BY <1>1, <1>2 DEF IsLatest, AttemptsOf

\* A step that writes one attempt which is not refused moves its message from
\* what the attempt said to what it says now, and no other message.
LEMMA AttemptMoves ==
  ASSUME TypeOK, SendInvariant, HasLatest, Viewed, Viewed',
         NEW a \in 1 .. made, ~Refused(a), made' = made,
         row'[a].msg = row[a].msg,
         \A b \in Attempts : b # a => row'[b] = row[b] /\ copies'[b] = copies[b]
  PROVE  /\ a \in Attempts
         /\ row[a].msg \in Messages
         /\ PhaseOf(row[a].msg) = PhaseBy(a)
         /\ CopiesOf(row[a].msg) = CopiesBy(a)
         /\ PhaseOf(row[a].msg)' = PhaseBy(a)'
         /\ CopiesOf(row[a].msg)' = CopiesBy(a)'
         /\ \A n \in Messages : n # row[a].msg =>
              PhaseOf(n)' = PhaseOf(n) /\ CopiesOf(n)' = CopiesOf(n)
  <1>1. \A c \in 1 .. made : c \in Attempts
    BY BoundsAssumption DEF TypeOK, Attempts
  <1>2. row[a].msg \in Messages
    BY <1>1 DEF TypeOK, AttemptRow
  <1>3. \A n : AttemptsOf(n)' = AttemptsOf(n)
    BY <1>1, SameAttempts
  <1>4. IsLatest(row[a].msg, a)
    BY LiveIsLatest
  <1>5. PhaseOf(row[a].msg) = PhaseBy(a) /\ CopiesOf(row[a].msg) = CopiesBy(a)
    BY <1>1, <1>2, <1>4 DEF Viewed
  <1>6. ASSUME NEW m \in Messages, m = row[a].msg
        PROVE  PhaseOf(m)' = PhaseBy(a)' /\ CopiesOf(m)' = CopiesBy(a)'
    <2>1. IsLatest(m, a)'
      BY <1>3, <1>4, <1>6 DEF IsLatest
    <2> QED
      BY <1>1, <2>1 DEF Viewed
  <1>7. ASSUME NEW n \in Messages, n # row[a].msg
        PROVE  PhaseOf(n)' = PhaseOf(n) /\ CopiesOf(n)' = CopiesOf(n)
    <2>1. \A c \in AttemptsOf(n) : row'[c] = row[c] /\ copies'[c] = copies[c]
      BY <1>1, <1>7 DEF AttemptsOf
    <2> QED
      BY <1>3, <2>1, MessageStays
  <1>8. PhaseOf(row[a].msg)' = PhaseBy(a)' /\ CopiesOf(row[a].msg)' = CopiesBy(a)'
    BY <1>2, <1>6
  <1> QED
    BY <1>1, <1>2, <1>5, <1>7, <1>8

\* A step that leaves the class and the copies of the attempt it writes alone.
LEMMA AttemptStutters ==
  ASSUME TypeOK, SendInvariant, HasLatest, Viewed, Viewed',
         NEW a \in 1 .. made, made' = made, row'[a].msg = row[a].msg,
         \A b \in Attempts : b # a => row'[b] = row[b],
         Class(row'[a]) = Class(row[a]), copies' = copies
  PROVE  UNCHANGED Abstract!vars
  <1>1. \A c \in 1 .. made : c \in Attempts
    BY BoundsAssumption DEF TypeOK, Attempts
  <1>2. \A n : AttemptsOf(n)' = AttemptsOf(n)
    BY <1>1, SameAttempts
  <1>3. \A c \in 1 .. made : Class(row'[c]) = Class(row[c])
    BY <1>1
  <1>4. \A n \in Messages : PhaseOf(n)' = PhaseOf(n) /\ CopiesOf(n)' = CopiesOf(n)
    BY <1>2, <1>3, MessageStays DEF AttemptsOf
  <1> QED
    BY <1>4, AllStay

\* A step that leaves attempts and copies alone.
LEMMA QuietStutters ==
  ASSUME TypeOK, HasLatest, Viewed, Viewed', UNCHANGED <<made, row, copies>>
  PROVE  UNCHANGED Abstract!vars
  <1>1. \A n : AttemptsOf(n)' = AttemptsOf(n)
    BY SameAttempts
  <1>2. \A n \in Messages : PhaseOf(n)' = PhaseOf(n) /\ CopiesOf(n)' = CopiesOf(n)
    BY <1>1, MessageStays
  <1> QED
    BY <1>2, AllStay

\* A new attempt becomes the latest of its message and queues it.
LEMMA AppendMoves ==
  ASSUME TypeOK, SendInvariant, HasLatest, Viewed, Viewed',
         NEW m \in Messages, NEW body, Append1(m, body), copies' = copies
  PROVE  /\ HasLatest'
         /\ PhaseOf(m)' = "queued" /\ CopiesOf(m)' = {}
         /\ \A n \in Messages : n # m =>
              PhaseOf(n)' = PhaseOf(n) /\ CopiesOf(n)' = CopiesOf(n)
  <1>0. PICK b \in Attempts : b = made + 1
    BY BoundsAssumption DEF Append1, TypeOK, Attempts
  <1>1. /\ made \in Nat /\ b \in Attempts /\ made' = b
        /\ row' = [row EXCEPT ![b] = Intent(m, body)] /\ row[b] = NoRow
        /\ \A a \in 1 .. made : a \in Attempts /\ a # b /\ a < b
    BY <1>0, BoundsAssumption DEF Append1, TypeOK, Attempts
  <1>2. Intent(m, body).msg = m /\ Intent(m, body).state = "queued" /\ ~Intent(m, body).started
    BY DEF Intent, NoRow
  <1>3. row'[b] = Intent(m, body) /\ \A a \in Attempts : a # b => row'[a] = row[a]
    BY <1>1 DEF TypeOK
  <1>4. \A a : a \in 1 .. made' <=> a \in 1 .. made \/ a = b
    BY <1>0, <1>1
  <1>5. ~(copies[b] > 0)
    <2>1. ~row[b].started
      BY <1>1 DEF NoRow
    <2> QED
      BY <1>1, <2>1 DEF SendInvariant, DispatchShape, TypeOK
  <1>6. AttemptsOf(m)' = AttemptsOf(m) \cup {b}
    BY <1>1, <1>2, <1>3, <1>4 DEF AttemptsOf
  <1>7. \A n \in Messages : n # m => AttemptsOf(n)' = AttemptsOf(n)
    BY <1>1, <1>2, <1>3, <1>4 DEF AttemptsOf
  <1>8. IsLatest(m, b)'
    <2>1. \A c \in AttemptsOf(m) : c \in 1 .. made /\ c < b
      BY <1>1 DEF AttemptsOf
    <2>2. b \in Nat /\ \A c \in AttemptsOf(m) \cup {b} : c <= b
      BY <1>0, <1>1, <2>1
    <2> QED
      BY <1>6, <2>2 DEF IsLatest
  <1>9. HasLatest'
    <2>1. ASSUME NEW n \in Messages, AttemptsOf(n)' # {}
          PROVE  \E a : IsLatest(n, a)'
      <3>1. CASE n = m
        BY <1>8, <3>1
      <3>2. CASE n # m
        <4>1. PICK a : IsLatest(n, a)
          BY <1>7, <2>1, <3>2 DEF HasLatest
        <4>2. IsLatest(n, a)'
          BY <1>7, <3>2, <4>1 DEF IsLatest
        <4> QED
          BY <4>2
      <3> QED
        BY <3>1, <3>2
    <2> QED
      BY <2>1 DEF HasLatest
  <1>10. PhaseOf(m)' = PhaseBy(b)' /\ CopiesOf(m)' = CopiesBy(b)'
    BY <1>1, <1>8 DEF Viewed
  <1>11. PhaseBy(b)' = "queued" /\ CopiesBy(b)' = {}
    BY <1>2, <1>3, <1>5 DEF PhaseBy, CopiesBy, Class
  <1>12. ASSUME NEW n \in Messages, n # m
         PROVE  PhaseOf(n)' = PhaseOf(n) /\ CopiesOf(n)' = CopiesOf(n)
    <2>1. \A c \in AttemptsOf(n) : row'[c] = row[c]
      BY <1>1, <1>3 DEF AttemptsOf
    <2> QED
      BY <1>7, <1>12, <2>1, MessageStays
  <1> QED
    BY <1>9, <1>10, <1>11, <1>12

\* A step that creates no attempt keeps the latest ones.
LEMMA LatestStays ==
  ASSUME HasLatest, made' = made, \A c \in 1 .. made : row'[c].msg = row[c].msg
  PROVE  HasLatest'
  <1>1. \A n : AttemptsOf(n)' = AttemptsOf(n)
    BY SameAttempts
  <1>2. ASSUME NEW n \in Messages, NEW a, IsLatest(n, a) PROVE IsLatest(n, a)'
    BY <1>1, <1>2 DEF IsLatest
  <1> QED
    BY <1>1, <1>2 DEF HasLatest

\* A message without attempts has not been submitted.
LEMMA NotSubmitted ==
  ASSUME NEW m, AttemptsOf(m) = {}
  PROVE  PhaseOf(m) = "none" /\ CopiesOf(m) = {}
  BY DEF PhaseOf, CopiesOf

\* CreateOutboundMessage submits the message.
LEMMA CreateSubmits ==
  ASSUME TypeOK, SendInvariant, HasLatest, Viewed, Viewed',
         NEW m \in Messages, NEW body, CreateOutboundMessage(m, body)
  PROVE  HasLatest' /\ Abstract!Submit(m)
  <1>1. AttemptsOf(m) = {}
    BY DEF CreateOutboundMessage, AttemptsOf, SendInvariant, RetryAfterRefusal
  <1>2. PhaseOf(m) = "none" /\ CopiesOf(m) = {}
    BY <1>1, NotSubmitted
  <1>3. /\ HasLatest'
        /\ PhaseOf(m)' = "queued" /\ CopiesOf(m)' = {}
        /\ \A n \in Messages : n # m =>
             PhaseOf(n)' = PhaseOf(n) /\ CopiesOf(n)' = CopiesOf(n)
    BY AppendMoves DEF CreateOutboundMessage
  <1> QED
    BY <1>2, <1>3, OneMoves DEF Abstract!Submit

\* RetryOutboundMessage resubmits a message that was refused.
LEMMA RetryResubmits ==
  ASSUME TypeOK, SendInvariant, HasLatest, Viewed, Viewed',
         NEW m \in Messages, RetryOutboundMessage(m)
  PROVE  HasLatest' /\ Abstract!Resubmit(m)
  <1>1. PICK a \in AttemptsOf(m) :
          /\ \A b \in AttemptsOf(m) : b <= a /\ row[b].retrySafe
          /\ row[a].state = "settled"
          /\ row[a].started
    BY DEF RetryOutboundMessage, Retryable
  <1>2. a \in 1 .. made /\ a \in Attempts /\ IsLatest(m, a)
    BY <1>1, BoundsAssumption DEF IsLatest, AttemptsOf, TypeOK, Attempts
  <1>3. row[a].retrySafe /\ copies[a] = 0
    BY <1>1, <1>2 DEF SendInvariant, SafeMeansRefused, Refused
  <1>4. PhaseBy(a) = "refused" /\ CopiesBy(a) = {}
    BY <1>1, <1>3 DEF PhaseBy, CopiesBy, Class
  <1>5. PhaseOf(m) = "refused" /\ CopiesOf(m) = {}
    BY <1>2, <1>4 DEF Viewed
  <1>6. /\ HasLatest'
        /\ PhaseOf(m)' = "queued" /\ CopiesOf(m)' = {}
        /\ \A n \in Messages : n # m =>
             PhaseOf(n)' = PhaseOf(n) /\ CopiesOf(n)' = CopiesOf(n)
    BY AppendMoves DEF RetryOutboundMessage
  <1> QED
    BY <1>5, <1>6, OneMoves DEF Abstract!Resubmit

\* Claiming an attempt that nobody started leaves its message queued.
LEMMA ClaimStutters ==
  ASSUME TypeOK, SendInvariant, HasLatest, Viewed, Viewed',
         NEW w \in Workers, NEW a \in Attempts, ClaimNextOutbound(w, a)
  PROVE  HasLatest' /\ UNCHANGED Abstract!vars
  <1> DEFINE s == [row[a] EXCEPT !.state = "claimed", !.token = w]
  <1>1. /\ row' = [row EXCEPT ![a] = s] /\ ~row[a].started
        /\ row[a].state \in {"queued", "claimed"}
        /\ UNCHANGED <<made, copies>>
    BY DEF ClaimNextOutbound, Claimable
  <1>2. a \in 1 .. made
    BY <1>1, PresentRow
  <1>3. row[a] \in AttemptRow
    BY <1>2, BoundsAssumption DEF TypeOK, Attempts
  <1>4. s.msg = row[a].msg /\ s.state = "claimed" /\ ~s.started
    BY <1>1, <1>3 DEF AttemptRow
  <1> HIDE DEF s
  <1>5. row'[a] = s /\ \A b \in Attempts : b # a => row'[b] = row[b]
    BY <1>1 DEF TypeOK
  <1>6. Class(row'[a]) = Class(row[a])
    BY <1>1, <1>4, <1>5 DEF Class
  <1>7. \A c \in 1 .. made : row'[c].msg = row[c].msg
    BY <1>4, <1>5, BoundsAssumption DEF TypeOK, Attempts
  <1> QED
    BY <1>1, <1>2, <1>4, <1>5, <1>6, <1>7, AttemptStutters, LatestStays

\* StartOutboundDispatch leaves the message's fate to the provider.
LEMMA StartDispatches ==
  ASSUME TypeOK, SendInvariant, HasLatest, Viewed, Viewed',
         NEW w \in Workers, StartOutboundDispatch(w)
  PROVE  HasLatest' /\ \E m \in Messages : Abstract!Dispatch(m)
  <1>1. PICK a \in 1 .. made : a \in Attempts /\ a = worker[w].attempt
    BY StartEffect
  <1>2. /\ row[a].state = "claimed" /\ ~row[a].started
        /\ row'[a].state = "sending" /\ row'[a].started
        /\ row'[a].retrySafe = row[a].retrySafe /\ row'[a].msg = row[a].msg
        /\ \A b \in Attempts : b # a => row'[b] = row[b]
        /\ UNCHANGED <<made, copies>>
    BY <1>1, StartEffect
  <1>3. copies[a] = 0 /\ ~row[a].retrySafe /\ ~Refused(a)
    BY <1>1, <1>2 DEF SendInvariant, DispatchShape, Refused, TypeOK
  <1>4. PICK m \in Messages : m = row[a].msg
    BY <1>1 DEF TypeOK, AttemptRow, Attempts
  <1>5. /\ PhaseOf(m) = PhaseBy(a) /\ CopiesOf(m) = CopiesBy(a)
        /\ PhaseOf(m)' = PhaseBy(a)' /\ CopiesOf(m)' = CopiesBy(a)'
        /\ \A n \in Messages : n # m =>
             PhaseOf(n)' = PhaseOf(n) /\ CopiesOf(n)' = CopiesOf(n)
    BY <1>2, <1>3, <1>4, AttemptMoves
  <1>6. /\ PhaseBy(a) = "queued" /\ PhaseBy(a)' = "open"
        /\ CopiesBy(a)' = CopiesBy(a)
    BY <1>2, <1>3 DEF PhaseBy, CopiesBy, Class
  <1>7. \A c \in 1 .. made : row'[c].msg = row[c].msg
    BY <1>2, BoundsAssumption DEF TypeOK, Attempts
  <1>8. HasLatest'
    BY <1>2, <1>7, LatestStays
  <1>9. Abstract!Dispatch(m)
    BY <1>5, <1>6, OneMoves DEF Abstract!Dispatch
  <1> QED
    BY <1>8, <1>9

\* A POST that the provider takes is taken once; one that it does not take is
\* invisible until its answer is recorded.
LEMMA RespondTakes ==
  ASSUME TypeOK, SendInvariant, HasLatest, Viewed, Viewed',
         NEW w \in Workers, NEW taken \in BOOLEAN, NEW disposition, NEW status,
         Respond(w, taken, disposition, status)
  PROVE  /\ HasLatest'
         /\ \/ UNCHANGED Abstract!vars
            \/ \E m \in Messages : Abstract!Take(m)
  <1>1. PICK a \in 1 .. made : a \in Attempts /\ a = worker[w].attempt
    BY RespondEffect
  <1>2. /\ worker[w].pc = "sending"
        /\ copies'[a] = IF taken THEN copies[a] + 1 ELSE copies[a]
        /\ \A b \in Attempts : b # a => copies'[b] = copies[b]
        /\ UNCHANGED <<made, row>>
    BY <1>1, RespondEffect
  <1>3. Sends(w, a)
    BY <1>1, <1>2 DEF Sends
  <1>4. ~Refused(a) /\ row[a].started /\ copies[a] = 0
    BY <1>1, <1>2, <1>3 DEF Refused, SendInvariant, SendersHoldDispatch
  <1>5. ~row[a].retrySafe /\ row[a].state # "cancelled"
    BY <1>1, <1>4 DEF SendInvariant, SafeMeansRefused, DispatchShape
  <1>6. HasLatest'
    BY <1>2, LatestStays
  <1>7. CASE ~taken
    <2>1. copies' = copies
      BY <1>7 DEF Respond
    <2> QED
      BY <1>2, <1>6, <2>1, QuietStutters
  <1>8. CASE taken
    <2>1. PICK m \in Messages : m = row[a].msg
      BY <1>1 DEF TypeOK, AttemptRow, Attempts
    <2>2. /\ PhaseOf(m) = PhaseBy(a) /\ CopiesOf(m) = CopiesBy(a)
          /\ PhaseOf(m)' = PhaseBy(a)' /\ CopiesOf(m)' = CopiesBy(a)'
          /\ \A n \in Messages : n # m =>
               PhaseOf(n)' = PhaseOf(n) /\ CopiesOf(n)' = CopiesOf(n)
      BY <1>2, <1>4, <2>1, AttemptMoves
    <2>3. /\ PhaseBy(a) = "open" /\ CopiesBy(a) = {}
          /\ PhaseBy(a)' = "taken" /\ CopiesBy(a)' = {<<a, 1>>}
      BY <1>2, <1>4, <1>5, <1>8 DEF PhaseBy, CopiesBy, Class
    <2>4. <<a, 1>> \in Attempts \X {1}
      BY <1>1
    <2>5. Abstract!Move(m, "open", "taken")
      BY <2>2, <2>3, OneMoves
    <2>6. [n \in Messages |-> CopiesOf(n)]'
            = [[n \in Messages |-> CopiesOf(n)] EXCEPT ![m] = {<<a, 1>>}]
      BY <2>2, <2>3, OneMoves
    <2>7. Abstract!Take(m)
      BY <2>2, <2>3, <2>4, <2>5, <2>6 DEF Abstract!Take
    <2> QED
      BY <1>6, <2>7
  <1> QED
    BY <1>7, <1>8

\* Recording a cancellation closes a message whose attempt was never started.
LEMMA CancelCloses ==
  ASSUME TypeOK, SendInvariant, HasLatest, Viewed, Viewed',
         NEW a \in 1 .. made, row[a].state = "claimed", ~row[a].started,
         NEW id \in Nat, NEW status \in Statuses, status = "cancelled",
         NEW retrySafe \in BOOLEAN, NEW evidence \in BOOLEAN, ~evidence,
         PersistOutboundResult(a, id, status, retrySafe, evidence),
         UNCHANGED <<made, copies>>
  PROVE  HasLatest' /\ \E m \in Messages : Abstract!Close(m)
  <1> DEFINE s == Settled(row[a], id, status, retrySafe, evidence)
  <1>1. a \in Attempts
    BY BoundsAssumption DEF TypeOK, Attempts
  <1>2. /\ row[a] \in AttemptRow /\ s \in AttemptRow /\ row' = [row EXCEPT ![a] = s]
    BY <1>1, PersistEffect
  <1>3. /\ s.msg = row[a].msg /\ s.started = row[a].started
        /\ s.status = Merged(row[a], status, evidence)
        /\ s.state = StateOf(s.status)
    BY <1>1, <1>2, SettledRow
  <1>4. row[a].status = "queued" /\ copies[a] = 0 /\ ~Refused(a)
    BY <1>1 DEF SendInvariant, DispatchShape, Refused, TypeOK
  <1>5. s.state = "cancelled"
    <2>1. s.status = "cancelled"
      BY <1>2, <1>3, <1>4, ResultStatus
    <2> QED
      BY <1>3, <2>1 DEF StateOf
  <1> HIDE DEF s
  <1>6. row'[a] = s /\ \A b \in Attempts : b # a => row'[b] = row[b]
    BY <1>1, <1>2 DEF TypeOK
  <1>7. PICK m \in Messages : m = row[a].msg
    BY <1>2 DEF AttemptRow
  <1>8. /\ PhaseOf(m) = PhaseBy(a) /\ CopiesOf(m) = CopiesBy(a)
        /\ PhaseOf(m)' = PhaseBy(a)' /\ CopiesOf(m)' = CopiesBy(a)'
        /\ \A n \in Messages : n # m =>
             PhaseOf(n)' = PhaseOf(n) /\ CopiesOf(n)' = CopiesOf(n)
    BY <1>3, <1>4, <1>6, <1>7, AttemptMoves
  <1>9. /\ PhaseBy(a) = "queued" /\ PhaseBy(a)' = "closed"
        /\ CopiesBy(a)' = CopiesBy(a)
    BY <1>4, <1>5, <1>6 DEF PhaseBy, CopiesBy, Class
  <1>10. \A c \in 1 .. made : row'[c].msg = row[c].msg
    BY <1>3, <1>6, BoundsAssumption DEF TypeOK, Attempts
  <1>11. HasLatest'
    BY <1>10, LatestStays
  <1>12. Abstract!Close(m)
    BY <1>8, <1>9, OneMoves DEF Abstract!Close
  <1> QED
    BY <1>11, <1>12

\* Recording any other result on a dispatched attempt that is not refused
\* refuses its message, when the result makes the attempt safe, or is invisible.
LEMMA ResultRefuses ==
  ASSUME TypeOK, SendInvariant, HasLatest, Viewed, Viewed',
         NEW a \in 1 .. made, row[a].started, ~Refused(a),
         NEW id \in Nat, NEW status \in Statuses, status # "cancelled",
         NEW retrySafe \in BOOLEAN, NEW evidence \in BOOLEAN,
         retrySafe => copies[a] = 0,
         PersistOutboundResult(a, id, status, retrySafe, evidence),
         UNCHANGED <<made, copies>>
  PROVE  /\ HasLatest'
         /\ \/ UNCHANGED Abstract!vars
            \/ \E m \in Messages : Abstract!Refuse(m)
  <1>1. /\ a \in Attempts /\ row[a] \in AttemptRow
        /\ \A b \in Attempts : b # a => row'[b] = row[b]
        /\ row'[a].msg = row[a].msg
        /\ row'[a].status = Merged(row[a], status, evidence)
        /\ row'[a].state = StateOf(row'[a].status)
    BY ResultRow
  <1>2. row'[a].started
    BY ResultRow
  <1>3. row'[a].retrySafe => copies[a] = 0
    BY ResultRow
  <1>4. row[a].status # "cancelled" /\ ~row[a].retrySafe /\ row[a].state # "cancelled"
    BY <1>1 DEF SendInvariant, DispatchShape, SafeMeansRefused
  <1>5. row'[a].status # "cancelled"
    BY <1>1, <1>4, ResultStatus
  <1>6. row'[a].state # "cancelled"
    BY <1>1, <1>5 DEF StateOf
  <1>7. Class(row[a]) = "open"
    BY <1>4 DEF Class
  <1>8. \A c \in 1 .. made : row'[c].msg = row[c].msg
    BY <1>1, BoundsAssumption DEF TypeOK, Attempts
  <1>9. HasLatest'
    BY <1>8, LatestStays
  <1>10. CASE ~row'[a].retrySafe
    <2>1. Class(row'[a]) = Class(row[a])
      BY <1>2, <1>6, <1>7, <1>10 DEF Class
    <2> QED
      BY <1>1, <1>9, <2>1, AttemptStutters
  <1>11. CASE row'[a].retrySafe
    <2>1. copies[a] = 0 /\ Class(row'[a]) = "refused"
      BY <1>2, <1>3, <1>6, <1>11 DEF Class
    <2>2. PICK m \in Messages : m = row[a].msg
      BY <1>1 DEF AttemptRow
    <2>3. /\ PhaseOf(m) = PhaseBy(a) /\ CopiesOf(m) = CopiesBy(a)
          /\ PhaseOf(m)' = PhaseBy(a)' /\ CopiesOf(m)' = CopiesBy(a)'
          /\ \A n \in Messages : n # m =>
               PhaseOf(n)' = PhaseOf(n) /\ CopiesOf(n)' = CopiesOf(n)
      BY <1>1, <2>2, AttemptMoves
    <2>4. /\ PhaseBy(a) = "open" /\ PhaseBy(a)' = "refused"
          /\ CopiesBy(a)' = CopiesBy(a)
      BY <1>7, <2>1 DEF PhaseBy, CopiesBy
    <2>5. Abstract!Refuse(m)
      BY <2>3, <2>4, OneMoves DEF Abstract!Refuse
    <2> QED
      BY <1>9, <2>5
  <1> QED
    BY <1>10, <1>11

\* Every step is a step of SendOnce or invisible there.
LEMMA RefinementStep ==
  /\ TypeOK /\ SendInvariant /\ HasLatest /\ (TypeOK /\ SendInvariant)' /\ [Next]_vars
  => HasLatest' /\ [Abstract!Next]_Abstract!vars
  <1> SUFFICES ASSUME TypeOK, SendInvariant, HasLatest, Viewed, Viewed', [Next]_vars
               PROVE  HasLatest' /\ [Abstract!Next]_Abstract!vars
    BY LatestDecides, LatestDecidesNext
  <1>1. ASSUME UNCHANGED <<made, row, copies>>
        PROVE  HasLatest' /\ UNCHANGED Abstract!vars
    BY <1>1, QuietStutters, LatestStays
  <1>2. ASSUME NEW m \in Messages, AgentStep(m)
        PROVE  HasLatest' /\ [Abstract!Next]_Abstract!vars
    <2>1. CASE \E body \in Bodies : CreateOutboundMessage(m, body)
      BY <2>1, CreateSubmits DEF Abstract!Next
    <2>2. CASE RetryOutboundMessage(m)
      BY <2>2, RetryResubmits DEF Abstract!Next
    <2>3. CASE \/ \E body \in Bodies : UpdateContent(m, body)
               \/ DeleteMessage(m) \/ CleanupConversation(m)
      <3>1. UNCHANGED <<made, row, copies>>
        BY <2>3 DEF UpdateContent, DeleteMessage, CleanupConversation
      <3> QED
        BY <1>1, <3>1
    <2> QED
      BY <1>2, <2>1, <2>2, <2>3 DEF AgentStep
  <1>3. ASSUME NEW w \in Workers, NEW a \in Attempts, ExpireOutboundDispatches(w, a)
        PROVE  HasLatest' /\ [Abstract!Next]_Abstract!vars
    <2>1. a \in 1 .. made
      BY <1>3, PresentRow DEF ExpireOutboundDispatches
    <2>2. row[a].started /\ ~Refused(a)
      BY <1>3 DEF ExpireOutboundDispatches, Refused
    <2>3. NoId \in Nat /\ "unknown" \in Statuses /\ "unknown" # "cancelled"
      BY DEF NoId, Statuses
    <2>4. /\ PersistOutboundResult(a, NoId, "unknown", FALSE, FALSE)
          /\ UNCHANGED <<made, copies>>
      BY <1>3 DEF ExpireOutboundDispatches
    <2> QED
      BY <2>1, <2>2, <2>3, <2>4, ResultRefuses DEF Abstract!Next
  <1>4. ASSUME NEW w \in Workers, NEW a \in Attempts, ClaimNextOutbound(w, a)
        PROVE  HasLatest' /\ [Abstract!Next]_Abstract!vars
    BY <1>4, ClaimStutters
  <1>5. ASSUME NEW w \in Workers, CancelClaimedOutbound(w) \/ StartCancelled(w)
        PROVE  HasLatest' /\ [Abstract!Next]_Abstract!vars
    <2>1. /\ worker[w].attempt \in 1 .. made
          /\ row[worker[w].attempt].state = "claimed"
          /\ ~row[worker[w].attempt].started
          /\ PersistOutboundResult(worker[w].attempt, NoId, "cancelled", FALSE, FALSE)
          /\ UNCHANGED <<made, copies>>
      BY <1>5 DEF CancelClaimedOutbound, StartCancelled, TypeOK, ClaimHeld
    <2>2. NoId \in Nat /\ "cancelled" \in Statuses
      BY DEF NoId, Statuses
    <2> QED
      BY <2>1, <2>2, CancelCloses DEF Abstract!Next
  <1>6. ASSUME NEW w \in Workers, StartOutboundDispatch(w)
        PROVE  HasLatest' /\ [Abstract!Next]_Abstract!vars
    BY <1>6, StartDispatches DEF Abstract!Next
  <1>7. ASSUME NEW w \in Workers, Send(w)
        PROVE  HasLatest' /\ [Abstract!Next]_Abstract!vars
    BY <1>7, RespondTakes
    DEF Send, SendAccepted, SendRejected, SendUnknown, Abstract!Next
  <1>8. ASSUME NEW w \in Workers, CompleteOutboundDispatch(w)
        PROVE  HasLatest' /\ [Abstract!Next]_Abstract!vars
    <2>1. PICK a \in 1 .. made : a \in Attempts /\ a = worker[w].attempt
      BY <1>8, CompleteEffect
    <2>2. /\ worker[w].pc = "posted" /\ UNCHANGED <<made, copies>>
          /\ worker[w].id \in Nat
          /\ worker[w].status \in Statuses /\ worker[w].status # "cancelled"
          /\ FirstRejection(w) \in BOOLEAN
      BY <1>8, CompleteEffect
    <2>3. ~Refused(a)
      BY <2>1, <2>2 DEF Refused, Sends
    <2>4. FirstRejection(w) => copies[a] = 0
      BY <2>1, <2>2 DEF FirstRejection, SendInvariant, SafeMeansRefused
    <2>5. CASE UNCHANGED <<msg, row>>
      BY <1>1, <2>2, <2>5
    <2>6. ASSUME NEW evidence \in BOOLEAN, row[a].started,
                 PersistOutboundResult(a, worker[w].id, worker[w].status,
                                       FirstRejection(w), evidence)
          PROVE  HasLatest' /\ [Abstract!Next]_Abstract!vars
      BY <2>2, <2>3, <2>4, <2>6, ResultRefuses DEF Abstract!Next
    <2> QED
      BY <1>8, <2>1, <2>5, <2>6, CompleteEffect
  <1>9. ASSUME NEW w \in Workers,
               \/ BindingConfirmed(w) \/ CancelClaimLost(w) \/ BindingUnavailable(w)
               \/ StartClaimLost(w) \/ Crash(w)
        PROVE  HasLatest' /\ [Abstract!Next]_Abstract!vars
    <2>1. UNCHANGED <<made, row, copies>>
      BY <1>9 DEF BindingConfirmed, CancelClaimLost, BindingUnavailable,
                  StartClaimLost, Crash
    <2> QED
      BY <1>1, <2>1
  <1>10. ASSUME NEW a \in Attempts, LeaseElapses(a) \/ StatusStep(a)
         PROVE  HasLatest' /\ [Abstract!Next]_Abstract!vars
    <2>1. CASE LeaseElapses(a)
      BY <1>1, <2>1 DEF LeaseElapses
    <2>2. CASE StatusStep(a)
      <3>1. PICK id \in 1 .. copies[a], status \in CallbackStatuses :
              ApplyOutboundStatus(a, id, status)
        BY <2>2 DEF StatusStep
      <3>2. a \in 1 .. made
        BY <3>1, PresentRow DEF ApplyOutboundStatus, Recordable
      <3>3. id \in Nat /\ status \in Statuses /\ status # "cancelled" /\ copies[a] # 0
        BY <3>1 DEF TypeOK, CallbackStatuses, Evidence, Statuses
      <3>4. /\ PersistOutboundResult(a, id, status, FALSE, TRUE)
            /\ row[a].started /\ ~Refused(a)
            /\ UNCHANGED <<made, copies>>
        BY <3>1, <3>3 DEF ApplyOutboundStatus, Recordable, Refused
      <3> QED
        BY <3>2, <3>3, <3>4, ResultRefuses DEF Abstract!Next
    <2> QED
      BY <1>10, <2>1, <2>2
  <1>11. CASE UNCHANGED vars
    BY <1>1, <1>11 DEF vars
  <1> QED
    BY <1>2, <1>3, <1>4, <1>5, <1>6, <1>7, <1>8, <1>9, <1>10, <1>11
    DEF Next, WorkerStep, SendBinding, StartStep

\* The recipient's view of a message: submitted, dispatched, taken at most once,
\* and queued again only when it was refused, provided a rejected POST was never
\* delivered (checkOutboundRetry, StartOutboundDispatch, CompleteOutboundDispatch).
THEOREM DeliveryImplementsSendOnce == DefiniteRejections => (Spec => ImplementsSendOnce)
  <1> SUFFICES ASSUME DefiniteRejections PROVE Spec => ImplementsSendOnce
    OBVIOUS
  <1>1. Init => HasLatest /\ Abstract!Init
    BY RefinementInit
  <1>2. /\ TypeOK /\ SendInvariant /\ HasLatest /\ (TypeOK /\ SendInvariant)' /\ [Next]_vars
        => HasLatest' /\ [Abstract!Next]_Abstract!vars
    BY RefinementStep
  <1>3. Spec => []TypeOK /\ []SendInvariant
    BY TypeCorrect, SendCorrect
  <1> QED
    BY <1>1, <1>2, <1>3, PTL DEF Spec, ImplementsSendOnce, Abstract!Spec

(***************************************************************************)
(* What the provider reported.                                             *)
(*                                                                         *)
(* EvidenceInvariant relates an attempt to the statuses recorded for it;   *)
(* one lemma shows that a further report keeps the relation, another that  *)
(* the answers without a report (unknown, rejected, cancelled) do.         *)
(* ShownInvariant is about the message row: it agrees with the latest      *)
(* attempt, and evidence of progress stops a resend.                       *)
(***************************************************************************)

\* What row r of an attempt says once the statuses S were recorded for it.
Tells(r, S) ==
    IF S = {}
    THEN Progress(r.status) = 0 /\ ~r.failureObserved
    ELSE /\ r.state = "settled"
         /\ r.status = EvidenceStatus(S)
         /\ r.failureObserved <=>
               "failed" \in S /\ S \cap {"delivered", "read"} = {}
         /\ ~r.retrySafe

\* An answer that is no acceptance reports nothing.
AnswerShape ==
    \A w \in Workers :
        worker[w].pc = "posted" /\ worker[w].disposition # "accepted"
          => worker[w].status \in {"unknown", "failed"}

EvidenceInvariant ==
    /\ \A a \in Attempts : Tells(row[a], seen[a])
    /\ AnswerShape

\* What outboundProgress ranks each status at.
LEMMA ProgressValues ==
  /\ Progress("provider_accepted") = 1
  /\ Progress("sent") = 2
  /\ Progress("delivered") = 3
  /\ Progress("read") = 4
  /\ \A s \in {"queued", "unknown", "failed", "cancelled"} : Progress(s) = 0
  BY DEF Progress

\* The highest progress among the statuses, "failed" when there is none.
LEMMA EvidenceStatusValue ==
  ASSUME NEW S \in SUBSET Evidence, S # {}
  PROVE  /\ EvidenceStatus(S) \in Evidence
         /\ EvidenceStatus(S) = "read" <=> "read" \in S
         /\ EvidenceStatus(S) = "delivered" <=> "read" \notin S /\ "delivered" \in S
         /\ EvidenceStatus(S) = "sent" <=>
              "read" \notin S /\ "delivered" \notin S /\ "sent" \in S
         /\ EvidenceStatus(S) = "failed" <=>
              "read" \notin S /\ "delivered" \notin S /\ "sent" \notin S /\ "failed" \in S
         /\ EvidenceStatus(S) = "provider_accepted" <=> S = {"provider_accepted"}
  <1>1. \A s \in S : s \in {"provider_accepted", "sent", "delivered", "read", "failed"}
    BY DEF Evidence
  <1>2. CASE "read" \in S
    BY <1>1, <1>2 DEF EvidenceStatus, Evidence
  <1>3. CASE "read" \notin S /\ "delivered" \in S
    BY <1>1, <1>3 DEF EvidenceStatus, Evidence
  <1>4. CASE S \cap {"read", "delivered"} = {} /\ "sent" \in S
    BY <1>1, <1>4 DEF EvidenceStatus, Evidence
  <1>5. CASE S \cap {"read", "delivered", "sent"} = {} /\ "failed" \in S
    BY <1>1, <1>5 DEF EvidenceStatus, Evidence
  <1>6. CASE S \cap {"read", "delivered", "sent", "failed"} = {}
    <2>1. S = {"provider_accepted"}
      BY <1>1, <1>6
    <2> QED
      BY <1>6, <2>1 DEF EvidenceStatus, Evidence
  <1> QED
    BY <1>2, <1>3, <1>4, <1>5, <1>6

\* A recorded report keeps the relation, whatever was reported before.
LEMMA ReportTells ==
  ASSUME NEW r \in AttemptRow, NEW S \in SUBSET Evidence, Tells(r, S),
         NEW e \in Evidence, NEW id \in Nat,
         NEW retrySafe \in BOOLEAN, NEW evidence \in BOOLEAN,
         NEW s, s = Settled(r, id, e, retrySafe, evidence)
  PROVE  evidence /\ ~retrySafe => Tells(s, S \cup {e})
  <1> DEFINE T == S \cup {e}
             d == Merged(r, e, evidence)
  <1>1. e \in Statuses
    BY DEF Statuses
  <1>2. /\ s.status = d /\ s.state = StateOf(s.status)
        /\ s.failureObserved = FailureFlag(r, e, evidence)
        /\ s.retrySafe => retrySafe
    BY <1>1, SettledRow
  <1> SUFFICES ASSUME evidence, ~retrySafe PROVE Tells(s, T)
    OBVIOUS
  <1>3. T \in SUBSET Evidence /\ T # {}
    OBVIOUS
  <1>4. e \in {"provider_accepted", "sent", "delivered", "read", "failed"}
    BY DEF Evidence
  <1>5. d = EvidenceStatus(T)
    <2>1. CASE S = {}
      <3>1. d = e
        BY <1>4, <2>1, ProgressValues DEF Tells, Merged, MergeStatus
      <3>2. T = {e}
        BY <2>1
      <3> QED
        BY <1>3, <1>4, <3>1, <3>2, EvidenceStatusValue
    <2>2. CASE S # {}
      <3>1. /\ r.status = EvidenceStatus(S)
            /\ r.failureObserved <=>
                 "failed" \in S /\ "delivered" \notin S /\ "read" \notin S
        BY <2>2 DEF Tells
      <3>2. EvidenceStatus(S) \in {"provider_accepted", "sent", "delivered", "read", "failed"}
        BY <2>2, EvidenceStatusValue DEF Evidence
      <3>3. CASE e = "failed"
        BY <1>3, <2>2, <3>1, <3>2, <3>3, ProgressValues, EvidenceStatusValue
        DEF Merged, MergeStatus
      <3>4. CASE e = "provider_accepted"
        BY <1>3, <2>2, <3>1, <3>2, <3>4, ProgressValues, EvidenceStatusValue
        DEF Merged, MergeStatus
      <3>5. CASE e = "sent"
        BY <1>3, <2>2, <3>1, <3>2, <3>5, ProgressValues, EvidenceStatusValue
        DEF Merged, MergeStatus
      <3>6. CASE e = "delivered"
        BY <1>3, <2>2, <3>1, <3>2, <3>6, ProgressValues, EvidenceStatusValue
        DEF Merged, MergeStatus
      <3>7. CASE e = "read"
        BY <1>3, <2>2, <3>1, <3>2, <3>7, ProgressValues, EvidenceStatusValue
        DEF Merged, MergeStatus
      <3> QED
        BY <1>4, <3>3, <3>4, <3>5, <3>6, <3>7
    <2> QED
      BY <2>1, <2>2
  <1>6. d \in Evidence
    BY <1>3, <1>5, EvidenceStatusValue
  <1>7. s.state = "settled"
    BY <1>2, <1>6 DEF StateOf, Evidence
  <1>8. FailureFlag(r, e, evidence) <=>
          "failed" \in T /\ "delivered" \notin T /\ "read" \notin T
    <2>1. Progress(d) < 3 <=> "delivered" \notin T /\ "read" \notin T
      <3>1. \A x \in Evidence : Progress(x) < 3 <=> x # "delivered" /\ x # "read"
        BY ProgressValues DEF Evidence
      <3> QED
        BY <1>3, <1>5, <1>6, <3>1, EvidenceStatusValue
    <2>2. r.failureObserved \in BOOLEAN
      BY DEF AttemptRow
    <2>3. ASSUME "delivered" \notin T, "read" \notin T
          PROVE  /\ r.failureObserved <=> "failed" \in S
                 /\ Progress(r.status) < 3
      <3>1. CASE S = {}
        BY <2>2, <3>1 DEF Tells
      <3>2. CASE S # {}
        <4>1. EvidenceStatus(S) \in {"provider_accepted", "sent", "failed"}
          BY <2>3, <3>2, EvidenceStatusValue DEF Evidence
        <4> QED
          BY <2>2, <2>3, <3>2, <4>1, ProgressValues DEF Tells
      <3> QED
        BY <3>1, <3>2
    <2> HIDE DEF d
    <2> QED
      BY <2>1, <2>3 DEF FailureFlag, d
  <1> HIDE DEF T, d
  <1> QED
    BY <1>2, <1>3, <1>5, <1>7, <1>8 DEF Tells, T

\* An answer that reports nothing keeps the relation: a definite or unknown
\* answer cannot undo a report, a cancellation finds none.
LEMMA SilentTells ==
  ASSUME NEW r \in AttemptRow, NEW S \in SUBSET Evidence, Tells(r, S),
         NEW status \in {"unknown", "failed", "cancelled"}, NEW id \in Nat,
         status = "cancelled" => S = {},
         NEW retrySafe \in BOOLEAN, NEW evidence \in BOOLEAN,
         NEW s, s = Settled(r, id, status, retrySafe, evidence)
  PROVE  ~evidence /\ (retrySafe => S = {}) => Tells(s, S)
  <1> DEFINE d == Merged(r, status, evidence)
  <1>1. status \in Statuses /\ r.failureObserved \in BOOLEAN /\ r.status \in Statuses
    BY DEF Statuses, Evidence, AttemptRow
  <1>2. /\ s.status = d /\ s.state = StateOf(s.status)
        /\ s.failureObserved = FailureFlag(r, status, evidence)
        /\ s.retrySafe => retrySafe
    BY <1>1, SettledRow
  <1> SUFFICES ASSUME ~evidence, retrySafe => S = {} PROVE Tells(s, S)
    OBVIOUS
  <1>3. Progress(status) = 0
    BY ProgressValues
  <1>4. CASE S = {}
    <2>1. Progress(r.status) = 0 /\ ~r.failureObserved
      BY <1>4 DEF Tells
    <2>2. d \in {r.status, status}
      BY <2>1 DEF Merged, MergeStatus
    <2>3. Progress(d) = 0
      BY <1>3, <2>1, <2>2
    <2>4. ~FailureFlag(r, status, evidence)
      BY <2>1 DEF FailureFlag
    <2> QED
      BY <1>2, <1>4, <2>3, <2>4 DEF Tells
  <1>5. CASE S # {}
    <2>1. /\ r.state = "settled" /\ r.status = EvidenceStatus(S)
          /\ r.failureObserved <=> "failed" \in S /\ S \cap {"delivered", "read"} = {}
      BY <1>5 DEF Tells
    <2>2. r.status \in {"provider_accepted", "sent", "delivered", "read", "failed"}
      BY <1>5, <2>1, EvidenceStatusValue DEF Evidence
    <2>3. d = r.status
      BY <1>3, <1>5, <2>2, ProgressValues DEF Merged, MergeStatus
    <2>4. r.failureObserved => Progress(d) < 3
      <3>1. \A x \in Evidence : x # "delivered" /\ x # "read" => Progress(x) < 3
        BY ProgressValues DEF Evidence
      <3> QED
        BY <1>5, <2>1, <2>3, <3>1, EvidenceStatusValue
    <2>5. s.state = "settled"
      BY <1>2, <2>2, <2>3 DEF StateOf
    <2> HIDE DEF d
    <2>6. FailureFlag(r, status, evidence) <=> r.failureObserved
      BY <1>1, <2>4 DEF FailureFlag, d
    <2> QED
      BY <1>2, <1>5, <2>1, <2>3, <2>5, <2>6 DEF Tells
  <1> QED
    BY <1>4, <1>5

\* With no attempt there is nothing to have been reported.
LEMMA EvidenceInit == Init => EvidenceInvariant
  BY DEF Init, EvidenceInvariant, Tells, AnswerShape, NoRow, Idle, Progress

\* Recording a result keeps the relation for every attempt.
LEMMA PersistTells ==
  ASSUME TypeOK, EvidenceInvariant, NEW a \in 1 .. made, NEW id \in Nat,
         NEW status \in Statuses, NEW retrySafe \in BOOLEAN, NEW evidence \in BOOLEAN,
         PersistOutboundResult(a, id, status, retrySafe, evidence),
         \/ /\ seen' = [seen EXCEPT ![a] = @ \cup {status}]
            /\ status \in Evidence /\ evidence /\ ~retrySafe
         \/ /\ seen' = seen
            /\ status \in {"unknown", "failed", "cancelled"} /\ ~evidence
            /\ status = "cancelled" \/ retrySafe => seen[a] = {}
  PROVE  \A b \in Attempts : Tells(row'[b], seen'[b])
  <1> DEFINE s == Settled(row[a], id, status, retrySafe, evidence)
  <1>1. row[a] \in AttemptRow /\ row' = [row EXCEPT ![a] = s]
    BY PersistEffect
  <1>2. /\ a \in Attempts /\ seen[a] \in SUBSET Evidence
        /\ Tells(row[a], seen[a])
    BY BoundsAssumption DEF TypeOK, Attempts, EvidenceInvariant
  <1>3. ASSUME status \in Evidence
        PROVE  evidence /\ ~retrySafe => Tells(s, seen[a] \cup {status})
    BY <1>1, <1>2, <1>3, ReportTells
  <1>4. ASSUME status \in {"unknown", "failed", "cancelled"},
               status = "cancelled" => seen[a] = {}
        PROVE  ~evidence /\ (retrySafe => seen[a] = {}) => Tells(s, seen[a])
    BY <1>1, <1>2, <1>4, SilentTells
  <1> HIDE DEF s
  <1>5. row'[a] = s /\ \A b \in Attempts : b # a => row'[b] = row[b]
    BY <1>1, <1>2 DEF TypeOK
  <1>6. CASE /\ seen' = [seen EXCEPT ![a] = @ \cup {status}]
             /\ status \in Evidence /\ evidence /\ ~retrySafe
    <2>1. seen'[a] = seen[a] \cup {status} /\ \A b \in Attempts : b # a => seen'[b] = seen[b]
      BY <1>2, <1>6 DEF TypeOK
    <2>2. Tells(s, seen[a] \cup {status})
      BY <1>3, <1>6
    <2> QED
      BY <1>5, <2>1, <2>2 DEF EvidenceInvariant
  <1>7. CASE /\ seen' = seen
             /\ status \in {"unknown", "failed", "cancelled"} /\ ~evidence
             /\ status = "cancelled" \/ retrySafe => seen[a] = {}
    <2>1. Tells(s, seen[a])
      BY <1>4, <1>7
    <2> QED
      BY <1>5, <1>7, <2>1 DEF EvidenceInvariant
  <1> QED
    BY <1>6, <1>7

\* Steps that leave attempts and reports alone and start no dispatch.
LEMMA QuietEvidence ==
  ASSUME EvidenceInvariant, UNCHANGED <<row, seen>>, SendersOnlyLeave
  PROVE  EvidenceInvariant'
  BY DEF EvidenceInvariant, SendersOnlyLeave, AnswerShape

\* Nothing was reported of an attempt that is not settled.
LEMMA NothingReported ==
  ASSUME EvidenceInvariant, NEW a \in Attempts, row[a].state # "settled"
  PROVE  seen[a] = {}
  BY DEF EvidenceInvariant, Tells

\* A created attempt has nothing to tell.
LEMMA AppendEvidence ==
  ASSUME TypeOK, EvidenceInvariant, NEW m \in Messages, NEW body, Append1(m, body),
         UNCHANGED <<worker, seen>>
  PROVE  EvidenceInvariant'
  <1> DEFINE b == made + 1
  <1>1. /\ b \in Attempts /\ row[b] = NoRow /\ row' = [row EXCEPT ![b] = Intent(m, body)]
    BY BoundsAssumption DEF Append1, TypeOK, Attempts
  <1>2. NoRow.state = "absent"
    BY DEF NoRow
  <1>3. seen[b] = {}
    BY <1>1, <1>2, NothingReported
  <1>4. Intent(m, body).status = "queued" /\ ~Intent(m, body).failureObserved
    BY DEF Intent, NoRow
  <1> HIDE DEF b
  <1>5. /\ row'[b] = Intent(m, body)
        /\ \A a \in Attempts : a # b => row'[a] = row[a]
    BY <1>1 DEF TypeOK
  <1>6. Tells(row'[b], seen'[b])
    BY <1>3, <1>4, <1>5, ProgressValues DEF Tells
  <1> QED
    BY <1>5, <1>6 DEF EvidenceInvariant, AnswerShape

\* Every step keeps the invariant.
LEMMA EvidenceStep ==
  TypeOK /\ DispatchInvariant /\ EvidenceInvariant /\ [Next]_vars => EvidenceInvariant'
  <1> SUFFICES ASSUME TypeOK, DispatchInvariant, EvidenceInvariant, [Next]_vars
               PROVE  EvidenceInvariant'
    OBVIOUS
  <1>1. ASSUME NEW m \in Messages, NEW body \in Bodies, CreateOutboundMessage(m, body)
        PROVE  EvidenceInvariant'
    BY <1>1, AppendEvidence DEF CreateOutboundMessage
  <1>2. ASSUME NEW m \in Messages, RetryOutboundMessage(m)
        PROVE  EvidenceInvariant'
    BY <1>2, AppendEvidence DEF RetryOutboundMessage
  <1>3. ASSUME NEW m \in Messages,
               \/ \E body \in Bodies : UpdateContent(m, body)
               \/ DeleteMessage(m) \/ CleanupConversation(m)
        PROVE  EvidenceInvariant'
    BY <1>3, QuietEvidence
    DEF UpdateContent, DeleteMessage, CleanupConversation, SendersOnlyLeave
  <1>4. ASSUME NEW a \in Attempts, LeaseElapses(a)
        PROVE  EvidenceInvariant'
    BY <1>4, QuietEvidence DEF LeaseElapses, SendersOnlyLeave
  <1>5. ASSUME SendersOnlyLeave PROVE AnswerShape'
    BY <1>5 DEF EvidenceInvariant, SendersOnlyLeave, AnswerShape
  <1>6. ASSUME NEW w \in Workers, NEW a \in Attempts, ExpireOutboundDispatches(w, a)
        PROVE  EvidenceInvariant'
    <2>1. a \in 1 .. made
      BY <1>6, PresentRow DEF ExpireOutboundDispatches
    <2>2. AnswerShape'
      BY <1>5, <1>6 DEF ExpireOutboundDispatches, SendersOnlyLeave
    <2>3. NoId \in Nat /\ "unknown" \in Statuses
      BY DEF NoId, Statuses
    <2>4. PersistOutboundResult(a, NoId, "unknown", FALSE, FALSE) /\ seen' = seen
      BY <1>6 DEF ExpireOutboundDispatches
    <2>5. \A b \in Attempts : Tells(row'[b], seen'[b])
      BY <2>1, <2>3, <2>4, PersistTells
    <2> QED
      BY <2>2, <2>5 DEF EvidenceInvariant
  <1>7. ASSUME NEW w \in Workers, NEW a \in Attempts, ClaimNextOutbound(w, a)
        PROVE  EvidenceInvariant'
    <2> DEFINE s == [row[a] EXCEPT !.state = "claimed", !.token = w]
    <2>1. /\ row' = [row EXCEPT ![a] = s] /\ row[a].state \in {"queued", "claimed"}
          /\ seen' = seen
      BY <1>7 DEF ClaimNextOutbound, Claimable
    <2>2. row[a] \in AttemptRow
      BY <2>1, PresentRow, BoundsAssumption DEF TypeOK, Attempts
    <2>3. s.status = row[a].status /\ s.failureObserved = row[a].failureObserved
      BY <2>2 DEF AttemptRow
    <2>4. seen[a] = {}
      BY <2>1, NothingReported
    <2> HIDE DEF s
    <2>5. row'[a] = s /\ \A b \in Attempts : b # a => row'[b] = row[b]
      BY <2>1 DEF TypeOK
    <2>6. Tells(row'[a], seen'[a])
      BY <2>1, <2>3, <2>4, <2>5 DEF EvidenceInvariant, Tells
    <2>7. SendersOnlyLeave
      BY <1>7 DEF ClaimNextOutbound, SendersOnlyLeave, TypeOK, Idle
    <2> QED
      BY <1>5, <2>1, <2>5, <2>6, <2>7 DEF EvidenceInvariant
  <1>8. ASSUME NEW w \in Workers, BindingConfirmed(w)
        PROVE  EvidenceInvariant'
    <2>1. worker'[w].pc = "bound" /\ \A v \in Workers : v # w => worker'[v] = worker[v]
      BY <1>8 DEF BindingConfirmed, TypeOK, WorkerRow
    <2> QED
      BY <1>8, <2>1, QuietEvidence DEF BindingConfirmed, SendersOnlyLeave
  <1>9. ASSUME NEW w \in Workers, Release(w)
        PROVE  SendersOnlyLeave
    BY <1>9 DEF Release, TypeOK, Idle, SendersOnlyLeave
  <1>10. ASSUME NEW w \in Workers, CancelClaimedOutbound(w) \/ StartCancelled(w)
         PROVE  EvidenceInvariant'
    <2>1. PICK a \in 1 .. made : a \in Attempts /\ a = worker[w].attempt
      <3>1. worker[w].attempt \in 1 .. made
        BY <1>10 DEF CancelClaimedOutbound, StartCancelled, TypeOK
      <3>2. \A a \in 1 .. made : a \in Attempts
        BY BoundsAssumption DEF TypeOK, Attempts
      <3> QED
        BY <3>1, <3>2
    <2>2. /\ PersistOutboundResult(a, NoId, "cancelled", FALSE, FALSE)
          /\ Release(w) /\ seen' = seen /\ row[a].state = "claimed"
      BY <1>10, <2>1 DEF CancelClaimedOutbound, StartCancelled, ClaimHeld
    <2>3. NoId \in Nat /\ "cancelled" \in Statuses
      BY DEF NoId, Statuses
    <2>4. seen[a] = {}
      BY <2>1, <2>2, NothingReported
    <2>5. \A b \in Attempts : Tells(row'[b], seen'[b])
      BY <2>2, <2>3, <2>4, PersistTells
    <2> QED
      BY <1>5, <1>9, <2>2, <2>5 DEF EvidenceInvariant
  <1>11. ASSUME NEW w \in Workers,
                \/ CancelClaimLost(w) \/ StartClaimLost(w)
                \/ BindingUnavailable(w) \/ Crash(w)
         PROVE  EvidenceInvariant'
    BY <1>9, <1>11, QuietEvidence
    DEF CancelClaimLost, StartClaimLost, BindingUnavailable, Crash
  <1>12. ASSUME NEW w \in Workers, StartOutboundDispatch(w)
         PROVE  EvidenceInvariant'
    <2>1. PICK a \in Attempts : a = worker[w].attempt
      BY <1>12, StartEffect
    <2>2. /\ row[a].state = "claimed" /\ row'[a].status = row[a].status
          /\ \A b \in Attempts : b # a => row'[b] = row[b]
          /\ worker'[w].pc = "sending"
          /\ \A v \in Workers : v # w => worker'[v] = worker[v]
      BY <1>12, <2>1, StartEffect
    <2>3. seen' = seen
      BY <1>12 DEF StartOutboundDispatch
    <2>4. row'[a].failureObserved = row[a].failureObserved
      <3>1. row[a] \in AttemptRow
        BY <2>1, <2>2, PresentRow, BoundsAssumption DEF TypeOK, Attempts
      <3>2. row'[a] = [row[a] EXCEPT !.state = "sending", !.started = TRUE]
        BY <1>12, <2>1 DEF StartOutboundDispatch, TypeOK
      <3> QED
        BY <3>1, <3>2 DEF AttemptRow
    <2>5. seen[a] = {}
      BY <2>1, <2>2, NothingReported
    <2>6. Tells(row'[a], seen'[a])
      BY <2>2, <2>4, <2>5, <2>3 DEF EvidenceInvariant, Tells
    <2>7. AnswerShape'
      BY <2>2 DEF EvidenceInvariant, AnswerShape
    <2> QED
      BY <2>2, <2>6, <2>7, <2>3 DEF EvidenceInvariant
  <1>13. ASSUME NEW w \in Workers, NEW taken \in BOOLEAN, NEW disposition, NEW status,
                Respond(w, taken, disposition, status),
                disposition # "accepted" => status \in {"unknown", "failed"}
         PROVE  EvidenceInvariant'
    <2>1. /\ worker'[w].disposition = disposition /\ worker'[w].status = status
          /\ \A v \in Workers : v # w => worker'[v] = worker[v]
      BY <1>13 DEF Respond, TypeOK
    <2>2. UNCHANGED <<row, seen>>
      BY <1>13 DEF Respond
    <2>3. AnswerShape'
      BY <1>13, <2>1 DEF EvidenceInvariant, AnswerShape
    <2> QED
      BY <2>2, <2>3 DEF EvidenceInvariant
  <1>14. ASSUME NEW w \in Workers, Send(w)
         PROVE  EvidenceInvariant'
    BY <1>13, <1>14 DEF Send, SendAccepted, SendRejected, SendUnknown
  <1>15. ASSUME NEW w \in Workers, CompleteOutboundDispatch(w)
         PROVE  EvidenceInvariant'
    <2>1. PICK a \in 1 .. made : a \in Attempts /\ a = worker[w].attempt
      BY <1>15, CompleteEffect
    <2>2. /\ worker[w].pc = "posted" /\ Release(w)
          /\ worker[w].id \in Nat /\ worker[w].status \in Statuses
          /\ FirstRejection(w) \in BOOLEAN
      BY <1>15, CompleteEffect
    <2>3. AnswerShape'
      BY <1>5, <1>9, <2>2
    <2> DEFINE accepted == worker[w].disposition = "accepted"
    <2>4. accepted \in BOOLEAN
      OBVIOUS
    <2>5. CASE UNCHANGED <<msg, row, seen>>
      BY <1>9, <2>2, <2>5, QuietEvidence
    <2>6. CASE /\ PersistOutboundResult(a, worker[w].id, worker[w].status,
                                        FirstRejection(w), accepted)
               /\ seen' = IF accepted
                          THEN [seen EXCEPT ![a] = @ \cup {worker[w].status}]
                          ELSE seen
      <3>1. CASE accepted
        <4>1. worker[w].status \in Evidence /\ ~FirstRejection(w)
          BY <3>1 DEF TypeOK, FirstRejection
        <4> QED
          BY <2>2, <2>3, <2>4, <2>6, <3>1, <4>1, PersistTells DEF EvidenceInvariant
      <3>2. CASE ~accepted
        <4>1. worker[w].status \in {"unknown", "failed"}
          BY <2>2, <3>2 DEF EvidenceInvariant, AnswerShape
        <4>2. FirstRejection(w) => seen[a] = {}
          BY <2>1 DEF FirstRejection, EvidenceInvariant, Tells
        <4> QED
          BY <2>2, <2>3, <2>4, <2>6, <3>2, <4>1, <4>2, PersistTells DEF EvidenceInvariant
      <3> QED
        BY <3>1, <3>2
    <2> QED
      BY <1>15, <2>1, <2>5, <2>6 DEF CompleteOutboundDispatch
  <1>16. ASSUME NEW a \in Attempts, StatusStep(a)
         PROVE  EvidenceInvariant'
    <2>1. PICK id \in 1 .. copies[a], status \in CallbackStatuses :
            ApplyOutboundStatus(a, id, status)
      BY <1>16 DEF StatusStep
    <2>2. a \in 1 .. made
      BY <2>1, PresentRow DEF ApplyOutboundStatus, Recordable
    <2>3. id \in Nat /\ status \in Statuses /\ status \in Evidence
      BY <2>1 DEF TypeOK, CallbackStatuses, Evidence, Statuses
    <2>4. /\ PersistOutboundResult(a, id, status, FALSE, TRUE)
          /\ seen' = [seen EXCEPT ![a] = @ \cup {status}]
      BY <2>1 DEF ApplyOutboundStatus
    <2>5. AnswerShape'
      BY <1>5, <2>1 DEF ApplyOutboundStatus, SendersOnlyLeave
    <2> QED
      BY <2>2, <2>3, <2>4, <2>5, PersistTells DEF EvidenceInvariant
  <1>17. CASE UNCHANGED vars
    BY <1>17, QuietEvidence DEF vars, SendersOnlyLeave
  <1> QED
    BY <1>1, <1>2, <1>3, <1>4, <1>6, <1>7, <1>8, <1>10,
       <1>11, <1>12, <1>14, <1>15, <1>16, <1>17
    DEF Next, AgentStep, WorkerStep, SendBinding, StartStep

(***************************************************************************)
(* The theorems.                                                           *)
(***************************************************************************)

\* What the provider reported decides the attempt: neither the order nor the
\* repetition of reports nor an answer that says less changes it, whatever a
\* rejection means (persistOutboundResult).
THEOREM EvidenceAlwaysDecides == Spec => []EvidenceDecides
  <1>1. EvidenceInvariant => EvidenceDecides
    BY DEF EvidenceInvariant, Tells, EvidenceDecides
  <1> QED
    BY <1>1, TypeCorrect, DispatchCorrect, EvidenceInit, EvidenceStep, PTL DEF Spec

\* Recording a result takes no visible progress back except a mere acceptance.
LEMMA PersistRegress ==
  ASSUME TypeOK, NEW a \in 1 .. made, NEW id \in Nat, NEW status \in Statuses,
         NEW retrySafe \in BOOLEAN, NEW evidence \in BOOLEAN,
         PersistOutboundResult(a, id, status, retrySafe, evidence)
  PROVE  \A m \in Messages :
           \/ Progress(msg'[m].status) >= Progress(msg[m].status)
           \/ msg[m].status = "provider_accepted" /\ msg'[m].status = "failed"
  BY PersistEffect

\* The progress an agent was shown is never taken back, not by a late answer, an
\* expired lease, an edit, a deletion or a retry (mergeOutboundStatus,
\* persistOutboundResult, RetryOutboundMessage).
THEOREM VisibleKeepsProgress == Spec => VisibleNeverRegresses
  <1> DEFINE Kept == \A m \in Messages :
               \/ Progress(msg'[m].status) >= Progress(msg[m].status)
               \/ msg[m].status = "provider_accepted" /\ msg'[m].status = "failed"
  <1>1. TypeOK /\ [Next]_vars => Kept
    <2> SUFFICES ASSUME TypeOK, [Next]_vars PROVE Kept
      OBVIOUS
    <2>1. ASSUME \A m \in Messages : msg'[m].status = msg[m].status
          PROVE  Kept
      BY <2>1, ProgressRange
    <2>2. ASSUME NEW m \in Messages,
                 \/ \E body \in Bodies : CreateOutboundMessage(m, body)
                 \/ \E body \in Bodies : UpdateContent(m, body)
                 \/ DeleteMessage(m) \/ CleanupConversation(m)
          PROVE  \A n \in Messages : msg'[n].status = msg[n].status
      <3>1. msg \in [Messages -> MessageRow]
        BY DEF TypeOK
      <3>2. ASSUME NEW body \in Bodies, CreateOutboundMessage(m, body)
            PROVE  \A n \in Messages : msg'[n].status = msg[n].status
        BY <3>1, <3>2 DEF CreateOutboundMessage, MessageRow
      <3>3. ASSUME NEW body \in Bodies, UpdateContent(m, body)
            PROVE  \A n \in Messages : msg'[n].status = msg[n].status
        BY <3>1, <3>3 DEF UpdateContent, MessageRow
      <3>4. CASE DeleteMessage(m) \/ CleanupConversation(m)
        BY <3>1, <3>4 DEF DeleteMessage, CleanupConversation, MessageRow
      <3> QED
        BY <2>2, <3>2, <3>3, <3>4
    <2>3. ASSUME NEW m \in Messages, RetryOutboundMessage(m)
          PROVE  Kept
      <3>1. /\ msg[m].status = "failed" /\ msg'[m].status = "queued"
            /\ \A n \in Messages : n # m => msg'[n].status = msg[n].status
        BY <2>3 DEF RetryOutboundMessage, TypeOK, MessageRow
      <3> QED
        BY <3>1, ProgressRange, ProgressValues
    <2>4. ASSUME NEW w \in Workers, NEW a \in Attempts, ExpireOutboundDispatches(w, a)
          PROVE  Kept
      <3>1. a \in 1 .. made
        BY <2>4, PresentRow DEF ExpireOutboundDispatches
      <3>2. NoId \in Nat /\ "unknown" \in Statuses
        BY DEF NoId, Statuses
      <3> QED
        BY <2>4, <3>1, <3>2, PersistRegress DEF ExpireOutboundDispatches
    <2>5. ASSUME NEW w \in Workers, CancelClaimedOutbound(w) \/ StartCancelled(w)
          PROVE  Kept
      <3>1. /\ worker[w].attempt \in 1 .. made
            /\ PersistOutboundResult(worker[w].attempt, NoId, "cancelled", FALSE, FALSE)
        BY <2>5 DEF CancelClaimedOutbound, StartCancelled, TypeOK
      <3>2. NoId \in Nat /\ "cancelled" \in Statuses
        BY DEF NoId, Statuses
      <3> QED
        BY <3>1, <3>2, PersistRegress
    <2>6. ASSUME NEW w \in Workers, CompleteOutboundDispatch(w)
          PROVE  Kept
      BY <2>1, <2>6, CompleteEffect, PersistRegress
    <2>7. ASSUME NEW a \in Attempts, StatusStep(a)
          PROVE  Kept
      <3>1. PICK id \in 1 .. copies[a], status \in CallbackStatuses :
              ApplyOutboundStatus(a, id, status)
        BY <2>7 DEF StatusStep
      <3>2. a \in 1 .. made
        BY <3>1, PresentRow DEF ApplyOutboundStatus, Recordable
      <3>3. id \in Nat /\ status \in Statuses
        BY <3>1 DEF TypeOK, CallbackStatuses, Evidence, Statuses
      <3> QED
        BY <3>1, <3>2, <3>3, PersistRegress DEF ApplyOutboundStatus
    <2>8. CASE msg' = msg
      BY <2>1, <2>8
    <2>9. ASSUME NEW w \in Workers, Send(w) PROVE msg' = msg
      BY <2>9 DEF Send, SendAccepted, SendRejected, SendUnknown, Respond
    <2>10. ASSUME NEW w \in Workers,
                  \/ \E a \in Attempts : ClaimNextOutbound(w, a)
                  \/ BindingConfirmed(w) \/ CancelClaimLost(w) \/ BindingUnavailable(w)
                  \/ StartOutboundDispatch(w) \/ StartClaimLost(w) \/ Crash(w)
           PROVE  msg' = msg
      BY <2>10 DEF ClaimNextOutbound, BindingConfirmed, CancelClaimLost,
                   BindingUnavailable, StartOutboundDispatch, StartClaimLost, Crash
    <2>11. ASSUME NEW a \in Attempts, LeaseElapses(a) PROVE msg' = msg
      BY <2>11 DEF LeaseElapses
    <2>12. CASE UNCHANGED vars
      BY <2>8, <2>12 DEF vars
    <2> HIDE DEF Kept
    <2> QED
      BY <2>1, <2>2, <2>3, <2>4, <2>5, <2>6, <2>7, <2>8, <2>9, <2>10, <2>11, <2>12
      DEF Next, AgentStep, WorkerStep, SendBinding, StartStep
  <1>2. TypeOK /\ [Next]_vars => [Kept]_vars
    BY <1>1
  <1> QED
    BY <1>2, TypeCorrect, PTL DEF Spec, VisibleNeverRegresses

(***************************************************************************)
(* The visible message.                                                    *)
(*                                                                         *)
(* While nobody edits a message, all its attempts promise its text, so     *)
(* every result that is recorded reaches the message row (Matches).  A     *)
(* message that shows "queued" therefore has no attempt with progress, and *)
(* when only the latest attempt can still change, the message shows what   *)
(* that attempt knows.                                                     *)
(***************************************************************************)
Unedited(m) == msg[m].presence = "live" /\ ~msg[m].edited

\* An unedited message has the text of its attempts, and "queued" only while
\* none of them made progress.
Shown(m) ==
    Unedited(m) => \A b \in AttemptsOf(m) :
        /\ row[b].body = msg[m].content
        /\ msg[m].status = "queued" => Progress(row[b].status) = 0

ShownInvariant ==
    /\ \A a \in 1 .. made : msg[row[a].msg].presence # "absent"
    /\ \A m \in Messages : Shown(m)

\* A new attempt is the last of its message and touches no other.
LEMMA AppendAttempts ==
  ASSUME TypeOK, NEW m \in Messages, NEW body, Append1(m, body)
  PROVE  \E b \in Attempts :
           /\ b = made + 1 /\ made' = b /\ b \in Nat
           /\ row'[b] = Intent(m, body)
           /\ \A a \in Attempts : a # b => row'[a] = row[a]
           /\ \A n \in Messages : n # m => AttemptsOf(n)' = AttemptsOf(n)
           /\ AttemptsOf(m)' = AttemptsOf(m) \cup {b}
           /\ \A n \in Messages : \A c \in AttemptsOf(n) :
                c \in Attempts /\ c < b /\ row'[c] = row[c]
  <1>1. PICK b \in Attempts : b = made + 1
    BY BoundsAssumption DEF Append1, TypeOK, Attempts
  <1>2. /\ made \in Nat /\ made' = b /\ b \in Nat
        /\ row' = [row EXCEPT ![b] = Intent(m, body)]
        /\ \A a \in 1 .. made : a \in Attempts /\ a # b /\ a < b
    BY <1>1, BoundsAssumption DEF Append1, TypeOK, Attempts
  <1>3. row'[b] = Intent(m, body) /\ \A a \in Attempts : a # b => row'[a] = row[a]
    BY <1>2 DEF TypeOK
  <1>4. Intent(m, body).msg = m
    BY DEF Intent, NoRow
  <1>5. \A a : a \in 1 .. made' <=> a \in 1 .. made \/ a = b
    BY <1>1, <1>2
  <1>6. AttemptsOf(m)' = AttemptsOf(m) \cup {b}
    BY <1>2, <1>3, <1>4, <1>5 DEF AttemptsOf
  <1>7. \A n \in Messages : n # m => AttemptsOf(n)' = AttemptsOf(n)
    BY <1>2, <1>3, <1>4, <1>5 DEF AttemptsOf
  <1>8. \A n \in Messages : \A c \in AttemptsOf(n) :
          c \in Attempts /\ c < b /\ row'[c] = row[c]
    BY <1>2, <1>3 DEF AttemptsOf
  <1> QED
    BY <1>1, <1>2, <1>3, <1>6, <1>7, <1>8

\* What a recorded result does to the message of the attempt and to no other.
LEMMA ResultMessage ==
  ASSUME TypeOK, NEW a \in 1 .. made, NEW id \in Nat, NEW status \in Statuses,
         NEW retrySafe \in BOOLEAN, NEW evidence \in BOOLEAN,
         PersistOutboundResult(a, id, status, retrySafe, evidence)
  PROVE  /\ row[a].msg \in Messages
         /\ msg'[row[a].msg] = Visible(msg[row[a].msg], row'[a], Superseded(a))
         /\ \A n \in Messages : n # row[a].msg => msg'[n] = msg[n]
         /\ \A n \in Messages : /\ msg'[n].presence = msg[n].presence
                                /\ msg'[n].content = msg[n].content
                                /\ msg'[n].edited = msg[n].edited
  <1> DEFINE s == Settled(row[a], id, status, retrySafe, evidence)
  <1>1. a \in Attempts /\ row[a] \in AttemptRow /\ row'[a].msg = row[a].msg
    BY ResultRow
  <1>2. row[a].msg \in Messages
    BY <1>1 DEF AttemptRow
  <1>3. /\ row' = [row EXCEPT ![a] = s]
        /\ msg' = [msg EXCEPT ![s.msg] = Visible(msg[s.msg], s, Superseded(a))]
    BY DEF PersistOutboundResult
  <1> HIDE DEF s
  <1>4. row'[a] = s
    BY <1>1, <1>3 DEF TypeOK
  <1>5. /\ msg'[row[a].msg] = Visible(msg[row[a].msg], row'[a], Superseded(a))
        /\ \A n \in Messages : n # row[a].msg => msg'[n] = msg[n]
    BY <1>1, <1>2, <1>3, <1>4 DEF TypeOK
  <1>6. \A n \in Messages : /\ msg'[n].presence = msg[n].presence
                            /\ msg'[n].content = msg[n].content
                            /\ msg'[n].edited = msg[n].edited
    BY PersistEffect
  <1> QED
    BY <1>2, <1>5, <1>6

\* A result never puts an attempt back to "queued".
LEMMA ResultNotQueued ==
  ASSUME NEW r \in AttemptRow, NEW status \in Statuses, status # "queued",
         NEW evidence \in BOOLEAN
  PROVE  Merged(r, status, evidence) # "queued"
  <1>1. r.status \in Statuses
    BY DEF AttemptRow
  <1>2. MergeStatus(r.status, status) # "queued"
    BY <1>1, ProgressValues DEF MergeStatus
  <1> QED
    BY <1>2 DEF Merged

\* A message that shows "queued" after a result that it took notice of showed it
\* before, and the result is no progress.
LEMMA QueuedUndisturbed ==
  ASSUME NEW message \in MessageRow, NEW r \in AttemptRow, r.status # "queued",
         NEW superseded \in BOOLEAN, Matches(message, r),
         NEW v, v = Visible(message, r, superseded), v.status = "queued"
  PROVE  message.status = "queued" /\ Progress(r.status) = 0
  <1> DEFINE shown == IF /\ r.failureObserved
                         /\ r.status = "failed"
                         /\ Progress(message.status) < 2
                      THEN "failed"
                      ELSE MergeStatus(message.status, r.status)
             flag == /\ IF superseded THEN message.deliveryFailed
                                      ELSE r.failureObserved
                     /\ Progress(shown) < 3
  <1>1. shown # "queued"
    <2>1. MergeStatus(message.status, r.status) # "queued"
      BY ProgressValues DEF MergeStatus
    <2> QED
      BY <2>1
  <1>2. \/ v = message /\ Progress(r.status) = 0
        \/ v = [message EXCEPT !.status = shown, !.deliveryFailed = flag]
    BY DEF Visible
  <1> HIDE DEF shown, flag
  <1>3. v # [message EXCEPT !.status = shown, !.deliveryFailed = flag]
    BY <1>1 DEF MessageRow
  <1> QED
    BY <1>2, <1>3

\* A message in step with its latest attempt stays in step with it.
LEMMA VisibleFollows ==
  ASSUME NEW message \in MessageRow, NEW r \in AttemptRow, NEW s \in AttemptRow,
         NEW status \in Statuses, NEW evidence \in BOOLEAN,
         s.status = Merged(r, status, evidence),
         s.failureObserved = FailureFlag(r, status, evidence),
         message.status = r.status, Matches(message, s),
         NEW superseded \in BOOLEAN, ~superseded,
         NEW v, v = Visible(message, s, superseded)
  PROVE  v.status = s.status /\ v.deliveryFailed = s.failureObserved
  <1> DEFINE shown == IF /\ s.failureObserved
                         /\ s.status = "failed"
                         /\ Progress(message.status) < 2
                      THEN "failed"
                      ELSE MergeStatus(message.status, s.status)
             flag == s.failureObserved /\ Progress(shown) < 3
  <1>1. s.failureObserved \in BOOLEAN /\ r.failureObserved \in BOOLEAN
    BY DEF AttemptRow
  <1>2. r.status \in Statuses /\ message.status = r.status
    BY DEF AttemptRow
  <1>3. Progress(r.status) \in 0 .. 4 /\ Progress(status) \in 0 .. 4 /\ Progress("failed") = 0
    BY ProgressRange, ProgressValues
  <1>4. shown = s.status
    <2>1. CASE /\ evidence /\ status = "failed" /\ Progress(r.status) < 2
      <3>1. s.status = "failed"
        BY <2>1 DEF Merged
      <3>2. FailureFlag(r, status, evidence)
        <4>1. Progress(r.status) < 3
          BY <1>3, <2>1
        <4>2. Merged(r, status, evidence) = "failed"
          BY <3>1
        <4>3. Progress(Merged(r, status, evidence)) < 3
          BY <1>3, <4>2
        <4> QED
          BY <2>1, <4>1, <4>3 DEF FailureFlag
      <3>3. s.failureObserved
        BY <3>2
      <3> QED
        BY <1>2, <2>1, <3>1, <3>3
    <2>2. CASE /\ r.failureObserved /\ r.status = "failed"
               /\ status = "provider_accepted"
      <3>1. s.status = "failed"
        BY <2>2 DEF Merged
      <3>2. s.failureObserved
        BY <1>1, <1>3, <2>2, <3>1 DEF FailureFlag
      <3> QED
        BY <1>2, <1>3, <2>2, <3>1, <3>2
    <2>3. CASE s.status = MergeStatus(r.status, status)
      <3>1. MergeStatus(r.status, s.status) = s.status
        BY <1>3, <2>3 DEF MergeStatus
      <3> QED
        BY <1>2, <3>1
    <2> QED
      BY <2>1, <2>2, <2>3 DEF Merged
  <1>5. flag = s.failureObserved
    <2>1. s.failureObserved => Progress(s.status) < 3
      BY <1>1 DEF FailureFlag
    <2> QED
      BY <1>1, <1>4, <2>1
  <1>6. v = [message EXCEPT !.status = shown, !.deliveryFailed = flag]
    BY DEF Visible
  <1> HIDE DEF shown, flag
  <1>7. v.status = shown /\ v.deliveryFailed = flag
    BY <1>6 DEF MessageRow
  <1> QED
    BY <1>4, <1>5, <1>7

\* Before the first attempt there is nothing to show.
LEMMA ShownInit == Init => ShownInvariant
  <1> SUFFICES ASSUME Init PROVE ShownInvariant
    OBVIOUS
  <1>1. 1 .. made = {}
    BY DEF Init
  <1> QED
    BY <1>1 DEF ShownInvariant, Shown, AttemptsOf

\* A step that leaves messages, texts and statuses alone.
LEMMA QuietShown ==
  ASSUME ShownInvariant, UNCHANGED <<msg, made>>,
         \A c \in 1 .. made : /\ row'[c].msg = row[c].msg
                              /\ row'[c].body = row[c].body
                              /\ row'[c].status = row[c].status
  PROVE  ShownInvariant'
  <1>1. \A n : AttemptsOf(n)' = AttemptsOf(n)
    BY SameAttempts
  <1>2. \A a \in 1 .. made : msg'[row'[a].msg].presence # "absent"
    BY DEF ShownInvariant
  <1>3. ASSUME NEW m \in Messages PROVE Shown(m)'
    BY <1>1 DEF ShownInvariant, Shown, Unedited, AttemptsOf
  <1> QED
    BY <1>2, <1>3 DEF ShownInvariant

\* Edits, deletion and cleanup take a message out of the relation.
LEMMA EditShown ==
  ASSUME TypeOK, ShownInvariant, NEW m \in Messages,
         UNCHANGED <<made, row>>,
         \A n \in Messages : n # m => msg'[n] = msg[n],
         msg'[m].presence # "absent", ~Unedited(m)'
  PROVE  ShownInvariant'
  <1>1. \A n : AttemptsOf(n)' = AttemptsOf(n)
    BY SameAttempts
  <1>2. ASSUME NEW a \in 1 .. made PROVE msg'[row'[a].msg].presence # "absent"
    <2>1. row[a].msg \in Messages
      BY BoundsAssumption DEF TypeOK, Attempts, AttemptRow
    <2> QED
      BY <2>1 DEF ShownInvariant
  <1>3. ASSUME NEW n \in Messages PROVE Shown(n)'
    <2>1. CASE n = m
      BY <2>1 DEF Shown
    <2>2. CASE n # m
      BY <1>1, <2>2 DEF ShownInvariant, Shown, Unedited
    <2> QED
      BY <2>1, <2>2
  <1> QED
    BY <1>2, <1>3 DEF ShownInvariant

\* A new attempt that promises the message's text.
LEMMA AppendShown ==
  ASSUME TypeOK, ShownInvariant, NEW m \in Messages, NEW body, Append1(m, body),
         \A n \in Messages : n # m => msg'[n] = msg[n],
         msg'[m].presence = "live", msg'[m].content = body,
         \A c \in AttemptsOf(m) :
            Unedited(m)' => row[c].body = body /\ Progress(row[c].status) = 0
  PROVE  ShownInvariant'
  <1>1. PICK b \in Attempts :
           /\ b = made + 1 /\ made' = b /\ b \in Nat
           /\ row'[b] = Intent(m, body)
           /\ \A a \in Attempts : a # b => row'[a] = row[a]
           /\ \A n \in Messages : n # m => AttemptsOf(n)' = AttemptsOf(n)
           /\ AttemptsOf(m)' = AttemptsOf(m) \cup {b}
           /\ \A n \in Messages : \A c \in AttemptsOf(n) :
                c \in Attempts /\ c < b /\ row'[c] = row[c]
    BY AppendAttempts
  <1>2. /\ Intent(m, body).msg = m /\ Intent(m, body).body = body
        /\ Progress(Intent(m, body).status) = 0
    BY ProgressValues DEF Intent, NoRow
  <1>3. ASSUME NEW a \in 1 .. made' PROVE msg'[row'[a].msg].presence # "absent"
    <2>1. CASE a = b
      BY <1>1, <1>2, <2>1
    <2>2. CASE a # b
      <3>1. a \in 1 .. made /\ a \in Attempts
        BY <1>1, <2>2, BoundsAssumption DEF TypeOK, Attempts
      <3>2. row[a].msg \in Messages /\ row'[a] = row[a]
        BY <1>1, <2>2, <3>1 DEF TypeOK, AttemptRow
      <3> QED
        BY <3>1, <3>2 DEF ShownInvariant
    <2> QED
      BY <2>1, <2>2
  <1>4. Shown(m)'
    <2>1. ASSUME Unedited(m)', NEW c \in AttemptsOf(m)'
          PROVE  row'[c].body = msg'[m].content /\ Progress(row'[c].status) = 0
      <3>1. CASE c = b
        BY <1>1, <1>2, <3>1
      <3>2. CASE c \in AttemptsOf(m)
        BY <1>1, <2>1, <3>2
      <3> QED
        BY <1>1, <2>1, <3>1, <3>2
    <2> QED
      BY <2>1 DEF Shown
  <1>5. ASSUME NEW n \in Messages, n # m PROVE Shown(n)'
    <2>1. /\ AttemptsOf(n)' = AttemptsOf(n) /\ msg'[n] = msg[n]
          /\ \A c \in AttemptsOf(n) : row'[c] = row[c]
      BY <1>1, <1>5
    <2> QED
      BY <2>1 DEF ShownInvariant, Shown, Unedited
  <1> QED
    BY <1>3, <1>4, <1>5 DEF ShownInvariant

\* A result reaches the message, and leaves "queued" only when it is no progress.
LEMMA PersistShown ==
  ASSUME TypeOK, ShownInvariant, NEW a \in 1 .. made, NEW id \in Nat,
         NEW status \in Statuses, status # "queued",
         NEW retrySafe \in BOOLEAN, NEW evidence \in BOOLEAN,
         PersistOutboundResult(a, id, status, retrySafe, evidence), made' = made
  PROVE  ShownInvariant'
  <1>1. /\ a \in Attempts /\ row[a] \in AttemptRow /\ row'[a] \in AttemptRow
        /\ row'[a].msg = row[a].msg /\ row'[a].body = row[a].body
        /\ row'[a].status = Merged(row[a], status, evidence)
        /\ \A b \in Attempts : b # a => row'[b] = row[b]
    BY ResultRow
  <1>2. /\ row[a].msg \in Messages
        /\ msg'[row[a].msg] = Visible(msg[row[a].msg], row'[a], Superseded(a))
        /\ \A n \in Messages : n # row[a].msg => msg'[n] = msg[n]
        /\ \A n \in Messages : /\ msg'[n].presence = msg[n].presence
                               /\ msg'[n].content = msg[n].content
                               /\ msg'[n].edited = msg[n].edited
    BY ResultMessage
  <1>3. row'[a].status # "queued"
    BY <1>1, ResultNotQueued
  <1>9. \A c \in 1 .. made : c \in Attempts /\ row[c].msg \in Messages
    BY BoundsAssumption DEF TypeOK, Attempts, AttemptRow
  <1>4. \A c \in 1 .. made : /\ c \in Attempts /\ row[c].msg \in Messages
                             /\ row'[c].msg = row[c].msg /\ row'[c].body = row[c].body
    BY <1>1, <1>9
  <1>5. \A n : AttemptsOf(n)' = AttemptsOf(n)
    BY <1>4, SameAttempts
  <1>6. \A c \in 1 .. made : msg'[row'[c].msg].presence # "absent"
    BY <1>2, <1>4 DEF ShownInvariant
  <1>7. ASSUME NEW m \in Messages, m = row[a].msg PROVE Shown(m)'
    <2> SUFFICES ASSUME Unedited(m)', NEW c \in AttemptsOf(m)
                 PROVE  /\ row'[c].body = msg'[m].content
                        /\ msg'[m].status = "queued" => Progress(row'[c].status) = 0
      BY <1>5 DEF Shown
    <2>1. Unedited(m) /\ c \in 1 .. made /\ a \in AttemptsOf(m)
      BY <1>2, <1>7 DEF Unedited, AttemptsOf
    <2>2. /\ row[c].body = msg[m].content /\ row[a].body = msg[m].content
          /\ msg[m].status = "queued" => Progress(row[c].status) = 0
      BY <2>1 DEF ShownInvariant, Shown
    <2>3. Matches(msg[m], row'[a])
      BY <1>1, <2>1, <2>2 DEF Matches, Unedited
    <2>4. Superseded(a) \in BOOLEAN /\ msg[m] \in MessageRow
      BY DEF Superseded, TypeOK
    <2>5. ASSUME msg'[m].status = "queued"
          PROVE  msg[m].status = "queued" /\ Progress(row'[a].status) = 0
      BY <1>1, <1>2, <1>3, <1>7, <2>3, <2>4, <2>5, QueuedUndisturbed
    <2>6. row'[c].body = msg'[m].content
      BY <1>2, <1>4, <2>1, <2>2
    <2>7. ASSUME msg'[m].status = "queued" PROVE Progress(row'[c].status) = 0
      <3>1. CASE c = a
        BY <2>5, <2>7, <3>1
      <3>2. CASE c # a
        BY <1>1, <1>4, <2>1, <2>2, <2>5, <2>7, <3>2
      <3> QED
        BY <3>1, <3>2
    <2> QED
      BY <2>6, <2>7
  <1>8. ASSUME NEW n \in Messages, n # row[a].msg PROVE Shown(n)'
    <2>1. /\ AttemptsOf(n)' = AttemptsOf(n) /\ msg'[n] = msg[n]
          /\ \A c \in AttemptsOf(n) : row'[c] = row[c]
      BY <1>1, <1>2, <1>4, <1>5, <1>8 DEF AttemptsOf
    <2> QED
      BY <2>1 DEF ShownInvariant, Shown, Unedited
  <1> QED
    BY <1>6, <1>7, <1>8 DEF ShownInvariant

\* An attempt that is safe to repeat made no progress and reported no failure.
LEMMA SafeIsSilent ==
  ASSUME EvidenceInvariant, NEW a \in Attempts, row[a].retrySafe
  PROVE  Progress(row[a].status) = 0 /\ ~row[a].failureObserved
  BY DEF EvidenceInvariant, Tells

\* What a retry finds: every attempt of the message is safe.
LEMMA RetryEffect ==
  ASSUME TypeOK, EvidenceInvariant, NEW m \in Messages, RetryOutboundMessage(m)
  PROVE  /\ Append1(m, msg[m].content)
         /\ msg[m].presence = "live"
         /\ msg'[m].presence = "live" /\ msg'[m].content = msg[m].content
         /\ msg'[m].status = "queued" /\ msg'[m].edited = msg[m].edited
         /\ msg'[m].deliveryFailed = msg[m].deliveryFailed
         /\ \A n \in Messages : n # m => msg'[n] = msg[n]
         /\ \A c \in AttemptsOf(m) :
              c \in Attempts /\ Progress(row[c].status) = 0 /\ ~row[c].failureObserved
  <1>1. \A c \in AttemptsOf(m) : c \in Attempts
    BY BoundsAssumption DEF TypeOK, Attempts, AttemptsOf
  <1>2. \A c \in AttemptsOf(m) : row[c].retrySafe
    BY DEF RetryOutboundMessage, Retryable
  <1> DEFINE v == [msg[m] EXCEPT !.status = "queued"]
  <1>3. /\ Append1(m, msg[m].content) /\ msg[m].presence = "live"
        /\ msg' = [msg EXCEPT ![m] = v]
    BY DEF RetryOutboundMessage, TypeOK
  <1>4. /\ v.status = "queued" /\ v.presence = msg[m].presence
        /\ v.content = msg[m].content /\ v.edited = msg[m].edited
        /\ v.deliveryFailed = msg[m].deliveryFailed
    BY DEF TypeOK, MessageRow
  <1> HIDE DEF v
  <1>5. msg'[m] = v /\ \A n \in Messages : n # m => msg'[n] = msg[n]
    BY <1>3 DEF TypeOK
  <1> QED
    BY <1>1, <1>2, <1>3, <1>4, <1>5, SafeIsSilent

\* What creating a message writes.
LEMMA CreateEffect ==
  ASSUME TypeOK, NEW m \in Messages, NEW body, CreateOutboundMessage(m, body)
  PROVE  /\ Append1(m, body)
         /\ msg[m].presence = "absent"
         /\ msg'[m].presence = "live" /\ msg'[m].content = body
         /\ msg'[m].status = msg[m].status
         /\ msg'[m].deliveryFailed = msg[m].deliveryFailed
         /\ \A n \in Messages : n # m => msg'[n] = msg[n]
  <1> DEFINE v == [msg[m] EXCEPT !.presence = "live", !.content = body]
  <1>1. /\ Append1(m, body) /\ msg[m].presence = "absent"
        /\ msg' = [msg EXCEPT ![m] = v]
    BY DEF CreateOutboundMessage, TypeOK
  <1>2. /\ v.presence = "live" /\ v.content = body /\ v.status = msg[m].status
        /\ v.deliveryFailed = msg[m].deliveryFailed
    BY DEF TypeOK, MessageRow
  <1> HIDE DEF v
  <1>3. msg'[m] = v /\ \A n \in Messages : n # m => msg'[n] = msg[n]
    BY <1>1 DEF TypeOK
  <1> QED
    BY <1>1, <1>2, <1>3

\* What an edit, a deletion or a cleanup writes.
LEMMA EditEffect ==
  ASSUME TypeOK, NEW m \in Messages,
         \/ \E body \in Bodies : UpdateContent(m, body)
         \/ DeleteMessage(m) \/ CleanupConversation(m)
  PROVE  /\ UNCHANGED <<made, row, copies>>
         /\ msg'[m].presence # "absent" /\ ~Unedited(m)'
         /\ \A n \in Messages : n # m => msg'[n] = msg[n]
  <1>1. UNCHANGED <<made, row, copies>> /\ msg[m] \in MessageRow
    BY DEF UpdateContent, DeleteMessage, CleanupConversation, TypeOK
  <1>2. ASSUME NEW body \in Bodies, UpdateContent(m, body)
        PROVE  /\ msg'[m].presence # "absent" /\ ~Unedited(m)'
               /\ \A n \in Messages : n # m => msg'[n] = msg[n]
    BY <1>1, <1>2 DEF UpdateContent, Unedited, TypeOK, MessageRow
  <1>3. ASSUME DeleteMessage(m) \/ CleanupConversation(m)
        PROVE  /\ msg'[m].presence # "absent" /\ ~Unedited(m)'
               /\ \A n \in Messages : n # m => msg'[n] = msg[n]
    BY <1>1, <1>3 DEF DeleteMessage, CleanupConversation, Unedited, TypeOK, MessageRow
  <1> QED
    BY <1>1, <1>2, <1>3

\* Claiming and starting an attempt leave its text, message and status alone.
LEMMA HoldEffect ==
  ASSUME TypeOK, NEW w \in Workers,
         (\E a \in Attempts : ClaimNextOutbound(w, a)) \/ StartOutboundDispatch(w)
  PROVE  /\ UNCHANGED <<msg, made>>
         /\ \A c \in 1 .. made : /\ row'[c].msg = row[c].msg
                                 /\ row'[c].body = row[c].body
                                 /\ row'[c].status = row[c].status
                                 /\ row'[c].failureObserved = row[c].failureObserved
  <1>1. \A c \in 1 .. made : c \in Attempts /\ row[c] \in AttemptRow
    BY BoundsAssumption DEF TypeOK, Attempts
  <1>2. ASSUME NEW a \in Attempts, ClaimNextOutbound(w, a)
        PROVE  /\ UNCHANGED <<msg, made>>
               /\ \A c \in 1 .. made :
                    \/ row'[c] = row[c]
                    \/ row'[c] = [row[c] EXCEPT !.state = "claimed", !.token = w]
    BY <1>1, <1>2 DEF ClaimNextOutbound, TypeOK
  <1>3. ASSUME StartOutboundDispatch(w)
        PROVE  /\ UNCHANGED <<msg, made>>
               /\ \A c \in 1 .. made :
                    \/ row'[c] = row[c]
                    \/ row'[c] = [row[c] EXCEPT !.state = "sending", !.started = TRUE]
    BY <1>1, <1>3 DEF StartOutboundDispatch, TypeOK
  <1>4. /\ UNCHANGED <<msg, made>>
        /\ \A c \in 1 .. made :
             \/ row'[c] = row[c]
             \/ row'[c] = [row[c] EXCEPT !.state = "claimed", !.token = w]
             \/ row'[c] = [row[c] EXCEPT !.state = "sending", !.started = TRUE]
    BY <1>2, <1>3
  <1> QED
    BY <1>1, <1>4 DEF AttemptRow

\* The status a posted worker carries is a provider's or an answer's.
LEMMA CarriedStatus ==
  ASSUME TypeOK, EvidenceInvariant, NEW w \in Workers, worker[w].pc = "posted"
  PROVE  worker[w].status # "queued"
  BY DEF TypeOK, EvidenceInvariant, AnswerShape, Evidence

\* Every step keeps the invariant.
LEMMA ShownStep ==
  TypeOK /\ EvidenceInvariant /\ ShownInvariant /\ [Next]_vars => ShownInvariant'
  <1> SUFFICES ASSUME TypeOK, EvidenceInvariant, ShownInvariant, [Next]_vars
               PROVE  ShownInvariant'
    OBVIOUS
  <1>1. ASSUME UNCHANGED <<msg, made, row>> PROVE ShownInvariant'
    BY <1>1, QuietShown
  <1>2. ASSUME NEW m \in Messages, NEW body \in Bodies, CreateOutboundMessage(m, body)
        PROVE  ShownInvariant'
    <2>1. /\ Append1(m, body) /\ msg[m].presence = "absent"
          /\ msg'[m].presence = "live" /\ msg'[m].content = body
          /\ \A n \in Messages : n # m => msg'[n] = msg[n]
      BY <1>2, CreateEffect
    <2>2. AttemptsOf(m) = {}
      BY <2>1 DEF ShownInvariant, AttemptsOf
    <2> QED
      BY <2>1, <2>2, AppendShown
  <1>3. ASSUME NEW m \in Messages, RetryOutboundMessage(m)
        PROVE  ShownInvariant'
    <2>1. /\ Append1(m, msg[m].content) /\ msg[m].presence = "live"
          /\ msg'[m].presence = "live" /\ msg'[m].content = msg[m].content
          /\ msg'[m].edited = msg[m].edited
          /\ \A n \in Messages : n # m => msg'[n] = msg[n]
          /\ \A c \in AttemptsOf(m) : Progress(row[c].status) = 0
      BY <1>3, RetryEffect
    <2>2. \A c \in AttemptsOf(m) : Unedited(m)' => row[c].body = msg[m].content
      BY <2>1 DEF ShownInvariant, Shown, Unedited
    <2> QED
      BY <2>1, <2>2, AppendShown
  <1>4. ASSUME NEW m \in Messages,
               \/ \E body \in Bodies : UpdateContent(m, body)
               \/ DeleteMessage(m) \/ CleanupConversation(m)
        PROVE  ShownInvariant'
    BY <1>4, EditEffect, EditShown
  <1>5. ASSUME NEW w \in Workers, NEW a \in Attempts, ExpireOutboundDispatches(w, a)
        PROVE  ShownInvariant'
    <2>1. a \in 1 .. made
      BY <1>5, PresentRow DEF ExpireOutboundDispatches
    <2>2. NoId \in Nat /\ "unknown" \in Statuses /\ "unknown" # "queued"
      BY DEF NoId, Statuses
    <2> QED
      BY <1>5, <2>1, <2>2, PersistShown DEF ExpireOutboundDispatches
  <1>6. ASSUME NEW w \in Workers,
               (\E a \in Attempts : ClaimNextOutbound(w, a)) \/ StartOutboundDispatch(w)
        PROVE  ShownInvariant'
    BY <1>6, HoldEffect, QuietShown
  <1>7. ASSUME NEW w \in Workers, CancelClaimedOutbound(w) \/ StartCancelled(w)
        PROVE  ShownInvariant'
    <2>1. /\ worker[w].attempt \in 1 .. made
          /\ PersistOutboundResult(worker[w].attempt, NoId, "cancelled", FALSE, FALSE)
          /\ made' = made
      BY <1>7 DEF CancelClaimedOutbound, StartCancelled, TypeOK
    <2>2. NoId \in Nat /\ "cancelled" \in Statuses /\ "cancelled" # "queued"
      BY DEF NoId, Statuses
    <2> QED
      BY <2>1, <2>2, PersistShown
  <1>8. ASSUME NEW w \in Workers, CompleteOutboundDispatch(w)
        PROVE  ShownInvariant'
    <2>1. /\ worker[w].attempt \in 1 .. made /\ worker[w].pc = "posted"
          /\ made' = made /\ worker[w].id \in Nat
          /\ worker[w].status \in Statuses /\ FirstRejection(w) \in BOOLEAN
      BY <1>8, CompleteEffect
    <2>2. worker[w].status # "queued"
      BY <2>1, CarriedStatus
    <2>3. CASE UNCHANGED <<msg, row>>
      BY <1>1, <2>1, <2>3
    <2>4. ASSUME NEW evidence \in BOOLEAN,
                 PersistOutboundResult(worker[w].attempt, worker[w].id, worker[w].status,
                                       FirstRejection(w), evidence)
          PROVE  ShownInvariant'
      BY <2>1, <2>2, <2>4, PersistShown
    <2> QED
      BY <1>8, <2>3, <2>4, CompleteEffect
  <1>9. ASSUME NEW a \in Attempts, StatusStep(a)
        PROVE  ShownInvariant'
    <2>1. PICK id \in 1 .. copies[a], status \in CallbackStatuses :
            ApplyOutboundStatus(a, id, status)
      BY <1>9 DEF StatusStep
    <2>2. a \in 1 .. made
      BY <2>1, PresentRow DEF ApplyOutboundStatus, Recordable
    <2>3. id \in Nat /\ status \in Statuses /\ status # "queued"
      BY <2>1 DEF TypeOK, CallbackStatuses, Evidence, Statuses
    <2> QED
      BY <2>1, <2>2, <2>3, PersistShown DEF ApplyOutboundStatus
  <1>10. ASSUME NEW w \in Workers,
                \/ BindingConfirmed(w) \/ CancelClaimLost(w) \/ BindingUnavailable(w)
                \/ StartClaimLost(w) \/ Send(w) \/ Crash(w)
         PROVE  UNCHANGED <<msg, made, row>>
    BY <1>10 DEF BindingConfirmed, CancelClaimLost, BindingUnavailable, StartClaimLost,
                 Send, SendAccepted, SendRejected, SendUnknown, Respond, Crash
  <1>11. ASSUME NEW a \in Attempts, LeaseElapses(a)
         PROVE  UNCHANGED <<msg, made, row>>
    BY <1>11 DEF LeaseElapses
  <1>12. CASE UNCHANGED vars
    BY <1>1, <1>12 DEF vars
  <1> QED
    BY <1>1, <1>2, <1>3, <1>4, <1>5, <1>6, <1>7, <1>8, <1>9, <1>10, <1>11, <1>12
    DEF Next, AgentStep, WorkerStep, SendBinding, StartStep

\* The invariant holds whatever a rejection by the provider means.
LEMMA ShownCorrect == Spec => [](EvidenceInvariant /\ ShownInvariant)
  BY TypeCorrect, DispatchCorrect, EvidenceInit, EvidenceStep, ShownInit, ShownStep, PTL
  DEF Spec

\* Only StartOutboundDispatch starts an attempt.
LEMMA StartedBy ==
  ASSUME TypeOK, [Next]_vars, NEW a \in Attempts, ~row[a].started, row'[a].started
  PROVE  \E w \in Workers : StartOutboundDispatch(w) /\ worker[w].attempt = a
  <1>1. ASSUME NEW m \in Messages, NEW body, Append1(m, body) PROVE FALSE
    <2>1. ~Intent(m, body).started
      BY DEF Intent, NoRow
    <2> QED
      BY <1>1, <2>1, AppendAttempts
  <1>2. ASSUME NEW c \in 1 .. made, NEW id \in Nat, NEW status \in Statuses,
               NEW retrySafe \in BOOLEAN, NEW evidence \in BOOLEAN,
               PersistOutboundResult(c, id, status, retrySafe, evidence)
        PROVE  FALSE
    <2>1. /\ row'[c].started = row[c].started
          /\ \A b \in Attempts : b # c => row'[b] = row[b]
      BY <1>2, ResultRow
    <2> QED
      BY <2>1
  <1>3. ASSUME NEW m \in Messages, AgentStep(m) PROVE FALSE
    <2>1. CASE row' = row
      BY <2>1
    <2> QED
      BY <1>1, <1>3, <2>1
      DEF AgentStep, CreateOutboundMessage, RetryOutboundMessage, UpdateContent,
          DeleteMessage, CleanupConversation
  <1>4. ASSUME NEW w \in Workers, NEW c \in Attempts, ExpireOutboundDispatches(w, c)
        PROVE  FALSE
    <2>1. c \in 1 .. made
      BY <1>4, PresentRow DEF ExpireOutboundDispatches
    <2>2. NoId \in Nat /\ "unknown" \in Statuses
      BY DEF NoId, Statuses
    <2> QED
      BY <1>2, <1>4, <2>1, <2>2 DEF ExpireOutboundDispatches
  <1>5. ASSUME NEW w \in Workers, NEW c \in Attempts, ClaimNextOutbound(w, c)
        PROVE  FALSE
    <2>1. c \in 1 .. made
      BY <1>5, PresentRow DEF ClaimNextOutbound, Claimable
    <2>2. row[c] \in AttemptRow
      BY <2>1, BoundsAssumption DEF TypeOK, Attempts
    <2>3. row' = [row EXCEPT ![c] = [row[c] EXCEPT !.state = "claimed", !.token = w]]
      BY <1>5 DEF ClaimNextOutbound, TypeOK
    <2>4. [row[c] EXCEPT !.state = "claimed", !.token = w].started = row[c].started
      BY <2>2 DEF AttemptRow
    <2> QED
      BY <2>3, <2>4 DEF TypeOK
  <1>6. ASSUME NEW w \in Workers, CancelClaimedOutbound(w) \/ StartCancelled(w)
        PROVE  FALSE
    <2>1. /\ worker[w].attempt \in 1 .. made
          /\ PersistOutboundResult(worker[w].attempt, NoId, "cancelled", FALSE, FALSE)
      BY <1>6 DEF CancelClaimedOutbound, StartCancelled, TypeOK
    <2>2. NoId \in Nat /\ "cancelled" \in Statuses
      BY DEF NoId, Statuses
    <2> QED
      BY <1>2, <2>1, <2>2
  <1>7. ASSUME NEW w \in Workers, CompleteOutboundDispatch(w) PROVE FALSE
    <2>1. /\ worker[w].attempt \in 1 .. made
          /\ worker[w].id \in Nat /\ worker[w].status \in Statuses
          /\ FirstRejection(w) \in BOOLEAN
      BY <1>7, CompleteEffect
    <2> QED
      BY <1>2, <1>7, <2>1, CompleteEffect
  <1>8. ASSUME NEW c \in Attempts, LeaseElapses(c) \/ StatusStep(c) PROVE FALSE
    <2>1. CASE LeaseElapses(c)
      BY <2>1 DEF LeaseElapses
    <2>2. CASE StatusStep(c)
      <3>1. PICK id \in 1 .. copies[c], status \in CallbackStatuses :
              ApplyOutboundStatus(c, id, status)
        BY <2>2 DEF StatusStep
      <3>2. c \in 1 .. made
        BY <3>1, PresentRow DEF ApplyOutboundStatus, Recordable
      <3>3. id \in Nat /\ status \in Statuses
        BY <3>1 DEF TypeOK, CallbackStatuses, Evidence, Statuses
      <3> QED
        BY <1>2, <3>1, <3>2, <3>3 DEF ApplyOutboundStatus
    <2> QED
      BY <1>8, <2>1, <2>2
  <1>9. ASSUME NEW w \in Workers,
               \/ BindingConfirmed(w) \/ CancelClaimLost(w) \/ BindingUnavailable(w)
               \/ StartClaimLost(w) \/ Send(w) \/ Crash(w)
        PROVE  FALSE
    <2>1. row' = row
      BY <1>9 DEF BindingConfirmed, CancelClaimLost, BindingUnavailable, StartClaimLost,
                  Send, SendAccepted, SendRejected, SendUnknown, Respond, Crash
    <2> QED
      BY <2>1
  <1>10. ASSUME NEW w \in Workers, StartOutboundDispatch(w)
         PROVE  worker[w].attempt = a
    BY <1>10, StartEffect
  <1>11. CASE UNCHANGED vars
    BY <1>11 DEF vars
  <1> QED
    BY <1>3, <1>4, <1>5, <1>6, <1>7, <1>8, <1>9, <1>10, <1>11
    DEF Next, WorkerStep, SendBinding, StartStep

\* Once a report of delivery is on record for any attempt of an unedited message,
\* no further attempt of it starts, even when a rejection it believed was wrong
\* (checkOutboundRetry, status test in StartOutboundDispatch).
THEOREM ReportsStopResend == Spec => EvidenceStopsResend
  <1> DEFINE Stopped == \A a \in Attempts :
               /\ ~row[a].started
               /\ row'[a].started
               /\ ~msg[row[a].msg].edited
               => \A b \in AttemptsOf(row[a].msg) : Progress(row[b].status) = 0
  <1>1. TypeOK /\ ShownInvariant /\ [Next]_vars => Stopped
    <2> SUFFICES ASSUME TypeOK, ShownInvariant, [Next]_vars, NEW a \in Attempts,
                        ~row[a].started, row'[a].started, ~msg[row[a].msg].edited
                 PROVE  \A b \in AttemptsOf(row[a].msg) : Progress(row[b].status) = 0
      OBVIOUS
    <2>1. PICK w \in Workers : StartOutboundDispatch(w) /\ worker[w].attempt = a
      BY StartedBy
    <2>2. msg[row[a].msg].presence = "live" /\ msg[row[a].msg].status = "queued"
      BY <2>1 DEF StartOutboundDispatch, Startable, Matches
    <2>3. row[a].msg \in Messages
      <3>1. a \in 1 .. made
        BY <2>1 DEF StartOutboundDispatch, TypeOK
      <3> QED
        BY <3>1 DEF TypeOK, AttemptRow
    <2> QED
      BY <2>2, <2>3 DEF ShownInvariant, Shown, Unedited
  <1>2. TypeOK /\ ShownInvariant /\ [Next]_vars => [Stopped]_vars
    BY <1>1
  <1> QED
    BY <1>2, TypeCorrect, ShownCorrect, PTL DEF Spec, EvidenceStopsResend

\* A message nobody created is as the columns' defaults leave it; an unedited one
\* shows what its latest attempt knows.
LatestShown(m) ==
    /\ msg[m].presence = "absent" => msg[m].status = "queued" /\ ~msg[m].deliveryFailed
    /\ Unedited(m) => \E a :
          /\ IsLatest(m, a)
          /\ msg[m].status = row[a].status
          /\ msg[m].deliveryFailed = row[a].failureObserved

LatestInvariant == \A m \in Messages : LatestShown(m)

\* Before the first attempt no message was created.
LEMMA LatestInit == Init => LatestInvariant
  <1> SUFFICES ASSUME Init, NEW m \in Messages
               PROVE  LatestShown(m)
    BY DEF LatestInvariant
  <1>1. msg[m] = NoMessageRow
    BY DEF Init
  <1>2. msg[m].presence = "absent" /\ msg[m].status = "queued"
    BY <1>1 DEF NoMessageRow
  <1>3. ~msg[m].deliveryFailed
    BY <1>1 DEF NoMessageRow
  <1>4. ~Unedited(m)
    BY <1>2 DEF Unedited
  <1> QED
    BY <1>2, <1>3, <1>4 DEF LatestShown

\* A message whose row and attempts a step leaves alone, as far as they are shown.
LEMMA LatestKept ==
  ASSUME NEW m, LatestShown(m), msg'[m] = msg[m],
         AttemptsOf(m)' = AttemptsOf(m),
         \A c \in AttemptsOf(m) : /\ row'[c].status = row[c].status
                                  /\ row'[c].failureObserved = row[c].failureObserved
  PROVE  LatestShown(m)'
  <1>1. CASE ~Unedited(m)
    BY <1>1 DEF LatestShown, Unedited
  <1>2. CASE Unedited(m)
    <2>1. PICK a : /\ IsLatest(m, a)
                   /\ msg[m].status = row[a].status
                   /\ msg[m].deliveryFailed = row[a].failureObserved
      BY <1>2 DEF LatestShown
    <2>2. IsLatest(m, a)'
      BY <2>1 DEF IsLatest
    <2>3. row'[a].status = row[a].status /\ row'[a].failureObserved = row[a].failureObserved
      BY <2>1 DEF IsLatest
    <2>4. \E x : /\ IsLatest(m, x)'
                 /\ msg'[m].status = row'[x].status
                 /\ msg'[m].deliveryFailed = row'[x].failureObserved
      BY <2>1, <2>2, <2>3
    <2> QED
      BY <1>2, <2>4 DEF LatestShown, Unedited
  <1> QED
    BY <1>1, <1>2

\* A new attempt that the message shows as queued.
LEMMA AppendLatest ==
  ASSUME TypeOK, LatestInvariant, NEW m \in Messages, NEW body, Append1(m, body),
         \A n \in Messages : n # m => msg'[n] = msg[n],
         msg'[m].presence = "live",
         Unedited(m)' => msg'[m].status = "queued" /\ msg'[m].deliveryFailed = FALSE
  PROVE  LatestInvariant'
  <1>1. PICK b \in Attempts :
           /\ b = made + 1 /\ made' = b /\ b \in Nat
           /\ row'[b] = Intent(m, body)
           /\ \A a \in Attempts : a # b => row'[a] = row[a]
           /\ \A n \in Messages : n # m => AttemptsOf(n)' = AttemptsOf(n)
           /\ AttemptsOf(m)' = AttemptsOf(m) \cup {b}
           /\ \A n \in Messages : \A c \in AttemptsOf(n) :
                c \in Attempts /\ c < b /\ row'[c] = row[c]
    BY AppendAttempts
  <1>2. Intent(m, body).status = "queued" /\ Intent(m, body).failureObserved = FALSE
    BY DEF Intent, NoRow
  <1>3. IsLatest(m, b)'
    <2>1. \A c \in AttemptsOf(m) \cup {b} : c <= b
      <3>1. ASSUME NEW c \in AttemptsOf(m) PROVE c <= b
        <4>1. c \in Nat /\ c < b
          BY <1>1, <3>1 DEF AttemptsOf, TypeOK
        <4> QED
          BY <1>1, <4>1
      <3> QED
        BY <1>1, <3>1
    <2> QED
      BY <1>1, <2>1 DEF IsLatest
  <1>4. LatestShown(m)'
    BY <1>1, <1>2, <1>3 DEF LatestShown
  <1>5. ASSUME NEW n \in Messages, n # m PROVE LatestShown(n)'
    BY <1>1, <1>5, LatestKept DEF LatestInvariant
  <1> QED
    BY <1>4, <1>5 DEF LatestInvariant

\* A result on the latest attempt, the only one that can still get one, is shown.
LEMMA PersistLatest ==
  ASSUME TypeOK, SendInvariant, ShownInvariant, LatestInvariant,
         NEW a \in 1 .. made, ~Refused(a), NEW id \in Nat, NEW status \in Statuses,
         NEW retrySafe \in BOOLEAN, NEW evidence \in BOOLEAN,
         PersistOutboundResult(a, id, status, retrySafe, evidence), made' = made
  PROVE  LatestInvariant'
  <1>1. /\ a \in Attempts /\ row[a] \in AttemptRow /\ row'[a] \in AttemptRow
        /\ row'[a].msg = row[a].msg /\ row'[a].body = row[a].body
        /\ row'[a].status = Merged(row[a], status, evidence)
        /\ row'[a].failureObserved = FailureFlag(row[a], status, evidence)
        /\ \A b \in Attempts : b # a => row'[b] = row[b]
    BY ResultRow
  <1>2. /\ row[a].msg \in Messages
        /\ msg'[row[a].msg] = Visible(msg[row[a].msg], row'[a], Superseded(a))
        /\ \A n \in Messages : n # row[a].msg => msg'[n] = msg[n]
        /\ \A n \in Messages : /\ msg'[n].presence = msg[n].presence
                               /\ msg'[n].content = msg[n].content
                               /\ msg'[n].edited = msg[n].edited
    BY ResultMessage
  <1>3. \A c \in 1 .. made : c \in Attempts
    BY BoundsAssumption DEF TypeOK, Attempts
  <1>4. \A c \in 1 .. made : row'[c].msg = row[c].msg
    BY <1>1, <1>3
  <1>5. \A n : AttemptsOf(n)' = AttemptsOf(n)
    BY <1>4, SameAttempts
  <1>6. IsLatest(row[a].msg, a)
    BY LiveIsLatest
  <1>7. ~Superseded(a)
    <2>1. \A b \in AttemptsOf(row[a].msg) : b \in Nat /\ b <= a
      BY <1>6 DEF IsLatest, AttemptsOf, TypeOK
    <2>2. a \in Nat
      BY DEF TypeOK
    <2> QED
      BY <2>1, <2>2 DEF Superseded
  <1>8. ASSUME NEW m \in Messages, m = row[a].msg PROVE LatestShown(m)'
    <2>1. msg'[m].presence # "absent"
      BY <1>2, <1>8 DEF ShownInvariant
    <2>2. ASSUME Unedited(m)'
          PROVE  /\ IsLatest(m, a)'
                 /\ msg'[m].status = row'[a].status
                 /\ msg'[m].deliveryFailed = row'[a].failureObserved
      <3>1. Unedited(m)
        BY <1>2, <2>2 DEF Unedited
      <3>2. PICK x : IsLatest(m, x) /\ msg[m].status = row[x].status
        BY <3>1 DEF LatestInvariant, LatestShown
      <3>3. x = a
        <4>1. x \in Nat /\ a \in Nat /\ x <= a /\ a <= x
          BY <1>6, <1>8, <3>2 DEF IsLatest, AttemptsOf, TypeOK
        <4> QED
          BY <4>1
      <3>4. row[a].body = msg[m].content
        BY <1>6, <1>8, <3>1 DEF ShownInvariant, Shown, IsLatest
      <3>5. Matches(msg[m], row'[a])
        BY <1>1, <3>1, <3>4 DEF Matches, Unedited
      <3>6. msg[m] \in MessageRow /\ Superseded(a) \in BOOLEAN
        BY DEF TypeOK, Superseded
      <3>7. msg[m].status = row[a].status
        BY <3>2, <3>3
      <3>8. /\ msg'[m].status = row'[a].status
            /\ msg'[m].deliveryFailed = row'[a].failureObserved
        BY <1>1, <1>2, <1>7, <1>8, <3>5, <3>6, <3>7, VisibleFollows
      <3>9. IsLatest(m, a)'
        BY <1>5, <1>6, <1>8 DEF IsLatest
      <3> QED
        BY <3>8, <3>9
    <2> QED
      BY <2>1, <2>2 DEF LatestShown
  <1>9. ASSUME NEW n \in Messages, n # row[a].msg PROVE LatestShown(n)'
    <2>1. \A c \in AttemptsOf(n) : row'[c] = row[c]
      BY <1>1, <1>3, <1>9 DEF AttemptsOf
    <2> QED
      BY <1>2, <1>5, <1>9, <2>1, LatestKept DEF LatestInvariant
  <1> QED
    BY <1>8, <1>9 DEF LatestInvariant

\* Every step keeps the invariant.
LEMMA LatestStep ==
  TypeOK /\ SendInvariant /\ EvidenceInvariant /\ ShownInvariant /\ LatestInvariant
    /\ [Next]_vars => LatestInvariant'
  <1> SUFFICES ASSUME TypeOK, SendInvariant, EvidenceInvariant, ShownInvariant,
                      LatestInvariant, [Next]_vars
               PROVE  LatestInvariant'
    OBVIOUS
  <1>1. ASSUME UNCHANGED <<msg, made>>,
               \A c \in 1 .. made : /\ row'[c].msg = row[c].msg
                                    /\ row'[c].status = row[c].status
                                    /\ row'[c].failureObserved = row[c].failureObserved
        PROVE  LatestInvariant'
    <2>1. \A n : AttemptsOf(n)' = AttemptsOf(n)
      BY <1>1, SameAttempts
    <2>2. \A n : \A c \in AttemptsOf(n) : c \in 1 .. made
      BY DEF AttemptsOf
    <2>3. ASSUME NEW m \in Messages PROVE LatestShown(m)'
      BY <1>1, <2>1, <2>2, LatestKept DEF LatestInvariant
    <2> QED
      BY <2>3 DEF LatestInvariant
  <1>2. ASSUME NEW m \in Messages, NEW body \in Bodies, CreateOutboundMessage(m, body)
        PROVE  LatestInvariant'
    <2>1. /\ Append1(m, body) /\ msg[m].presence = "absent"
          /\ msg'[m].presence = "live" /\ msg'[m].status = msg[m].status
          /\ msg'[m].deliveryFailed = msg[m].deliveryFailed
          /\ \A n \in Messages : n # m => msg'[n] = msg[n]
      BY <1>2, CreateEffect
    <2>2. msg[m].status = "queued" /\ msg[m].deliveryFailed = FALSE
      BY <2>1 DEF LatestInvariant, LatestShown, TypeOK, MessageRow
    <2> QED
      BY <2>1, <2>2, AppendLatest
  <1>3. ASSUME NEW m \in Messages, RetryOutboundMessage(m)
        PROVE  LatestInvariant'
    <2>1. /\ Append1(m, msg[m].content) /\ msg[m].presence = "live"
          /\ msg'[m].presence = "live" /\ msg'[m].status = "queued"
          /\ msg'[m].edited = msg[m].edited
          /\ msg'[m].deliveryFailed = msg[m].deliveryFailed
          /\ \A n \in Messages : n # m => msg'[n] = msg[n]
          /\ \A c \in AttemptsOf(m) : c \in Attempts /\ ~row[c].failureObserved
      BY <1>3, RetryEffect
    <2>2. ASSUME Unedited(m)' PROVE msg[m].deliveryFailed = FALSE
      <3>1. Unedited(m)
        BY <2>1, <2>2 DEF Unedited
      <3>2. PICK a : IsLatest(m, a) /\ msg[m].deliveryFailed = row[a].failureObserved
        BY <3>1 DEF LatestInvariant, LatestShown
      <3>3. a \in AttemptsOf(m) /\ msg[m].deliveryFailed \in BOOLEAN
        BY <3>2 DEF IsLatest, TypeOK, MessageRow
      <3> QED
        BY <2>1, <3>2, <3>3
    <2> QED
      BY <2>1, <2>2, AppendLatest
  <1>4. ASSUME NEW m \in Messages,
               \/ \E body \in Bodies : UpdateContent(m, body)
               \/ DeleteMessage(m) \/ CleanupConversation(m)
        PROVE  LatestInvariant'
    <2>1. /\ UNCHANGED <<made, row>>
          /\ msg'[m].presence # "absent" /\ ~Unedited(m)'
          /\ \A n \in Messages : n # m => msg'[n] = msg[n]
      BY <1>4, EditEffect
    <2>2. \A n : AttemptsOf(n)' = AttemptsOf(n)
      BY <2>1, SameAttempts
    <2>3. LatestShown(m)'
      BY <2>1 DEF LatestShown
    <2>4. ASSUME NEW n \in Messages, n # m PROVE LatestShown(n)'
      BY <2>1, <2>2, <2>4, LatestKept DEF LatestInvariant
    <2> QED
      BY <2>3, <2>4 DEF LatestInvariant
  <1>5. ASSUME NEW w \in Workers, NEW a \in Attempts, ExpireOutboundDispatches(w, a)
        PROVE  LatestInvariant'
    <2>1. a \in 1 .. made /\ ~Refused(a)
      BY <1>5, PresentRow DEF ExpireOutboundDispatches, Refused
    <2>2. NoId \in Nat /\ "unknown" \in Statuses
      BY DEF NoId, Statuses
    <2> QED
      BY <1>5, <2>1, <2>2, PersistLatest DEF ExpireOutboundDispatches
  <1>6. ASSUME NEW w \in Workers,
               (\E a \in Attempts : ClaimNextOutbound(w, a)) \/ StartOutboundDispatch(w)
        PROVE  LatestInvariant'
    BY <1>1, <1>6, HoldEffect
  <1>7. ASSUME NEW w \in Workers, CancelClaimedOutbound(w) \/ StartCancelled(w)
        PROVE  LatestInvariant'
    <2>1. /\ worker[w].attempt \in 1 .. made /\ ~Refused(worker[w].attempt)
          /\ PersistOutboundResult(worker[w].attempt, NoId, "cancelled", FALSE, FALSE)
          /\ made' = made
      BY <1>7 DEF CancelClaimedOutbound, StartCancelled, TypeOK, ClaimHeld, Refused
    <2>2. NoId \in Nat /\ "cancelled" \in Statuses
      BY DEF NoId, Statuses
    <2> QED
      BY <2>1, <2>2, PersistLatest
  <1>8. ASSUME NEW w \in Workers, CompleteOutboundDispatch(w)
        PROVE  LatestInvariant'
    <2>1. /\ worker[w].attempt \in 1 .. made /\ worker[w].attempt \in Attempts
          /\ worker[w].pc = "posted"
          /\ made' = made /\ worker[w].id \in Nat
          /\ worker[w].status \in Statuses /\ FirstRejection(w) \in BOOLEAN
      BY <1>8, CompleteEffect
    <2>2. ~Refused(worker[w].attempt)
      BY <2>1 DEF Refused, Sends
    <2>3. CASE UNCHANGED <<msg, row>>
      BY <1>1, <2>1, <2>3
    <2>4. ASSUME NEW evidence \in BOOLEAN,
                 PersistOutboundResult(worker[w].attempt, worker[w].id, worker[w].status,
                                       FirstRejection(w), evidence)
          PROVE  LatestInvariant'
      BY <2>1, <2>2, <2>4, PersistLatest
    <2> QED
      BY <1>8, <2>3, <2>4, CompleteEffect
  <1>9. ASSUME NEW a \in Attempts, StatusStep(a)
        PROVE  LatestInvariant'
    <2>1. PICK id \in 1 .. copies[a], status \in CallbackStatuses :
            ApplyOutboundStatus(a, id, status)
      BY <1>9 DEF StatusStep
    <2>2. a \in 1 .. made
      BY <2>1, PresentRow DEF ApplyOutboundStatus, Recordable
    <2>3. id \in Nat /\ status \in Statuses /\ ~Refused(a)
      BY <2>1 DEF TypeOK, CallbackStatuses, Evidence, Statuses, Refused
    <2> QED
      BY <2>1, <2>2, <2>3, PersistLatest DEF ApplyOutboundStatus
  <1>10. ASSUME NEW w \in Workers,
                \/ BindingConfirmed(w) \/ CancelClaimLost(w) \/ BindingUnavailable(w)
                \/ StartClaimLost(w) \/ Send(w) \/ Crash(w)
         PROVE  UNCHANGED <<msg, made, row>>
    BY <1>10 DEF BindingConfirmed, CancelClaimLost, BindingUnavailable, StartClaimLost,
                 Send, SendAccepted, SendRejected, SendUnknown, Respond, Crash
  <1>11. ASSUME NEW a \in Attempts, LeaseElapses(a)
         PROVE  UNCHANGED <<msg, made, row>>
    BY <1>11 DEF LeaseElapses
  <1>12. ASSUME UNCHANGED <<msg, made, row>> PROVE LatestInvariant'
    BY <1>1, <1>12
  <1>13. CASE UNCHANGED vars
    BY <1>12, <1>13 DEF vars
  <1> QED
    BY <1>2, <1>3, <1>4, <1>5, <1>6, <1>7, <1>8, <1>9, <1>10, <1>11, <1>12, <1>13
    DEF Next, AgentStep, WorkerStep, SendBinding, StartStep

\* A message nobody edited or deleted shows what its latest attempt knows, failure
\* diagnostic included, through late answers, expired leases, callbacks and
\* retries, provided a rejected POST was never delivered (persistOutboundResult,
\* retryMessageAccepted).
THEOREM VisibleAlwaysAgrees == DefiniteRejections => (Spec => []VisibleAgrees)
  <1> SUFFICES ASSUME DefiniteRejections PROVE Spec => []VisibleAgrees
    OBVIOUS
  <1>1. LatestInvariant => VisibleAgrees
    BY DEF LatestInvariant, LatestShown, Unedited, IsLatest, VisibleAgrees
  <1>2. Spec => []SendInvariant
    BY SendCorrect
  <1> QED
    BY <1>1, <1>2, TypeCorrect, ShownCorrect, LatestInit, LatestStep, PTL DEF Spec

\* A failure that an unedited message shows is its latest attempt's.
FreshAt(m, a) ==
    /\ msg[m].status = "failed" => row[a].status = "failed"
    /\ msg[m].deliveryFailed => row[a].failureObserved

Fresh(m) ==
    /\ msg[m].presence = "absent" => msg[m].status = "queued" /\ ~msg[m].deliveryFailed
    /\ Unedited(m) => \A a : IsLatest(m, a) => FreshAt(m, a)

FreshInvariant == \A m \in Messages : Fresh(m)

\* Before the first attempt no message was created.
LEMMA FreshInit == Init => FreshInvariant
  <1> SUFFICES ASSUME Init, NEW m \in Messages
               PROVE  Fresh(m)
    BY DEF FreshInvariant
  <1>1. msg[m] = NoMessageRow
    BY DEF Init
  <1>2. msg[m].presence = "absent" /\ msg[m].status = "queued" /\ ~msg[m].deliveryFailed
    BY <1>1 DEF NoMessageRow
  <1> QED
    BY <1>2 DEF Fresh, Unedited

\* What a result leaves on a message that took notice of it: an older attempt adds no
\* failure, the latest one only its own.
LEMMA VisibleFresh ==
  ASSUME NEW message \in MessageRow, NEW r \in AttemptRow, NEW s \in AttemptRow,
         NEW status \in Statuses, NEW evidence \in BOOLEAN,
         s.status = Merged(r, status, evidence), Matches(message, s),
         NEW superseded \in BOOLEAN,
         NEW v, v = Visible(message, s, superseded)
  PROVE  /\ superseded => /\ v.status = "failed" => message.status = "failed"
                          /\ v.deliveryFailed => message.deliveryFailed
         /\ ~superseded => /\ v.status = "failed" /\ (message.status = "failed" => r.status = "failed")
                                => s.status = "failed"
                           /\ v.deliveryFailed => s.failureObserved
  <1> DEFINE shown == IF /\ s.failureObserved
                         /\ s.status = "failed"
                         /\ Progress(message.status) < 2
                      THEN "failed"
                      ELSE MergeStatus(message.status, s.status)
             flag == /\ IF superseded THEN message.deliveryFailed
                                      ELSE s.failureObserved
                     /\ Progress(shown) < 3
  <1>1. Progress("failed") = 0 /\ Progress("unknown") = 0 /\ Progress(s.status) \in 0 .. 4
    BY ProgressRange, ProgressValues
  <1>2. \/ v = message /\ superseded
        \/ /\ v = [message EXCEPT !.status = shown, !.deliveryFailed = flag]
           /\ superseded => Progress(s.status) # 0
    BY DEF Visible
  <1>3. shown = "failed" => s.status = "failed" \/ (message.status = "failed" /\ s.status = "unknown")
    BY <1>1 DEF MergeStatus
  <1>4. r.status = "failed" => s.status # "unknown"
    <2>1. MergeStatus("failed", status) # "unknown"
      BY DEF MergeStatus
    <2> QED
      BY <2>1 DEF Merged
  <1>5. flag => IF superseded THEN message.deliveryFailed ELSE s.failureObserved
    OBVIOUS
  <1> HIDE DEF shown, flag
  <1>6. CASE v = message /\ superseded
    BY <1>6
  <1>7. CASE /\ v = [message EXCEPT !.status = shown, !.deliveryFailed = flag]
             /\ superseded => Progress(s.status) # 0
    <2>1. v.status = shown /\ v.deliveryFailed = flag
      BY <1>7 DEF MessageRow
    <2>2. superseded => v.status # "failed"
      BY <1>1, <1>3, <1>7, <2>1
    <2>3. ~superseded /\ v.status = "failed" /\ (message.status = "failed" => r.status = "failed")
            => s.status = "failed"
      BY <1>3, <1>4, <2>1
    <2> QED
      BY <1>5, <2>1, <2>2, <2>3
  <1> QED
    BY <1>2, <1>6, <1>7

\* A message whose row and attempts a step leaves alone, as far as they are shown.
LEMMA FreshKept ==
  ASSUME NEW m, Fresh(m), msg'[m] = msg[m],
         AttemptsOf(m)' = AttemptsOf(m),
         \A c \in AttemptsOf(m) : /\ row'[c].status = row[c].status
                                  /\ row'[c].failureObserved = row[c].failureObserved
  PROVE  Fresh(m)'
  <1>1. ASSUME Unedited(m)', NEW a, IsLatest(m, a)' PROVE FreshAt(m, a)'
    <2>1. Unedited(m) /\ IsLatest(m, a)
      BY <1>1 DEF Unedited, IsLatest
    <2>2. a \in AttemptsOf(m) /\ FreshAt(m, a)
      BY <2>1 DEF Fresh, IsLatest
    <2> QED
      BY <2>2 DEF FreshAt
  <1>2. (msg[m].presence = "absent" => msg[m].status = "queued" /\ ~msg[m].deliveryFailed)'
    BY DEF Fresh
  <1> QED
    BY <1>1, <1>2 DEF Fresh

\* A new attempt that the message shows as queued.
LEMMA AppendFresh ==
  ASSUME TypeOK, FreshInvariant, NEW m \in Messages, NEW body, Append1(m, body),
         \A n \in Messages : n # m => msg'[n] = msg[n],
         msg'[m].presence = "live",
         Unedited(m)' => msg'[m].status = "queued" /\ msg'[m].deliveryFailed = FALSE
  PROVE  FreshInvariant'
  <1>1. /\ \A n \in Messages : n # m => AttemptsOf(n)' = AttemptsOf(n)
        /\ \A n \in Messages : \A c \in AttemptsOf(n) : row'[c] = row[c]
    BY AppendAttempts
  <1>2. Fresh(m)'
    BY DEF Fresh, FreshAt
  <1>3. ASSUME NEW n \in Messages, n # m PROVE Fresh(n)'
    BY <1>1, <1>3, FreshKept DEF FreshInvariant
  <1> QED
    BY <1>2, <1>3 DEF FreshInvariant

\* A result of the latest attempt is shown; one of an older attempt brings no failure.
LEMMA PersistFresh ==
  ASSUME TypeOK, ShownInvariant, FreshInvariant,
         NEW a \in 1 .. made, NEW id \in Nat, NEW status \in Statuses,
         NEW retrySafe \in BOOLEAN, NEW evidence \in BOOLEAN,
         PersistOutboundResult(a, id, status, retrySafe, evidence), made' = made
  PROVE  FreshInvariant'
  <1>1. /\ a \in Attempts /\ row[a] \in AttemptRow /\ row'[a] \in AttemptRow
        /\ row'[a].msg = row[a].msg /\ row'[a].body = row[a].body
        /\ row'[a].status = Merged(row[a], status, evidence)
        /\ \A b \in Attempts : b # a => row'[b] = row[b]
    BY ResultRow
  <1>2. /\ row[a].msg \in Messages
        /\ msg'[row[a].msg] = Visible(msg[row[a].msg], row'[a], Superseded(a))
        /\ \A n \in Messages : n # row[a].msg => msg'[n] = msg[n]
        /\ \A n \in Messages : /\ msg'[n].presence = msg[n].presence
                               /\ msg'[n].content = msg[n].content
                               /\ msg'[n].edited = msg[n].edited
    BY ResultMessage
  <1>3. \A c \in 1 .. made : c \in Attempts
    BY BoundsAssumption DEF TypeOK, Attempts
  <1>4. \A c \in 1 .. made : row'[c].msg = row[c].msg
    BY <1>1, <1>3
  <1>5. \A n : AttemptsOf(n)' = AttemptsOf(n)
    BY <1>4, SameAttempts
  <1>6. ASSUME NEW m \in Messages, m = row[a].msg PROVE Fresh(m)'
    <2>1. msg'[m].presence # "absent"
      BY <1>2, <1>6 DEF ShownInvariant
    <2>2. ASSUME Unedited(m)', NEW x, IsLatest(m, x)' PROVE FreshAt(m, x)'
      <3>1. Unedited(m) /\ IsLatest(m, x)
        BY <1>2, <1>5, <2>2 DEF Unedited, IsLatest
      <3>2. FreshAt(m, x) /\ x \in AttemptsOf(m) /\ x \in 1 .. made
        BY <3>1 DEF FreshInvariant, Fresh, IsLatest, AttemptsOf
      <3>3. a \in AttemptsOf(m)
        BY <1>6 DEF AttemptsOf
      <3>4. Matches(msg[m], row'[a])
        BY <1>1, <3>1, <3>3 DEF ShownInvariant, Shown, Matches, Unedited
      <3>5. Superseded(a) <=> x # a
        <4>1. x \in Nat /\ a \in Nat /\ made \in Nat /\ a <= x
          BY <3>1, <3>2, <3>3 DEF IsLatest, TypeOK
        <4>2. x # a => x > a
          BY <4>1
        <4>3. \A b \in AttemptsOf(m) : b \in Nat /\ b <= x
          BY <3>1 DEF IsLatest, AttemptsOf, TypeOK
        <4> QED
          BY <1>6, <3>2, <4>1, <4>2, <4>3 DEF Superseded
      <3>6. msg[m] \in MessageRow /\ Superseded(a) \in BOOLEAN
        BY DEF TypeOK, Superseded
      <3>7. /\ Superseded(a) => /\ msg'[m].status = "failed" => msg[m].status = "failed"
                                /\ msg'[m].deliveryFailed => msg[m].deliveryFailed
            /\ ~Superseded(a) =>
                 /\ msg'[m].status = "failed" /\ (msg[m].status = "failed" => row[a].status = "failed")
                      => row'[a].status = "failed"
                 /\ msg'[m].deliveryFailed => row'[a].failureObserved
        BY <1>1, <1>2, <1>6, <3>4, <3>6, VisibleFresh
      <3>8. CASE x = a
        BY <3>2, <3>5, <3>7, <3>8 DEF FreshAt
      <3>9. CASE x # a
        <4>1. row'[x] = row[x]
          BY <1>1, <1>3, <3>2, <3>9
        <4> QED
          BY <3>2, <3>5, <3>7, <3>9, <4>1 DEF FreshAt
      <3> QED
        BY <3>8, <3>9
    <2> QED
      BY <2>1, <2>2 DEF Fresh
  <1>7. ASSUME NEW n \in Messages, n # row[a].msg PROVE Fresh(n)'
    <2>1. \A c \in AttemptsOf(n) : row'[c] = row[c]
      BY <1>1, <1>3, <1>7 DEF AttemptsOf
    <2> QED
      BY <1>2, <1>5, <1>7, <2>1, FreshKept DEF FreshInvariant
  <1> QED
    BY <1>6, <1>7 DEF FreshInvariant

\* Every step keeps the invariant.
LEMMA FreshStep ==
  TypeOK /\ EvidenceInvariant /\ ShownInvariant /\ FreshInvariant /\ [Next]_vars => FreshInvariant'
  <1> SUFFICES ASSUME TypeOK, EvidenceInvariant, ShownInvariant, FreshInvariant, [Next]_vars
               PROVE  FreshInvariant'
    OBVIOUS
  <1>1. ASSUME UNCHANGED <<msg, made>>,
               \A c \in 1 .. made : /\ row'[c].msg = row[c].msg
                                    /\ row'[c].status = row[c].status
                                    /\ row'[c].failureObserved = row[c].failureObserved
        PROVE  FreshInvariant'
    <2>1. \A n : AttemptsOf(n)' = AttemptsOf(n)
      BY <1>1, SameAttempts
    <2>2. \A n : \A c \in AttemptsOf(n) : c \in 1 .. made
      BY DEF AttemptsOf
    <2>3. ASSUME NEW m \in Messages PROVE Fresh(m)'
      BY <1>1, <2>1, <2>2, FreshKept DEF FreshInvariant
    <2> QED
      BY <2>3 DEF FreshInvariant
  <1>2. ASSUME NEW m \in Messages, NEW body \in Bodies, CreateOutboundMessage(m, body)
        PROVE  FreshInvariant'
    <2>1. /\ Append1(m, body) /\ msg[m].presence = "absent"
          /\ msg'[m].presence = "live" /\ msg'[m].status = msg[m].status
          /\ msg'[m].deliveryFailed = msg[m].deliveryFailed
          /\ \A n \in Messages : n # m => msg'[n] = msg[n]
      BY <1>2, CreateEffect
    <2>2. msg[m].status = "queued" /\ msg[m].deliveryFailed = FALSE
      BY <2>1 DEF FreshInvariant, Fresh, TypeOK, MessageRow
    <2> QED
      BY <2>1, <2>2, AppendFresh
  <1>3. ASSUME NEW m \in Messages, RetryOutboundMessage(m)
        PROVE  FreshInvariant'
    <2>1. /\ Append1(m, msg[m].content) /\ msg[m].presence = "live"
          /\ msg'[m].presence = "live" /\ msg'[m].status = "queued"
          /\ msg'[m].edited = msg[m].edited
          /\ msg'[m].deliveryFailed = msg[m].deliveryFailed
          /\ \A n \in Messages : n # m => msg'[n] = msg[n]
          /\ \A c \in AttemptsOf(m) : c \in Attempts /\ ~row[c].failureObserved
      BY <1>3, RetryEffect
    <2>2. ASSUME Unedited(m)' PROVE msg[m].deliveryFailed = FALSE
      <3>1. Unedited(m)
        BY <2>1, <2>2 DEF Unedited
      <3>2. PICK a : IsLatest(m, a)
        BY <1>3 DEF RetryOutboundMessage, Retryable, IsLatest
      <3>3. a \in AttemptsOf(m) /\ FreshAt(m, a) /\ msg[m].deliveryFailed \in BOOLEAN
        BY <3>1, <3>2 DEF FreshInvariant, Fresh, IsLatest, TypeOK, MessageRow
      <3> QED
        BY <2>1, <3>3 DEF FreshAt
    <2> QED
      BY <2>1, <2>2, AppendFresh
  <1>4. ASSUME NEW m \in Messages,
               \/ \E body \in Bodies : UpdateContent(m, body)
               \/ DeleteMessage(m) \/ CleanupConversation(m)
        PROVE  FreshInvariant'
    <2>1. /\ UNCHANGED <<made, row>>
          /\ msg'[m].presence # "absent" /\ ~Unedited(m)'
          /\ \A n \in Messages : n # m => msg'[n] = msg[n]
      BY <1>4, EditEffect
    <2>2. \A n : AttemptsOf(n)' = AttemptsOf(n)
      BY <2>1, SameAttempts
    <2>3. Fresh(m)'
      BY <2>1 DEF Fresh
    <2>4. ASSUME NEW n \in Messages, n # m PROVE Fresh(n)'
      BY <2>1, <2>2, <2>4, FreshKept DEF FreshInvariant
    <2> QED
      BY <2>3, <2>4 DEF FreshInvariant
  <1>5. ASSUME NEW w \in Workers, NEW a \in Attempts, ExpireOutboundDispatches(w, a)
        PROVE  FreshInvariant'
    <2>1. a \in 1 .. made
      BY <1>5, PresentRow DEF ExpireOutboundDispatches
    <2>2. NoId \in Nat /\ "unknown" \in Statuses
      BY DEF NoId, Statuses
    <2> QED
      BY <1>5, <2>1, <2>2, PersistFresh DEF ExpireOutboundDispatches
  <1>6. ASSUME NEW w \in Workers,
               (\E a \in Attempts : ClaimNextOutbound(w, a)) \/ StartOutboundDispatch(w)
        PROVE  FreshInvariant'
    BY <1>1, <1>6, HoldEffect
  <1>7. ASSUME NEW w \in Workers, CancelClaimedOutbound(w) \/ StartCancelled(w)
        PROVE  FreshInvariant'
    <2>1. /\ worker[w].attempt \in 1 .. made
          /\ PersistOutboundResult(worker[w].attempt, NoId, "cancelled", FALSE, FALSE)
          /\ made' = made
      BY <1>7 DEF CancelClaimedOutbound, StartCancelled, TypeOK
    <2>2. NoId \in Nat /\ "cancelled" \in Statuses
      BY DEF NoId, Statuses
    <2> QED
      BY <2>1, <2>2, PersistFresh
  <1>8. ASSUME NEW w \in Workers, CompleteOutboundDispatch(w)
        PROVE  FreshInvariant'
    <2>1. /\ worker[w].attempt \in 1 .. made /\ worker[w].attempt \in Attempts
          /\ worker[w].pc = "posted"
          /\ made' = made /\ worker[w].id \in Nat
          /\ worker[w].status \in Statuses /\ FirstRejection(w) \in BOOLEAN
      BY <1>8, CompleteEffect
    <2>3. CASE UNCHANGED <<msg, row>>
      BY <1>1, <2>1, <2>3
    <2>4. ASSUME NEW evidence \in BOOLEAN,
                 PersistOutboundResult(worker[w].attempt, worker[w].id, worker[w].status,
                                       FirstRejection(w), evidence)
          PROVE  FreshInvariant'
      BY <2>1, <2>4, PersistFresh
    <2> QED
      BY <1>8, <2>3, <2>4, CompleteEffect
  <1>9. ASSUME NEW a \in Attempts, StatusStep(a)
        PROVE  FreshInvariant'
    <2>1. PICK id \in 1 .. copies[a], status \in CallbackStatuses :
            ApplyOutboundStatus(a, id, status)
      BY <1>9 DEF StatusStep
    <2>2. a \in 1 .. made
      BY <2>1, PresentRow DEF ApplyOutboundStatus, Recordable
    <2>3. id \in Nat /\ status \in Statuses
      BY <2>1 DEF TypeOK, CallbackStatuses, Evidence, Statuses
    <2> QED
      BY <2>1, <2>2, <2>3, PersistFresh DEF ApplyOutboundStatus
  <1>10. ASSUME NEW w \in Workers,
                \/ BindingConfirmed(w) \/ CancelClaimLost(w) \/ BindingUnavailable(w)
                \/ StartClaimLost(w) \/ Send(w) \/ Crash(w)
         PROVE  UNCHANGED <<msg, made, row>>
    BY <1>10 DEF BindingConfirmed, CancelClaimLost, BindingUnavailable, StartClaimLost,
                 Send, SendAccepted, SendRejected, SendUnknown, Respond, Crash
  <1>11. ASSUME NEW a \in Attempts, LeaseElapses(a)
         PROVE  UNCHANGED <<msg, made, row>>
    BY <1>11 DEF LeaseElapses
  <1>12. ASSUME UNCHANGED <<msg, made, row>> PROVE FreshInvariant'
    BY <1>1, <1>12
  <1>13. CASE UNCHANGED vars
    BY <1>12, <1>13 DEF vars
  <1> QED
    BY <1>2, <1>3, <1>4, <1>5, <1>6, <1>7, <1>8, <1>9, <1>10, <1>11, <1>12, <1>13
    DEF Next, AgentStep, WorkerStep, SendBinding, StartStep

\* A failure, or its diagnostic, on an unedited message is its latest attempt's, also
\* when a rejection was not definite: what is reported of an older attempt never marks
\* the message (persistOutboundResult, retryMessageAccepted).
THEOREM FailuresAreFresh == Spec => []NoStaleFailure
  <1>1. FreshInvariant => NoStaleFailure
    BY DEF FreshInvariant, Fresh, FreshAt, Unedited, IsLatest, NoStaleFailure
  <1> QED
    BY <1>1, TypeCorrect, ShownCorrect, FreshInit, FreshStep, PTL DEF Spec

=============================================================================
