-------------------------- MODULE OutboundDelivery --------------------------
(***************************************************************************)
(* Outbound text delivery of the MSG owner: a message carries a series of  *)
(* delivery attempts, workers claim an attempt under a lease, start it,    *)
(* make one provider POST and record its outcome, while the provider       *)
(* reports on the attempt through callbacks, agents edit, delete and       *)
(* retry the message, leases run out and workers crash.                    *)
(*                                                                         *)
(* One action is one database transaction of                               *)
(* repository/message_outbound.go, or one step of the worker loop          *)
(* DispatchOne of service/channel_outbound_service.go between two of them. *)
(*                                                                         *)
(* Abstractions.  An attempt's routing binding is one value, so what is    *)
(* compared of it is the body.  Attempts are numbered in creation order:   *)
(* that is the claim order (created_at) and, within a message, the         *)
(* sequence.  A claim token is the worker that drew it: a worker holds one *)
(* claim at a time and forgets it when it crashes, so two live tokens are  *)
(* equal exactly when their workers are.  The provider numbers the copies  *)
(* of an attempt it takes; that number is the provider message id.         *)
(*                                                                         *)
(* A definition headed "Variant" is a plausible mistake in the one that    *)
(* follows it.  Nothing refers to it; put in the place of that definition  *)
(* it violates the property PROJECT.json names for it.                     *)
(***************************************************************************)
EXTENDS Naturals

CONSTANTS
    Messages,            \* outgoing text messages that agents may create
    MaxAttempts,         \* bound: delivery attempts over all messages
    Workers,             \* goroutines that run DispatchOne
    Bodies,              \* texts a message may have
    Provider,            \* "twilio" or "whatsapp"
    DefiniteRejections,  \* TRUE when a rejected POST was never delivered
    MaxFaults,           \* bound: crashes, lost results, routing outages
    NoMessage, NoWorker, NoBody

ASSUME BoundsAssumption ==
    /\ MaxAttempts \in Nat
    /\ MaxFaults \in Nat

ASSUME AbsentAssumption ==
    /\ NoMessage \notin Messages
    /\ NoWorker \notin Workers
    /\ NoBody \notin Bodies

ASSUME ProviderAssumption ==
    /\ Provider \in {"twilio", "whatsapp"}
    /\ DefiniteRejections \in BOOLEAN

VARIABLES
    msg,      \* Message rows: presence, content, edited_at, visible status
    made,     \* number of OutboundMessageAttempt rows
    row,      \* OutboundMessageAttempt rows, in creation order
    elapsed,  \* attempts whose claim_until has passed
    worker,   \* where each DispatchOne call is, and what it carries
    copies,   \* per attempt, POSTs the provider took for delivery
    seen,     \* history: provider statuses recorded for each attempt
    faults    \* faults spent

vars == <<msg, made, row, elapsed, worker, copies, seen, faults>>

Attempts == 1 .. MaxAttempts
NoId == 0

(***************************************************************************)
(* Rows.                                                                   *)
(***************************************************************************)
Evidence == {"provider_accepted", "sent", "delivered", "read", "failed"}
Statuses == Evidence \cup {"queued", "unknown", "cancelled"}
States == {"queued", "claimed", "sending", "unknown", "settled", "cancelled"}

NoMessageRow ==
    [presence |-> "absent", content |-> NoBody, edited |-> FALSE,
     status |-> "queued", deliveryFailed |-> FALSE]

NoRow ==
    [msg |-> NoMessage, body |-> NoBody, state |-> "absent",
     status |-> "queued", providerId |-> NoId, token |-> NoWorker,
     started |-> FALSE, retrySafe |-> FALSE, failureObserved |-> FALSE]

Intent(m, body) ==
    [NoRow EXCEPT !.msg = m, !.body = body, !.state = "queued"]

Idle == [pc |-> "idle", attempt |-> 0, disposition |-> "none",
         status |-> "queued", id |-> NoId]

Init ==
    /\ msg = [m \in Messages |-> NoMessageRow]
    /\ made = 0
    /\ row = [a \in Attempts |-> NoRow]
    /\ elapsed = {}
    /\ worker = [w \in Workers |-> Idle]
    /\ copies = [a \in Attempts |-> 0]
    /\ seen = [a \in Attempts |-> {}]
    /\ faults = 0

(***************************************************************************)
(* Status algebra: outboundProgress, mergeOutboundStatus and what          *)
(* persistOutboundResult makes of the attempt and of the visible message.  *)
(***************************************************************************)
Progress(status) ==
    CASE status = "provider_accepted" -> 1
      [] status = "sent" -> 2
      [] status = "delivered" -> 3
      [] status = "read" -> 4
      [] OTHER -> 0

\* Variant: the last status wins.
LastStatusWins(current, incoming) ==
    IF current = "failed" /\ incoming = "unknown" THEN current ELSE incoming

MergeStatus(current, incoming) ==
    IF \/ Progress(current) > 0 /\ Progress(current) >= Progress(incoming)
       \/ current = "failed" /\ incoming = "unknown"
    THEN current
    ELSE incoming

StateOf(status) ==
    CASE status = "unknown" -> "unknown"
      [] status = "cancelled" -> "cancelled"
      [] OTHER -> "settled"

\* The message still is what the attempt promised to send.
Matches(message, r) ==
    message.presence = "live" /\ message.content = r.body

\* Variant: a late acceptance hides the failure reported before it.
MergedForgetful(r, status, evidence) ==
    IF evidence /\ status = "failed" /\ Progress(r.status) < 2
    THEN "failed"
    ELSE MergeStatus(r.status, status)

\* A failure reported by the provider overrides acceptance, nothing further.
Merged(r, status, evidence) ==
    IF \/ evidence /\ status = "failed" /\ Progress(r.status) < 2
       \/ /\ r.failureObserved
          /\ r.status = "failed"
          /\ status = "provider_accepted"
    THEN "failed"
    ELSE MergeStatus(r.status, status)

FailureFlag(r, status, evidence) ==
    /\ \/ r.failureObserved
       \/ evidence /\ status = "failed" /\ Progress(r.status) < 3
    /\ Progress(Merged(r, status, evidence)) < 3

KnownId(r, id) == IF id = NoId THEN r.providerId ELSE id

\* retrySafe survives only a bare failure.
SafeFlag(r, id, status, retrySafe, evidence) ==
    /\ retrySafe
    /\ KnownId(r, id) = NoId
    /\ ~FailureFlag(r, status, evidence)
    /\ Merged(r, status, evidence) = "failed"

\* The attempt row after a result.
Settled(r, id, status, retrySafe, evidence) ==
    [r EXCEPT !.state = StateOf(Merged(r, status, evidence)),
              !.status = Merged(r, status, evidence),
              !.providerId = KnownId(r, id),
              !.failureObserved = FailureFlag(r, status, evidence),
              !.retrySafe = SafeFlag(r, id, status, retrySafe, evidence)]

\* The message row after attempt row r was recorded: frozen once edited or
\* deleted, and deaf to an older attempt that made no progress.
Visible(message, r, superseded) ==
    LET status == IF /\ r.failureObserved
                     /\ r.status = "failed"
                     /\ Progress(message.status) < 2
                  THEN "failed"
                  ELSE MergeStatus(message.status, r.status)
        failed == /\ IF superseded THEN message.deliveryFailed
                                   ELSE r.failureObserved
                  /\ Progress(status) < 3
    IN  IF (superseded /\ Progress(r.status) = 0) \/ ~Matches(message, r)
        THEN message
        ELSE [message EXCEPT !.status = status, !.deliveryFailed = failed]

AttemptsOf(m) == {a \in 1 .. made : row[a].msg = m}

\* Variant: what an older attempt reports counts like the latest one's report.
SupersededNever(a) == FALSE

Superseded(a) == \E b \in AttemptsOf(row[a].msg) : b > a

PersistOutboundResult(a, id, status, retrySafe, evidence) ==
    LET r == Settled(row[a], id, status, retrySafe, evidence)
    IN  /\ row' = [row EXCEPT ![a] = r]
        /\ msg' = [msg EXCEPT ![r.msg] = Visible(@, r, Superseded(a))]

\* A result may still be recorded: dispatched, not cancelled, same copy.
Recordable(r, id) ==
    /\ r.started
    /\ r.state \in {"sending", "unknown", "settled"}
    /\ id = NoId \/ r.providerId \in {NoId, id}

(***************************************************************************)
(* Agents: create, retry, edit and delete a message.                       *)
(***************************************************************************)
Append1(m, body) ==
    /\ made < MaxAttempts
    /\ made' = made + 1
    /\ row' = [row EXCEPT ![made + 1] = Intent(m, body)]

CreateOutboundMessage(m, body) ==
    /\ msg[m].presence = "absent"
    /\ msg' = [msg EXCEPT ![m].presence = "live", ![m].content = body]
    /\ Append1(m, body)
    /\ UNCHANGED <<elapsed, worker, copies, seen, faults>>

\* Variant: whatever failed may be retried.
RetryableIfFailed(m) ==
    \E latest \in AttemptsOf(m) :
        /\ \A a \in AttemptsOf(m) : a <= latest
        /\ row[latest].state = "settled"
        /\ row[latest].status = "failed"

\* checkOutboundRetry: the latest attempt is a definite rejection and so is
\* every attempt before it.
Retryable(m) ==
    \E latest \in AttemptsOf(m) :
        /\ \A a \in AttemptsOf(m) : a <= latest /\ row[a].retrySafe
        /\ row[latest].state = "settled"
        /\ row[latest].status = "failed"
        /\ row[latest].providerId = NoId
        /\ row[latest].started

RetryOutboundMessage(m) ==
    /\ msg[m].presence = "live"
    /\ msg[m].status = "failed"
    /\ Retryable(m)
    /\ msg' = [msg EXCEPT ![m].status = "queued"]
    /\ Append1(m, msg[m].content)
    /\ UNCHANGED <<elapsed, worker, copies, seen, faults>>

UpdateContent(m, body) ==
    /\ msg[m].presence = "live"
    /\ msg' = [msg EXCEPT ![m].content = body, ![m].edited = TRUE]
    /\ UNCHANGED <<made, row, elapsed, worker, copies, seen, faults>>

\* Variant: the content is cleared, the tombstone is not set.
DeleteContentOnly(m) ==
    /\ msg[m].presence = "live"
    /\ msg' = [msg EXCEPT ![m].content = NoBody]
    /\ UNCHANGED <<made, row, elapsed, worker, copies, seen, faults>>

DeleteMessage(m) ==
    /\ msg[m].presence = "live"
    /\ msg' = [msg EXCEPT ![m].presence = "deleted", ![m].content = NoBody]
    /\ UNCHANGED <<made, row, elapsed, worker, copies, seen, faults>>

\* Conversation cleanup removes the message row and leaves its attempts.
CleanupConversation(m) ==
    /\ msg[m].presence \in {"live", "deleted"}
    /\ msg' = [msg EXCEPT ![m].presence = "removed", ![m].content = NoBody]
    /\ UNCHANGED <<made, row, elapsed, worker, copies, seen, faults>>

(***************************************************************************)
(* Workers: one DispatchOne call after the other.                          *)
(***************************************************************************)
LeaseElapses(a) ==
    /\ row[a].state \in {"claimed", "sending"}
    /\ a \notin elapsed
    /\ elapsed' = elapsed \cup {a}
    /\ UNCHANGED <<msg, made, row, worker, copies, seen, faults>>

\* Variant: a dispatch that ran out counts as a definite failure.
ExpireAsFailure(w, a) ==
    /\ worker[w].pc = "idle"
    /\ row[a].state = "sending"
    /\ row[a].started
    /\ a \in elapsed
    /\ PersistOutboundResult(a, NoId, "failed", TRUE, FALSE)
    /\ UNCHANGED <<made, elapsed, worker, copies, seen, faults>>

\* The first half of ClaimNextOutbound: a dispatched attempt whose lease ran
\* out becomes unknown, one transaction per attempt.
ExpireOutboundDispatches(w, a) ==
    /\ worker[w].pc = "idle"
    /\ row[a].state = "sending"
    /\ row[a].started
    /\ a \in elapsed
    /\ PersistOutboundResult(a, NoId, "unknown", FALSE, FALSE)
    /\ UNCHANGED <<made, elapsed, worker, copies, seen, faults>>

\* Variant: a claim that ran out is not taken over.
ClaimableIfQueued(a) == ~row[a].started /\ row[a].state = "queued"

Claimable(a) ==
    /\ ~row[a].started
    /\ \/ row[a].state = "queued"
       \/ row[a].state = "claimed" /\ a \in elapsed

\* The second half: compare-and-swap on the oldest attempt nobody holds.
ClaimNextOutbound(w, a) ==
    /\ worker[w].pc = "idle"
    /\ Claimable(a)
    /\ \A b \in Attempts : Claimable(b) => a <= b
    /\ row' = [row EXCEPT ![a].state = "claimed", ![a].token = w]
    /\ elapsed' = elapsed \ {a}
    /\ worker' = [worker EXCEPT ![w] = [Idle EXCEPT !.pc = "claimed",
                                                    !.attempt = a]]
    /\ UNCHANGED <<msg, made, copies, seen, faults>>

\* Variant: only the lease is looked at.
LeaseHeld(w) == worker[w].attempt \notin elapsed

\* What StartOutboundDispatch and CancelClaimedOutbound require of a claim.
ClaimHeld(w) ==
    LET a == worker[w].attempt
    IN  /\ row[a].state = "claimed"
        /\ row[a].token = w
        /\ ~row[a].started
        /\ a \notin elapsed

Release(w) == worker' = [worker EXCEPT ![w] = Idle]

BindingConfirmed(w) ==
    /\ worker[w].pc = "claimed"
    /\ worker' = [worker EXCEPT ![w].pc = "bound"]
    /\ UNCHANGED <<msg, made, row, elapsed, copies, seen, faults>>

\* Routing changed or is gone, a definite local cancellation.
CancelClaimedOutbound(w) ==
    /\ worker[w].pc = "claimed"
    /\ ClaimHeld(w)
    /\ PersistOutboundResult(worker[w].attempt, NoId, "cancelled", FALSE, FALSE)
    /\ Release(w)
    /\ UNCHANGED <<made, elapsed, copies, seen, faults>>

CancelClaimLost(w) ==
    /\ worker[w].pc = "claimed"
    /\ ~ClaimHeld(w)
    /\ Release(w)
    /\ UNCHANGED <<msg, made, row, elapsed, copies, seen, faults>>

\* Another owner's store is down: the claim is left to run out.
BindingUnavailable(w) ==
    /\ worker[w].pc = "claimed"
    /\ faults < MaxFaults
    /\ faults' = faults + 1
    /\ Release(w)
    /\ UNCHANGED <<msg, made, row, elapsed, copies, seen>>

\* Variant: only the message's content is looked at.
StartableIfMatching(a) == Matches(msg[row[a].msg], row[a])

Startable(a) ==
    /\ Matches(msg[row[a].msg], row[a])
    /\ msg[row[a].msg].status = "queued"

StartOutboundDispatch(w) ==
    /\ worker[w].pc = "bound"
    /\ ClaimHeld(w)
    /\ Startable(worker[w].attempt)
    /\ row' = [row EXCEPT ![worker[w].attempt].state = "sending",
                          ![worker[w].attempt].started = TRUE]
    /\ worker' = [worker EXCEPT ![w].pc = "sending"]
    /\ UNCHANGED <<msg, made, elapsed, copies, seen, faults>>

StartCancelled(w) ==
    /\ worker[w].pc = "bound"
    /\ ClaimHeld(w)
    /\ ~Startable(worker[w].attempt)
    /\ PersistOutboundResult(worker[w].attempt, NoId, "cancelled",
                             FALSE, FALSE)
    /\ Release(w)
    /\ UNCHANGED <<made, elapsed, copies, seen, faults>>

StartClaimLost(w) ==
    /\ worker[w].pc = "bound"
    /\ ~ClaimHeld(w)
    /\ Release(w)
    /\ UNCHANGED <<msg, made, row, elapsed, copies, seen, faults>>

(***************************************************************************)
(* The provider.  A POST is taken for delivery or not; the response says   *)
(* so, says it was rejected, or says nothing usable.                       *)
(***************************************************************************)
ResponseStatuses ==
    IF Provider = "twilio"
    THEN {"provider_accepted", "sent", "delivered", "failed"}
    ELSE {"provider_accepted"}

CallbackStatuses ==
    IF Provider = "twilio"
    THEN {"provider_accepted", "sent", "delivered", "failed"}
    ELSE {"sent", "delivered", "read", "failed"}

Respond(w, taken, disposition, status) ==
    LET a == worker[w].attempt
        n == copies[a] + 1
    IN  /\ worker[w].pc = "sending"
        /\ copies' = IF taken THEN [copies EXCEPT ![a] = n] ELSE copies
        /\ worker' = [worker EXCEPT
             ![w] = [pc |-> "posted", attempt |-> a,
                     disposition |-> disposition, status |-> status,
                     id |-> IF disposition = "accepted" THEN n ELSE NoId]]
        /\ UNCHANGED <<msg, made, row, elapsed, seen, faults>>

SendAccepted(w) ==
    \E status \in ResponseStatuses : Respond(w, TRUE, "accepted", status)

\* A rejection is believed to be definite; DefiniteRejections says it is.
SendRejected(w) ==
    \E taken \in BOOLEAN :
        /\ taken => ~DefiniteRejections
        /\ Respond(w, taken, "rejected", "failed")

SendUnknown(w) ==
    \E taken \in BOOLEAN : Respond(w, taken, "unknown", "unknown")

\* Only a first, definite rejection makes the attempt safe to repeat.
FirstRejection(w) ==
    LET r == row[worker[w].attempt]
    IN  /\ worker[w].disposition = "rejected"
        /\ r.providerId = NoId
        /\ \/ r.state = "sending"
           \/ r.state = "settled" /\ r.retrySafe

CompleteOutboundDispatch(w) ==
    LET a == worker[w].attempt
        accepted == worker[w].disposition = "accepted"
    IN  /\ worker[w].pc = "posted"
        /\ Release(w)
        /\ IF row[a].token = w /\ Recordable(row[a], worker[w].id)
           THEN /\ PersistOutboundResult(a, worker[w].id, worker[w].status,
                                         FirstRejection(w), accepted)
                /\ seen' = IF accepted
                           THEN [seen EXCEPT ![a] = @ \cup {worker[w].status}]
                           ELSE seen
           ELSE UNCHANGED <<msg, row, seen>>
        /\ UNCHANGED <<made, elapsed, copies, faults>>

\* A process crash anywhere in DispatchOne, or the result's write failing.
Crash(w) ==
    /\ worker[w].pc # "idle"
    /\ faults < MaxFaults
    /\ faults' = faults + 1
    /\ Release(w)
    /\ UNCHANGED <<msg, made, row, elapsed, copies, seen>>

\* A status callback or lookup about a copy the provider took: any status,
\* in any order, any number of times.  Twilio's signed URL names the attempt;
\* WhatsApp's is found by the provider id already recorded.
ApplyOutboundStatus(a, id, status) ==
    /\ id \in 1 .. copies[a]
    /\ Provider = "whatsapp" => row[a].providerId = id
    /\ Recordable(row[a], id)
    /\ PersistOutboundResult(a, id, status, FALSE, TRUE)
    /\ seen' = [seen EXCEPT ![a] = @ \cup {status}]
    /\ UNCHANGED <<made, elapsed, worker, copies, faults>>

(***************************************************************************)
(* Specification.                                                          *)
(***************************************************************************)
AgentStep(m) ==
    \/ \E body \in Bodies : CreateOutboundMessage(m, body)
    \/ RetryOutboundMessage(m)
    \/ \E body \in Bodies : UpdateContent(m, body)
    \/ DeleteMessage(m)
    \/ CleanupConversation(m)

SendBinding(w) ==
    \/ BindingConfirmed(w)
    \/ CancelClaimedOutbound(w)
    \/ CancelClaimLost(w)
    \/ BindingUnavailable(w)

StartStep(w) == StartOutboundDispatch(w) \/ StartCancelled(w) \/ StartClaimLost(w)
Send(w) == SendAccepted(w) \/ SendRejected(w) \/ SendUnknown(w)

WorkerStep(w) ==
    \/ \E a \in Attempts : ExpireOutboundDispatches(w, a)
    \/ \E a \in Attempts : ClaimNextOutbound(w, a)
    \/ SendBinding(w)
    \/ StartStep(w)
    \/ Send(w)
    \/ CompleteOutboundDispatch(w)
    \/ Crash(w)

StatusStep(a) ==
    \E id \in 1 .. copies[a], status \in CallbackStatuses :
        ApplyOutboundStatus(a, id, status)

Next ==
    \/ \E m \in Messages : AgentStep(m)
    \/ \E w \in Workers : WorkerStep(w)
    \/ \E a \in Attempts : LeaseElapses(a) \/ StatusStep(a)

\* Run ticks every second and each provider exchange is bounded by 15 seconds, so
\* a worker takes its next step.  A lease lasts a minute and only local reads
\* separate a claim from its use, so a worker is not too slow for ever (SF).
Fairness ==
    /\ \A w \in Workers :
        /\ WF_vars(\E a \in Attempts : ExpireOutboundDispatches(w, a))
        /\ WF_vars(\E a \in Attempts : ClaimNextOutbound(w, a))
        /\ WF_vars(SendBinding(w))
        /\ WF_vars(StartStep(w))
        /\ SF_vars(\/ StartOutboundDispatch(w)
                   \/ StartCancelled(w)
                   \/ CancelClaimedOutbound(w))
        /\ WF_vars(Send(w))
        /\ WF_vars(CompleteOutboundDispatch(w))
    /\ \A a \in Attempts : WF_vars(LeaseElapses(a))

Spec == Init /\ [][Next]_vars
FairSpec == Spec /\ Fairness

(***************************************************************************)
(* Properties.                                                             *)
(***************************************************************************)
MessageRow ==
    [presence : {"absent", "live", "deleted", "removed"},
     content : Bodies \cup {NoBody}, edited : BOOLEAN,
     status : Statuses, deliveryFailed : BOOLEAN]

AttemptRow ==
    [msg : Messages, body : Bodies, state : States, status : Statuses,
     providerId : Nat, token : Workers \cup {NoWorker}, started : BOOLEAN,
     retrySafe : BOOLEAN, failureObserved : BOOLEAN]

WorkerRow ==
    [pc : {"idle", "claimed", "bound", "sending", "posted"},
     attempt : Attempts \cup {0},
     disposition : {"none", "accepted", "rejected", "unknown"},
     status : Statuses \ {"cancelled"}, id : Nat]

\* Every variable holds a value of the shape the code keeps; rows beyond the
\* created ones are absent, a busy worker works on a created attempt, and an
\* accepted answer carries a provider status (CompleteOutboundDispatch).
TypeOK ==
    /\ msg \in [Messages -> MessageRow]
    /\ \A m \in Messages : msg[m].presence = "live" => msg[m].content \in Bodies
    /\ made \in 0 .. MaxAttempts
    /\ row \in [Attempts -> AttemptRow \cup {NoRow}]
    /\ \A a \in Attempts : IF a <= made THEN row[a] \in AttemptRow
                                        ELSE row[a] = NoRow
    /\ elapsed \subseteq Attempts
    /\ worker \in [Workers -> WorkerRow]
    /\ \A w \in Workers :
          /\ worker[w].pc # "idle" => worker[w].attempt \in 1 .. made
          /\ worker[w].disposition = "accepted" => worker[w].status \in Evidence
    /\ copies \in [Attempts -> Nat]
    /\ seen \in [Attempts -> SUBSET Evidence]
    /\ faults \in 0 .. MaxFaults

\* The recipient gets a message at most once: over all the attempts of a
\* message, all workers, crashes, expired leases, retries and late answers, the
\* provider takes at most one POST (DispatchOne, checkOutboundRetry).
AtMostOneCopy ==
    /\ \A a \in Attempts : copies[a] <= 1
    /\ \A a, b \in 1 .. made :
          row[a].msg = row[b].msg /\ copies[a] > 0 /\ copies[b] > 0 => a = b

\* An attempt that was cancelled never reached the provider, and no worker with
\* a stale claim can still send it (CancelClaimedOutbound, StartOutboundDispatch).
CancelledNeverSent ==
    \A a \in 1 .. made : row[a].state = "cancelled" =>
        /\ copies[a] = 0
        /\ \A w \in Workers :
              worker[w].attempt = a => worker[w].pc \in {"idle", "claimed", "bound"}

EvidenceStatus(S) ==
    CASE "read" \in S -> "read"
      [] "read" \notin S /\ "delivered" \in S -> "delivered"
      [] S \cap {"read", "delivered"} = {} /\ "sent" \in S -> "sent"
      [] S \cap {"read", "delivered", "sent"} = {} /\ "failed" \in S -> "failed"
      [] OTHER -> "provider_accepted"

\* What the provider has reported decides the attempt, whatever the order and
\* the repetitions of the callbacks, and whether the POST's own answer, its loss
\* or the lease's expiry was recorded before or after (persistOutboundResult).
EvidenceDecides ==
    \A a \in Attempts : seen[a] # {} =>
        /\ row[a].state = "settled"
        /\ row[a].status = EvidenceStatus(seen[a])
        /\ row[a].failureObserved <=>
              "failed" \in seen[a] /\ seen[a] \cap {"delivered", "read"} = {}
        /\ ~row[a].retrySafe

\* A message nobody edited or deleted shows what its latest attempt knows,
\* failure diagnostic included (persistOutboundResult, retryMessageAccepted).
VisibleAgrees ==
    \A m \in Messages : msg[m].presence = "live" /\ ~msg[m].edited =>
        \E latest \in AttemptsOf(m) :
            /\ \A a \in AttemptsOf(m) : a <= latest
            /\ msg[m].status = row[latest].status
            /\ msg[m].deliveryFailed = row[latest].failureObserved

\* A failure shown on a message nobody edited or deleted, or its failure diagnostic, is
\* the latest attempt's: what is reported of an older attempt, even of one whose
\* rejection was not definite, does not mark the message while a retry of it is queued,
\* under way or accepted (persistOutboundResult, retryMessageAccepted).
NoStaleFailure ==
    \A m \in Messages : msg[m].presence = "live" /\ ~msg[m].edited =>
        \A latest \in AttemptsOf(m) :
            (\A a \in AttemptsOf(m) : a <= latest) =>
                /\ msg[m].status = "failed" => row[latest].status = "failed"
                /\ msg[m].deliveryFailed => row[latest].failureObserved

\* The delivery progress an agent was shown is never taken back, not by a late
\* answer, an expired lease, an edit or a retry; only acceptance by the provider
\* may still turn into a failure (mergeOutboundStatus, persistOutboundResult).
VisibleNeverRegresses ==
    [][\A m \in Messages :
        \/ Progress(msg'[m].status) >= Progress(msg[m].status)
        \/ msg[m].status = "provider_accepted" /\ msg'[m].status = "failed"]_vars

\* Even when a "rejected" POST went through after all, a report about it that
\* was recorded stops every later attempt of an unedited message before its POST
\* (Count of unsafe attempts in checkOutboundRetry, status test in
\* StartOutboundDispatch).
EvidenceStopsResend ==
    [][\A a \in Attempts :
        /\ ~row[a].started
        /\ row'[a].started
        /\ ~msg[row[a].msg].edited
        => \A b \in AttemptsOf(row[a].msg) : Progress(row[b].status) = 0]_vars

\* Every accepted intent is resolved: it does not stay queued, claimed or
\* sending for ever (DispatchOne, expireOutboundDispatches, Run).
EveryIntentResolves ==
    \A a \in Attempts :
        (a <= made) ~> (row[a].state \in {"unknown", "settled", "cancelled"})

(***************************************************************************)
(* The inductive invariant behind AtMostOneCopy and CancelledNeverSent.    *)
(***************************************************************************)
\* The worker between StartOutboundDispatch and CompleteOutboundDispatch.
Sends(w, a) ==
    /\ worker[w].pc \in {"sending", "posted"}
    /\ worker[w].attempt = a

\* Its dispatch is recorded with its token, and before its POST no copy is out.
SendersHoldDispatch ==
    \A w \in Workers, a \in Attempts : Sends(w, a) =>
        /\ row[a].started
        /\ row[a].token = w
        /\ worker[w].pc = "sending" => copies[a] = 0

\* Dispatch time, state and status tell one story; a copy implies a dispatch.
DispatchShape ==
    \A a \in Attempts :
        /\ row[a].started <=> row[a].state \in {"sending", "unknown", "settled"}
        /\ row[a].started => row[a].status # "cancelled"
        /\ ~row[a].started =>
              row[a].status = IF row[a].state = "cancelled" THEN "cancelled" ELSE "queued"
        /\ row[a].retrySafe => row[a].state = "settled"
        /\ copies[a] <= 1
        /\ copies[a] > 0 => row[a].started

\* An attempt that is over and that the provider did not take.
Refused(a) ==
    /\ row[a].state = "settled"
    /\ copies[a] = 0
    /\ \A w \in Workers : ~Sends(w, a)

\* A rejection on its way is true and a safe attempt is refused.
SafeMeansRefused ==
    /\ \A w \in Workers :
          /\ worker[w].pc = "posted"
          /\ worker[w].disposition = "rejected"
          => copies[worker[w].attempt] = 0
    /\ \A a \in 1 .. made : row[a].retrySafe => Refused(a)

\* A message has attempts only once it was created, and a retry only when every
\* attempt before it is refused.
RetryAfterRefusal ==
    /\ \A a \in 1 .. made : msg[row[a].msg].presence # "absent"
    /\ \A a, b \in 1 .. made : a < b /\ row[a].msg = row[b].msg => Refused(a)

\* What StartOutboundDispatch, checkOutboundRetry and CompleteOutboundDispatch
\* maintain together: the strengthening that makes AtMostOneCopy inductive.
SendInvariant ==
    SendersHoldDispatch /\ DispatchShape /\ SafeMeansRefused /\ RetryAfterRefusal
=============================================================================
