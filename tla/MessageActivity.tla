-------------------------- MODULE MessageActivity ---------------------------
(***************************************************************************)
(* Incoming messages, the activity they leave on their conversation, and   *)
(* the deletion of conversations:                                          *)
(*   service/channel_ingress_service.go      ingest                        *)
(*   repository/message_channel_ingress.go   HasChannelMessage,            *)
(*                                           CreateChannelMessage          *)
(*   repository/message_repository.go        CreateWithConversationReopen, *)
(*       applyMessageActivity, cancelOrphanedCreate,                       *)
(*       ReconcilePendingActivity                                          *)
(*   repository/conversation_repository.go   MessageTargetExists,          *)
(*       applyMessageActivity, Delete, ReconcilePendingDeletes             *)
(*   repository/message_conversation_cleanup.go  CleanupConversation       *)
(*   repository/contact_repository.go            Delete                    *)
(*                                                                         *)
(* Messages (MSG) and conversations (CON) are in stores of their own: no   *)
(* transaction spans both.  One action is one statement or transaction of  *)
(* one store, with statement snapshots as PostgreSQL's read committed      *)
(* isolation gives them.                                                   *)
(***************************************************************************)
EXTENDS Naturals, FiniteSets, Sequences

CONSTANTS
    Events,       \* messages a channel's provider delivers, once or more
    Calls,        \* messages a visitor posts, with the wish to reopen
    CallTo,       \* the conversation each visitor has on screen
    Slots,        \* bound: requests served side by side
    Serves,       \* bound: the messages a slot takes
    PageSize,     \* the limit given to ReconcilePendingActivity
    MaxConversation,  \* bound: conversations of the contact
    MaxTrouble,   \* bound: changes by people, deletions, store errors and crashes, in all
    NoMessage

Messages == Events \cup Calls
Workers == 1..Slots
Reconciler == 0  \* the loop of reconcileMessageActivity in cmd/server/main.go
Processes == Workers \cup {Reconciler}
Conversations == 1..MaxConversation

ASSUME BoundsAssumption == PageSize \in Nat \ {0} /\ MaxConversation \in Nat \ {0} /\ {Slots, MaxTrouble} \subseteq Nat
ASSUME NamesAssumption == NoMessage \notin Messages /\ Events \cap Calls = {}
ASSUME FiniteAssumption == IsFiniteSet(Messages)
ASSUME CallAssumption == CallTo \in [Calls -> Conversations]
ASSUME ServesAssumption == Serves \in [Workers -> SUBSET Messages]

VARIABLES
    con,       \* CON's conversations: status, object_version, unread_count
    activity,  \* CON's journal: the activity receipt of each message
    rows,      \* MSG's rows
    journal,   \* MSG's journal: the create change of each message
    process,   \* what each request and the reconciler hold in memory
    page,      \* changes the reconciler read and has not dealt with
    cursor,    \* reconcileID
    cleanup,   \* how far Delete of each conversation is, and the ids it read
    person,    \* CUS's contact: there, leaving (CON has let go of it) or gone
    detached,  \* conversations whose contact_id was set to 0
    overtaken, \* history: visitors' messages whose conversation people changed since the handler
               \* read it and before their activity was applied
    trouble    \* how much of MaxTrouble was used

store == <<rows, journal>>
loop == <<page, cursor>>
contacts == <<person, detached>>
vars == <<con, activity, rows, journal, process, page, cursor, cleanup, person, detached, overtaken, trouble>>

MaxVersion == 1 + MaxTrouble + Cardinality(Messages)

Statuses == {"none", "open", "resolved", "deleting", "gone"}
Steps == {"idle", "ensure", "create", "look", "apply", "mark"}

\* What the check of the contact before a reopening answered, if it was made.
Eligibility == {"unasked", "free", "blocked"}

IdleProcess == [pc |-> "idle", m |-> NoMessage, c |-> 1, expected |-> 0, reopen |-> FALSE, contact |-> "unasked"]
NoChange == [status |-> "none", id |-> 0, c |-> 1, expected |-> 0, reopen |-> FALSE]
NoActivity == [applied |-> FALSE, reopened |-> FALSE, contact |-> "unasked"]

\* MessageTargetExists
Exists(c) == con[c].status \in {"open", "resolved"}
Committed(m) == journal[m].status # "none"

\* FindSummaryByID finds nobody for a conversation.
NoContact(c) == c \in detached \/ person = "gone"

\* The contact has one conversation, an old one.
Init ==
    /\ con = [c \in Conversations |->
                [status |-> IF c = 1 THEN "resolved" ELSE "none", version |-> 1, unread |-> 0]]
    /\ activity = [m \in Messages |-> NoActivity]
    /\ rows = {}
    /\ journal = [m \in Messages |-> NoChange]
    /\ process = [p \in Processes |-> IdleProcess]
    /\ page = <<>>
    /\ cursor = 0
    /\ cleanup = [c \in Conversations |-> [pc |-> "idle", ids |-> {}]]
    /\ person = "there" /\ detached = {}
    /\ overtaken = {}
    /\ trouble = 0

Goto(p, step) == process' = [process EXCEPT ![p].pc = step]

\* The same, when only the message and its conversation still matter to p.
After(p, step) ==
    process' = [process EXCEPT ![p] = [IdleProcess EXCEPT !.pc = step, !.m = process[p].m, !.c = process[p].c]]

Finish(p) == process' = [process EXCEPT ![p] = IdleProcess]
At(p, step) == process[p].pc = step
Trouble == trouble < MaxTrouble /\ trouble' = trouble + 1

----------------------------------------------------------------------------
(* Creation *)

\* ingest: HasChannelMessage finds no receipt, and EnsureChannelContact finds the
\* contact.  (Where there is a receipt the request ends and nothing changes; a contact
\* that was deleted is not created again, and the request ends with an error.)
Receive(w, e) ==
    /\ At(w, "idle") /\ e \in Serves[w] /\ ~Committed(e) /\ person # "gone"
    /\ process' = [process EXCEPT ![w].pc = "ensure", ![w].m = e]
    /\ UNCHANGED <<con, activity, store, loop, cleanup, overtaken, trouble, contacts>>


\* The statuses EnsureChannelConversation looks for; pending and snoozed
\* conversations are counted among the open ones.
Reusable(c) == con[c].status = "open" /\ c \notin detached

\* EnsureChannelConversation: the newest conversation that can be reused, or a
\* new one, under the lock of the session row.
Ensure(w) ==
    /\ At(w, "ensure")
    /\ IF \E c \in Conversations : Reusable(c)
       THEN /\ \E c \in Conversations :
                 /\ Reusable(c) /\ \A d \in Conversations : Reusable(d) => d <= c
                 /\ process' = [process EXCEPT ![w].pc = "create", ![w].c = c]
            /\ UNCHANGED con
       ELSE \E c \in Conversations :
              /\ con[c].status = "none" /\ \A d \in Conversations : con[d].status = "none" => c <= d
              /\ con' = [con EXCEPT ![c].status = "open"]
              /\ process' = [process EXCEPT ![w].pc = "create", ![w].c = c]
    /\ UNCHANGED <<activity, store, loop, cleanup, overtaken, trouble, contacts>>

\* EnsureChannelConversation looks for the contact before its transaction.
EnsureFails(w) ==
    /\ At(w, "ensure") /\ person = "gone"
    /\ Finish(w)
    /\ UNCHANGED <<con, activity, store, loop, cleanup, overtaken, trouble, contacts>>

\* A visitor's message: the handler reads the conversation and asks for it to be
\* reopened when it is resolved, with the version it read.  (From a blocked contact,
\* or in a muted conversation, it asks for nothing, and the message goes the way of
\* a provider's.)  The conversation has to be the visitor's.
Call(w, m) ==
    LET c == CallTo[m] IN
    /\ At(w, "idle") /\ m \in Serves[w] /\ ~Committed(m) /\ Exists(c) /\ ~NoContact(c)
    /\ \A v \in Workers : process[v].m # m
    /\ process' = [process EXCEPT ![w] =
         [IdleProcess EXCEPT !.pc = "create", !.m = m, !.c = c, !.expected = con[c].version,
                             !.reopen = con[c].status = "resolved"]]
    /\ overtaken' = overtaken \ {m}
    /\ UNCHANGED <<con, activity, store, loop, cleanup, trouble, contacts>>

\* MessageTargetExists before the commit: the conversation is gone, and the request
\* ends with an error.  Where it is there, it was there already when the request
\* read it, and it may be gone again when Commit runs.
CheckFails(w) ==
    /\ At(w, "create") /\ ~Exists(process[w].c)
    /\ Finish(w)
    /\ UNCHANGED <<con, activity, store, loop, cleanup, overtaken, trouble, contacts>>

\* The step after which p applies the activity of m (applyMessageActivity).
Resume(m) == IF journal'[m].reopen THEN "look" ELSE "apply"

\* One MSG transaction: the receipt of a provider's event is new, and the row and
\* the pending change are written with it; or another request wrote it before.
Commit(w) ==
    LET m == process[w].m
    IN  /\ At(w, "create")
        /\ IF Committed(m)
           THEN Finish(w) /\ UNCHANGED store
           ELSE /\ rows' = rows \cup {m}
                /\ journal' = [journal EXCEPT ![m] =
                     [status |-> "pending", id |-> Cardinality({n \in Messages : Committed(n)}) + 1,
                      c |-> process[w].c, expected |-> process[w].expected, reopen |-> process[w].reopen]]
                /\ Goto(w, Resume(m))
        /\ UNCHANGED <<con, activity, loop, cleanup, overtaken, trouble, contacts>>

----------------------------------------------------------------------------
(* Activity: by the request that created the message, or by the reconciler *)

\* The snapshot read before the transaction says that the conversation would be
\* reopened.
Asks(c, expected) == con[c].version = expected /\ con[c].status = "resolved"

\* Variant: a contact that cannot be read does not stop the reopening.
LookWithoutContact(p) ==
    LET m == process[p].m
        c == process[p].c
    IN  /\ At(p, "look")
        /\ \/ /\ activity[m].applied
              /\ After(p, "mark")
           \/ /\ ~activity[m].applied /\ Exists(c)
              /\ \E answer \in IF Asks(c, process[p].expected) THEN Eligibility ELSE {"unasked"} :
                   process' = [process EXCEPT ![p].pc = "apply", ![p].contact = answer]
        /\ UNCHANGED <<con, activity, store, loop, cleanup, overtaken, trouble, contacts>>

\* applyMessageActivity of CON, before its transaction: an activity receipt answers;
\* else the contact is asked whether the conversation may be reopened, when the
\* snapshot says that this would be done.  (Where there is no contact: see Abandon.)
Look(p) ==
    LET m == process[p].m
        c == process[p].c
        asks == Asks(c, process[p].expected)
    IN  /\ At(p, "look")
        /\ \/ /\ activity[m].applied
              /\ After(p, "mark")
           \/ /\ ~activity[m].applied /\ Exists(c)
              /\ asks => ~NoContact(c)
              /\ \E answer \in IF asks THEN {"free", "blocked"} ELSE {"unasked"} :
                   process' = [process EXCEPT ![p].pc = "apply", ![p].contact = answer]
        /\ UNCHANGED <<con, activity, store, loop, cleanup, overtaken, trouble, contacts>>

\* Variant: a newer change of the conversation does not veto the reopening.
ReopensAnyVersion(p, c) ==
    process[p].reopen /\ process[p].contact # "blocked" /\ con[c].status = "resolved"

Reopens(p, c) ==
    /\ process[p].reopen /\ process[p].contact # "blocked"
    /\ con[c].status = "resolved" /\ con[c].version = process[p].expected

\* Variant: the activity receipt is not looked for under the lock.
ApplyAgain(p) ==
    LET m == process[p].m
        c == process[p].c
    IN  /\ At(p, "apply")
        /\ Exists(c)
        /\ con' = [con EXCEPT ![c].version = @ + 1, ![c].unread = @ + 1,
                              ![c].status = IF Reopens(p, c) THEN "open" ELSE @]
        /\ activity' = [activity EXCEPT ![m] =
             [applied |-> TRUE, reopened |-> Reopens(p, c),
              contact |-> IF Reopens(p, c) THEN process[p].contact ELSE "unasked"]]
        /\ After(p, "mark")
        /\ UNCHANGED <<store, loop, cleanup, overtaken, trouble, contacts>>

\* CON's transaction: under the row lock, once per message.
Apply(p) ==
    LET m == process[p].m
        c == process[p].c
    IN  /\ At(p, "apply")
        /\ Exists(c)
        /\ \/ /\ activity[m].applied
              /\ After(p, "mark") /\ UNCHANGED <<con, activity>>
           \/ /\ ~activity[m].applied
              /\ con' = [con EXCEPT ![c].version = @ + 1, ![c].unread = @ + 1,
                                    ![c].status = IF Reopens(p, c) THEN "open" ELSE @]
              /\ activity' = [activity EXCEPT ![m] =
                   [applied |-> TRUE, reopened |-> Reopens(p, c),
                    contact |-> IF Reopens(p, c) THEN process[p].contact ELSE "unasked"]]
              /\ After(p, "mark")
        /\ UNCHANGED <<store, loop, cleanup, overtaken, trouble, contacts>>

\* The journal's change is delivered, whatever its status is by now.
Mark(p) ==
    /\ At(p, "mark")
    /\ journal' = [journal EXCEPT ![process[p].m].status = "delivered"]
    /\ Finish(p)
    /\ UNCHANGED <<con, activity, rows, loop, cleanup, overtaken, trouble, contacts>>

\* The journal with the pending changes of a set of messages superseded.
Superseded(ms) ==
    [m \in Messages |-> IF m \in ms /\ journal[m].status = "pending"
                        THEN [journal[m] EXCEPT !.status = "superseded"] ELSE journal[m]]

\* CON refuses the activity: its conversation is gone (deleting, or without a row); or
\* the contact to ask is not there, which is an error every time it is tried.
Refused(p) ==
    LET c == process[p].c
    IN  /\ At(p, "look") => ~activity[process[p].m].applied
        /\ \/ process[p].pc \in {"look", "apply"} /\ ~Exists(c)
           \/ At(p, "look") /\ Exists(c) /\ Asks(c, process[p].expected) /\ NoContact(c)

\* Variant: a conversation that cannot be read counts as one that is gone.
AbandonUnreadIsGone(p) ==
    LET m == process[p].m
    IN  /\ \/ Refused(p) /\ UNCHANGED trouble
           \/ process[p].pc \in {"look", "apply", "mark"} /\ Trouble
        /\ \/ ~Refused(p) /\ UNCHANGED store
           \/ rows' = rows \ {m} /\ journal' = Superseded({m})
        /\ Finish(p)
        /\ UNCHANGED <<con, activity, loop, cleanup, overtaken, contacts>>

\* Variant: the row is left to the cleanup of the conversation.
AbandonChangeOnly(p) ==
    LET m == process[p].m
    IN  /\ \/ Refused(p) /\ UNCHANGED trouble
           \/ process[p].pc \in {"look", "apply", "mark"} /\ Trouble
        /\ \/ (Exists(process[p].c) \/ trouble' # trouble) /\ UNCHANGED store
           \/ ~Exists(process[p].c) /\ journal' = Superseded({m}) /\ UNCHANGED rows
        /\ Finish(p)
        /\ UNCHANGED <<con, activity, loop, cleanup, overtaken, contacts>>

\* Variant: the change of a conversation that is there is taken for delivered.
AbandonDelivered(p) ==
    LET m == process[p].m
    IN  /\ \/ Refused(p) /\ UNCHANGED trouble
           \/ process[p].pc \in {"look", "apply", "mark"} /\ Trouble
        /\ \/ ~Exists(process[p].c) /\ rows' = rows \ {m} /\ journal' = Superseded({m})
           \/ /\ Exists(process[p].c)
              /\ journal' = [journal EXCEPT ![m].status = "delivered"] /\ UNCHANGED rows
        /\ Finish(p)
        /\ UNCHANGED <<con, activity, loop, cleanup, overtaken, contacts>>

\* applyMessageActivity is an error: CON refuses, or a store does not answer one of
\* its steps.  Then CON is asked whether the conversation is gone.  If it is,
\* cancelOrphanedCreate: the row goes and the pending change is superseded, in one
\* transaction.  If it is there, or one of the stores does not answer now, both
\* stay for the reconciler.  (One action: an error changes nothing and a
\* conversation that is gone stays gone, so what others do between the error and
\* the transaction they could as well have done before the error.)
Abandon(p) ==
    LET m == process[p].m
    IN  /\ \/ Refused(p) /\ UNCHANGED trouble
           \/ process[p].pc \in {"look", "apply", "mark"} /\ Trouble
        /\ \/ (Exists(process[p].c) \/ trouble' # trouble) /\ UNCHANGED store
           \/ ~Exists(process[p].c) /\ rows' = rows \ {m} /\ journal' = Superseded({m})
        /\ Finish(p)
        /\ UNCHANGED <<con, activity, loop, cleanup, overtaken, contacts>>

----------------------------------------------------------------------------
(* ReconcilePendingActivity *)

PendingAfter(k) == {m \in Messages : journal[m].status = "pending" /\ journal[m].id > k}

\* Variant: the page holds all of them.
PageUnlimited(ms) ==
    LET Rank(m) == Cardinality({n \in ms : journal[n].id <= journal[m].id})
    IN  [i \in 1..Cardinality(ms) |-> CHOOSE m \in ms : Rank(m) = i]

\* The first changes of a set, in the order of their ids, as many as a page holds.
PageOf(ms) ==
    LET Rank(m) == Cardinality({n \in ms : journal[n].id <= journal[m].id})
        size == IF Cardinality(ms) < PageSize THEN Cardinality(ms) ELSE PageSize
    IN  [i \in 1..size |-> CHOOSE m \in ms : Rank(m) = i]

\* The id of the last change of a page, or k when it is empty.
LastId(pg, k) == IF pg = <<>> THEN k ELSE journal[pg[Len(pg)]].id

\* Variant: a page that is empty does not send the reconciler back to the start.
ScanOnward ==
    /\ At(Reconciler, "idle") /\ page = <<>>
    /\ page' = PageOf(PendingAfter(cursor)) /\ cursor' = LastId(page', cursor)
    /\ UNCHANGED <<con, activity, store, process, cleanup, overtaken, trouble, contacts>>

\* Read the next page after the cursor; at the end, start again.
Scan ==
    /\ At(Reconciler, "idle") /\ page = <<>>
    /\ LET start == IF PendingAfter(cursor) = {} THEN 0 ELSE cursor
       IN  page' = PageOf(PendingAfter(start)) /\ cursor' = LastId(page', start)
    /\ UNCHANGED <<con, activity, store, process, cleanup, overtaken, trouble, contacts>>

\* The next change of the page: its message is read, or is missing and passed over.
Take ==
    LET m == Head(page)
    IN  /\ At(Reconciler, "idle") /\ page # <<>>
        /\ page' = Tail(page)
        /\ IF m \in rows
           THEN process' = [process EXCEPT ![Reconciler] =
                  [IdleProcess EXCEPT !.pc = IF journal[m].reopen THEN "look" ELSE "apply",
                     !.m = m, !.c = journal[m].c, !.expected = journal[m].expected, !.reopen = journal[m].reopen]]
           ELSE UNCHANGED process
        /\ UNCHANGED <<con, activity, store, cursor, cleanup, overtaken, trouble, contacts>>

----------------------------------------------------------------------------
(* Conversations *)

\* The handler read the conversation for m, and the activity of m is not applied.
Posted(m) == ~activity[m].applied /\ (Committed(m) \/ \E w \in Workers : process[w].m = m)

\* updateWithAutomation: people resolve or open a conversation, or change
\* something else of it (its assignee, whether it is muted): always a new version.
Change(c) ==
    /\ Exists(c) /\ Trouble
    /\ \E status \in {"open", "resolved"} :
         con' = [con EXCEPT ![c].version = @ + 1, ![c].status = status]
    /\ overtaken' = overtaken \cup {m \in Calls : Posted(m) /\ CallTo[m] = c}
    /\ UNCHANGED <<activity, store, process, loop, cleanup, contacts>>

\* Delete: the durable marker.
MarkDeleting(c) ==
    /\ Exists(c) /\ Trouble
    /\ con' = [con EXCEPT ![c].status = "deleting", ![c].version = @ + 1]
    /\ UNCHANGED <<activity, store, process, loop, cleanup, overtaken, contacts>>

\* CleanupConversation reads the ids of the conversation's messages (Pluck).
CleanupRead(c) ==
    /\ con[c].status = "deleting" /\ cleanup[c].pc = "idle"
    /\ cleanup' = [cleanup EXCEPT ![c] = [pc |-> "read", ids |-> {m \in rows : journal[m].c = c}]]
    /\ UNCHANGED <<con, activity, store, process, loop, overtaken, trouble, contacts>>

\* Then it deletes the rows of the conversation, those written since it read the
\* ids too, and supersedes the pending changes of the ids; and commits.
CleanupDelete(c) ==
    /\ cleanup[c].pc = "read"
    /\ rows' = {m \in rows : journal[m].c # c}
    /\ journal' = Superseded(cleanup[c].ids)
    /\ cleanup' = [cleanup EXCEPT ![c] = [pc |-> "cleaned", ids |-> {}]]
    /\ UNCHANGED <<con, activity, process, loop, overtaken, trouble, contacts>>

\* Delete: the conversation's row goes last.
Remove(c) ==
    /\ cleanup[c].pc = "cleaned"
    /\ con' = [con EXCEPT ![c].status = "gone"]
    /\ cleanup' = [cleanup EXCEPT ![c].pc = "idle"]
    /\ UNCHANGED <<activity, store, process, loop, overtaken, trouble, contacts>>

\* An owner is unavailable or the process ends; ReconcilePendingDeletes starts
\* again from the marker.
DeleteFails(c) ==
    /\ cleanup[c].pc # "idle" /\ Trouble
    /\ cleanup' = [cleanup EXCEPT ![c] = [pc |-> "idle", ids |-> {}]]
    /\ UNCHANGED <<con, activity, store, process, loop, overtaken, contacts>>

\* ContactRepository.Delete, first DetachContactIfInactive: CON lets go of the contact
\* in all its conversations, and no version says so.  (It refuses while one is open or
\* pending; what is "open" here may be snoozed, which does not hinder it.)
Detach ==
    /\ person # "gone" /\ Trouble
    /\ person' = "leaving"
    /\ detached' = detached \cup {c \in Conversations : con[c].status \notin {"none", "gone"}}
    /\ UNCHANGED <<con, activity, store, process, loop, cleanup, overtaken>>

\* Then CUS deletes its row.
RemoveContact ==
    /\ person = "leaving" /\ person' = "gone"
    /\ UNCHANGED <<con, activity, store, process, loop, cleanup, detached, overtaken, trouble>>

Crash(w) ==
    /\ ~At(w, "idle") /\ Finish(w) /\ Trouble
    /\ UNCHANGED <<con, activity, store, loop, cleanup, overtaken, contacts>>

\* The server with the reconciler ends: the cursor is only in memory.
CrashReconciler ==
    /\ Finish(Reconciler) /\ page' = <<>> /\ cursor' = 0 /\ Trouble
    /\ UNCHANGED <<con, activity, store, cleanup, overtaken, contacts>>

----------------------------------------------------------------------------

Activity(p) == Look(p) \/ Apply(p) \/ Mark(p) \/ Abandon(p)
Serve(w) == Ensure(w) \/ EnsureFails(w) \/ CheckFails(w) \/ Commit(w) \/ Activity(w)
Reconcile == Scan \/ Take \/ Activity(Reconciler)
Delete(c) == CleanupRead(c) \/ CleanupDelete(c) \/ Remove(c)

Next ==
    \/ \E w \in Workers : Serve(w) \/ Crash(w)
    \/ \E w \in Workers, e \in Events : Receive(w, e)
    \/ \E w \in Workers, m \in Calls : Call(w, m)
    \/ Reconcile \/ CrashReconciler
    \/ \E c \in Conversations : Change(c) \/ MarkDeleting(c) \/ Delete(c) \/ DeleteFails(c)
    \/ Detach \/ RemoveContact

Spec == Init /\ [][Next]_vars

\* Requests and deletions that began go on, the reconcilers run every five
\* seconds, and a provider sends an event until it is answered without an error.
Fairness ==
    /\ \A w \in Workers : WF_vars(Serve(w))
    /\ \A e \in Events : WF_vars(\E w \in Workers : Receive(w, e))
    /\ WF_vars(Reconcile)
    /\ \A c \in Conversations : WF_vars(Delete(c))

FairSpec == Spec /\ Fairness

----------------------------------------------------------------------------
(* Properties *)

\* Types of the two stores and of what processes hold.
TypeOK ==
    /\ con \in [Conversations -> [status : Statuses, version : 1..MaxVersion, unread : 0..MaxVersion]]
    /\ activity \in [Messages -> [applied : BOOLEAN, reopened : BOOLEAN, contact : Eligibility]]
    /\ rows \subseteq Messages
    /\ journal \in [Messages -> [status : {"none", "pending", "delivered", "superseded"},
                                 id : 0..Cardinality(Messages), c : Conversations,
                                 expected : 0..MaxVersion, reopen : BOOLEAN]]
    /\ process \in [Processes -> [pc : Steps, m : Messages \cup {NoMessage}, c : Conversations,
                                  expected : 0..MaxVersion, reopen : BOOLEAN, contact : Eligibility]]
    /\ page \in Seq(Messages) /\ Len(page) <= PageSize
    /\ cursor \in 0..Cardinality(Messages)
    /\ cleanup \in [Conversations -> [pc : {"idle", "read", "cleaned"}, ids : SUBSET Messages]]
    /\ person \in {"there", "leaving", "gone"} /\ detached \subseteq Conversations
    /\ overtaken \subseteq Calls
    /\ trouble \in 0..MaxTrouble

\* However often an activity is delivered (by the request, by the reconciler, by
\* both at once, again after an answer that was lost), it counts once: the unread
\* count of a conversation is that of the messages with an activity in it.
CountedOnce ==
    \A c \in Conversations :
        con[c].unread = Cardinality({m \in Messages : activity[m].applied /\ journal[m].c = c})

\* A change is only delivered in MSG's journal when CON's receipt of it is written.
DeliveredIsApplied ==
    \A m \in Messages : journal[m].status = "delivered" => activity[m].applied

\* A committed message loses its row, or its change is given up, only for the
\* deletion of its conversation; never because a store did not answer.
KeptUnlessDeleted ==
    \A m \in Messages :
        Committed(m) /\ (m \notin rows \/ journal[m].status = "superseded") => ~Exists(journal[m].c)

\* A row that is in a conversation after its messages were deleted can still be
\* found: its change is pending, and the reconciler will cancel it.
OrphansPending ==
    \A m \in rows :
        con[journal[m].c].status = "gone" \/ cleanup[journal[m].c].pc = "cleaned"
            => journal[m].status = "pending"

\* A message reopens a conversation only when its contact was asked for and not
\* blocked: what the snapshot before the transaction said of status and version
\* still holds in it.
ReopenedWhenFree ==
    \A m \in Messages : activity[m].reopened => activity[m].contact = "free"

\* A message never reopens a conversation over a change that someone made after
\* the handler read it ("a newer owner mutation vetoes the requested transition").
NewerChangeVetoes ==
    \A m \in overtaken : ~activity[m].reopened

\* The activity of a message is refused at every replay: the conversation is there and
\* as the handler read it, so its contact has to be asked, and the contact was deleted.
Unanswerable(m) ==
    LET c == journal[m].c
    IN  /\ journal[m].reopen /\ ~activity[m].applied
        /\ Exists(c) /\ Asks(c, journal[m].expected) /\ NoContact(c)

\* No change whose message is there stays pending for good, unless it waits for a
\* contact that was deleted; and no row stays in a conversation that is gone.
Settles ==
    <>[](\A m \in rows : /\ journal[m].status = "pending" => Unanswerable(m)
                        /\ con[journal[m].c].status # "gone")

=============================================================================
