----------------------- MODULE MessageActivityProofs ------------------------
(***************************************************************************)
(* Proofs about MessageActivity, for any messages, conversations, requests *)
(* and bounds: activities are counted once, delivered means applied, rows  *)
(* and changes are only given up with their conversation, orphans stay     *)
(* findable, and no message reopens a conversation unchecked or over a     *)
(* newer change; every store, process and page keeps its type.             *)
(***************************************************************************)
EXTENDS MessageActivity, FiniteSetTheorems, TLAPS

USE BoundsAssumption, NamesAssumption, FiniteAssumption, CallAssumption, ServesAssumption

----------------------------------------------------------------------------
(* The inductive invariant *)

Working(p) == process[p].pc \in {"look", "apply", "mark"}
Bound(p) == process[p].pc \in {"create", "look", "apply", "mark"}

ConSet == [Conversations -> [status : Statuses, version : Nat, unread : Nat]]
ActivitySet == [Messages -> [applied : BOOLEAN, reopened : BOOLEAN, contact : Eligibility]]
JournalSet == [Messages -> [status : {"none", "pending", "delivered", "superseded"}, id : Nat,
                            c : Conversations, expected : Nat, reopen : BOOLEAN]]
ProcessSet == [Processes -> [pc : Steps, m : Messages \cup {NoMessage}, c : Conversations,
                             expected : Nat, reopen : BOOLEAN, contact : Eligibility]]
CleanupSet == [Conversations -> [pc : {"idle", "read", "cleaned"}, ids : SUBSET Messages]]

Typed ==
    /\ con \in ConSet /\ activity \in ActivitySet
    /\ rows \subseteq Messages /\ journal \in JournalSet
    /\ process \in ProcessSet /\ cleanup \in CleanupSet
    /\ overtaken \subseteq Calls

\* A process that serves a message holds one; while it works on its activity, what
\* it holds is what the journal says.
HeldBy(p) ==
    /\ process[p].pc # "idle" => process[p].m \in Messages
    /\ p = Reconciler => process[p].pc \notin {"ensure", "create"}
    /\ process[p].pc \in {"idle", "ensure"} => process[p].expected = 0
    /\ Bound(p) => con[process[p].c].status # "none"
    /\ Working(p) => Committed(process[p].m) /\ journal[process[p].m].c = process[p].c
    /\ process[p].pc \in {"look", "apply"} =>
         /\ journal[process[p].m].expected = process[p].expected
         /\ journal[process[p].m].reopen = process[p].reopen
    /\ process[p].pc = "mark" => activity[process[p].m].applied
Held == \A p \in Processes : HeldBy(p)

\* What is applied or in a row was committed, to a conversation there was.
RecordedOf(m) ==
    /\ activity[m].applied \/ m \in rows => Committed(m)
    /\ activity[m].reopened => activity[m].applied
    /\ Committed(m) => /\ con[journal[m].c].status # "none"
                       /\ journal[m].expected <= con[journal[m].c].version
Recorded == \A m \in Messages : RecordedOf(m)

\* Cleanup only runs on a conversation that is marked, for the changes in it.
CleanupMarked ==
    \A c \in Conversations :
        /\ cleanup[c].pc # "idle" => con[c].status = "deleting"
        /\ \A m \in cleanup[c].ids : Committed(m) /\ journal[m].c = c

\* The strengthening of OrphansPending: such a row has no activity either.
OrphansUntouched ==
    \A m \in rows :
        con[journal[m].c].status = "gone" \/ cleanup[journal[m].c].pc = "cleaned"
            => journal[m].status = "pending" /\ ~activity[m].applied

\* Expectations are versions that the conversation had, and what a look saw of the
\* conversation is still so while its version is the one expected.
ExpectedBy(p) ==
    /\ Bound(p) => process[p].expected <= con[process[p].c].version
    /\ process[p].pc = "apply" /\ process[p].reopen /\ process[p].contact = "unasked"
         /\ con[process[p].c].version = process[p].expected
         => con[process[p].c].status # "resolved"
Expected == \A p \in Processes : ExpectedBy(p)

\* A visitor's message is in the conversation on screen; and a change after the
\* handler's reading is a newer version than the one the handler holds.
OvertakenAt(m, p) ==
    process[p].m = m /\ process[p].pc # "idle" =>
        /\ process[p].pc # "ensure" /\ process[p].c = CallTo[m]
        /\ m \in overtaken /\ process[p].pc # "mark" /\ ~activity[m].applied
             => process[p].expected < con[CallTo[m]].version
Overtaken ==
    \A m \in Calls :
        /\ Committed(m) => journal[m].c = CallTo[m]
        /\ \A p \in Processes : OvertakenAt(m, p)
        /\ m \in overtaken /\ ~activity[m].applied /\ Committed(m)
             => journal[m].expected < con[CallTo[m]].version

IInv ==
    /\ Typed /\ Held /\ Recorded /\ CleanupMarked /\ OrphansUntouched /\ Expected /\ Overtaken
    /\ CountedOnce /\ DeliveredIsApplied /\ KeptUnlessDeleted /\ ReopenedWhenFree /\ NewerChangeVetoes

\* What no step takes back: versions only grow, and with every change that could
\* make a conversation resolved; a conversation that is deleted stays so; what was
\* committed stays what it is, but for its status; an activity stays applied.
ConSteadyAt(c) ==
    /\ con[c].version <= con'[c].version
    /\ con'[c].version = con[c].version /\ con'[c].status = "resolved" => con[c].status = "resolved"
    /\ con[c].status # "none" => con'[c].status # "none"
    /\ con[c].status \in {"deleting", "gone"} => con'[c].status \in {"deleting", "gone"}
    /\ con[c].status # "gone" /\ con'[c].status = "gone" => cleanup[c].pc = "cleaned" /\ cleanup'[c].pc = "idle"
Steady ==
    /\ \A c \in Conversations : ConSteadyAt(c)
    /\ \A m \in Messages : Committed(m) =>
         /\ Committed(m)' /\ journal'[m].c = journal[m].c
         /\ journal'[m].expected = journal[m].expected /\ journal'[m].reopen = journal[m].reopen
    /\ \A m \in Messages : activity[m].applied => activity'[m] = activity[m]

----------------------------------------------------------------------------
(* Types *)

\* A process given other values of its fields, any of the kind a process has, leaves
\* the processes of their type.
LEMMA ProcessWritten ==
    ASSUME process \in ProcessSet, NEW p \in Processes,
           NEW v \in [pc : Steps, m : Messages \cup {NoMessage}, c : Conversations,
                      expected : Nat, reopen : BOOLEAN, contact : Eligibility],
           process' = [process EXCEPT ![p] = v]
    PROVE  process' \in ProcessSet
BY DEF ProcessSet

LEMMA ProcessEffect ==
    ASSUME process \in ProcessSet, NEW p \in Processes,
           NEW step \in Steps, Goto(p, step) \/ After(p, step) \/ Finish(p)
    PROVE  process' \in ProcessSet
<1>1. 1 \in Conversations
  BY DEF Conversations
<1>2. CASE Goto(p, step)
  BY <1>2 DEF Goto, ProcessSet
<1>3. CASE After(p, step)
  BY <1>1, <1>3 DEF After, ProcessSet, IdleProcess, Eligibility
<1>4. CASE Finish(p)
  BY <1>1, <1>4 DEF Finish, ProcessSet, IdleProcess, Steps, Eligibility
<1> QED
  BY <1>2, <1>3, <1>4

LEMMA SupersededType ==
    ASSUME journal \in JournalSet, NEW ms
    PROVE  /\ Superseded(ms) \in JournalSet
           /\ \A m \in Messages :
                /\ Superseded(ms)[m].c = journal[m].c
                /\ Superseded(ms)[m].expected = journal[m].expected
                /\ Superseded(ms)[m].reopen = journal[m].reopen
                /\ m \notin ms => Superseded(ms)[m] = journal[m]
                /\ Superseded(ms)[m].status = IF m \in ms /\ journal[m].status = "pending"
                                              THEN "superseded" ELSE journal[m].status
BY DEF Superseded, JournalSet

LEMMA TypedStep == Typed /\ Held /\ [Next]_vars => Typed'
<1> SUFFICES ASSUME Typed, Held, [Next]_vars PROVE Typed'
  OBVIOUS
<1> USE DEF Workers, Reconciler, Processes
<1>0. /\ con \in ConSet /\ activity \in ActivitySet /\ journal \in JournalSet
      /\ process \in ProcessSet /\ cleanup \in CleanupSet
      /\ rows \subseteq Messages /\ overtaken \subseteq Calls
  BY DEF Typed
<1>1. ASSUME NEW w \in Workers, NEW e \in Events, Receive(w, e) PROVE Typed'
  <2>1. process' \in ProcessSet
    BY <1>0, <1>1 DEF Receive, ProcessSet, Steps, Messages
  <2> QED
    BY <1>0, <1>1, <2>1 DEF Receive, Typed, store
<1>2. ASSUME NEW w \in Workers, Ensure(w) PROVE Typed'
  <2>1. process' \in ProcessSet
    <3>1. PICK c \in Conversations : process' = [process EXCEPT ![w].pc = "create", ![w].c = c]
      BY <1>2 DEF Ensure
    <3>2. "create" \in Steps /\ w \in Processes
      BY DEF Steps
    <3>3. process[w] \in [pc : Steps, m : Messages \cup {NoMessage}, c : Conversations,
                          expected : Nat, reopen : BOOLEAN, contact : Eligibility]
      BY <1>0, <3>2 DEF ProcessSet
    <3>4. [process[w] EXCEPT !.pc = "create", !.c = c]
            \in [pc : Steps, m : Messages \cup {NoMessage}, c : Conversations,
                 expected : Nat, reopen : BOOLEAN, contact : Eligibility]
      BY <3>2, <3>3
    <3>5. process' = [process EXCEPT ![w] = [process[w] EXCEPT !.pc = "create", !.c = c]]
      BY <1>0, <3>1, <3>2 DEF ProcessSet
    <3> QED
      BY <1>0, <3>4, <3>5, ProcessWritten
  <2>2. con' \in ConSet
    <3>1. CASE con' = con
      BY <1>0, <3>1
    <3>2. ASSUME NEW c \in Conversations, con' = [con EXCEPT ![c].status = "open"] PROVE con' \in ConSet
      BY <1>0, <3>2 DEF ConSet, Statuses
    <3> QED
      BY <1>2, <3>1, <3>2 DEF Ensure
  <2> QED
    BY <1>0, <1>2, <2>1, <2>2 DEF Ensure, Typed, store
<1>3. ASSUME NEW w \in Workers, NEW m \in Calls, Call(w, m) PROVE Typed'
  <2>1. CallTo[m] \in Conversations /\ con[CallTo[m]].version \in Nat /\ m \in Messages
    BY <1>0, <1>3 DEF ConSet, Messages
  <2>2. process' \in ProcessSet
    BY <1>0, <1>3, <2>1 DEF Call, ProcessSet, IdleProcess, Steps, Eligibility
  <2> QED
    BY <1>0, <1>3, <2>2 DEF Call, Typed, store
<1>4. ASSUME NEW w \in Workers, CheckFails(w) PROVE Typed'
  BY <1>0, <1>4, ProcessEffect DEF CheckFails, Typed, Steps, store
<1>5. ASSUME NEW w \in Workers, Commit(w) PROVE Typed'
  <2> DEFINE m == process[w].m
  <2>1. CASE Committed(m)
    BY <1>0, <1>5, <2>1, ProcessEffect DEF Commit, Typed, Steps, store
  <2>2. CASE ~Committed(m)
    <3>1. Cardinality({n \in Messages : Committed(n)}) + 1 \in Nat
      BY FS_Subset, FS_CardinalityType
    <3>2. journal' \in JournalSet
      <4> DEFINE n == Cardinality({k \in Messages : Committed(k)}) + 1
      <4>1. process[w].c \in Conversations /\ process[w].expected \in Nat /\ process[w].reopen \in BOOLEAN
        BY <1>0 DEF ProcessSet
      <4>2. journal' = [journal EXCEPT ![m] = [status |-> "pending", id |-> n, c |-> process[w].c,
                          expected |-> process[w].expected, reopen |-> process[w].reopen]]
        BY <1>5, <2>2 DEF Commit
      <4>3. n \in Nat
        BY <3>1
      <4> HIDE DEF n
      <4> QED
        BY <1>0, <4>1, <4>2, <4>3 DEF JournalSet
    <3>3. Goto(w, "look") \/ Goto(w, "apply")
      BY <1>5, <2>2 DEF Commit, Resume
    <3>4. process' \in ProcessSet
      BY <1>0, <3>3, ProcessEffect DEF Steps
    <3>5. rows' \subseteq Messages
      <4>1. m \in Messages
        BY <1>5 DEF Held, HeldBy, Commit, At
      <4> QED
        BY <1>0, <1>5, <2>2, <4>1 DEF Commit
    <3> QED
      BY <1>0, <1>5, <2>2, <3>2, <3>4, <3>5 DEF Commit, Typed
  <2> QED
    BY <2>1, <2>2
<1>6. ASSUME NEW p \in Processes, Look(p) PROVE Typed'
  <2>1. process' \in ProcessSet
    <3>1. CASE After(p, "mark")
      BY <1>0, <3>1, ProcessEffect DEF Steps
    <3>2. ASSUME NEW answer \in Eligibility,
                 process' = [process EXCEPT ![p].pc = "apply", ![p].contact = answer]
          PROVE  process' \in ProcessSet
      <4>1. "apply" \in Steps
        BY DEF Steps
      <4>2. process[p] \in [pc : Steps, m : Messages \cup {NoMessage}, c : Conversations,
                            expected : Nat, reopen : BOOLEAN, contact : Eligibility]
        BY <1>0 DEF ProcessSet
      <4>3. [process[p] EXCEPT !.pc = "apply", !.contact = answer]
              \in [pc : Steps, m : Messages \cup {NoMessage}, c : Conversations,
                   expected : Nat, reopen : BOOLEAN, contact : Eligibility]
        BY <3>2, <4>1, <4>2
      <4>4. process' = [process EXCEPT ![p] = [process[p] EXCEPT !.pc = "apply", !.contact = answer]]
        BY <1>0, <3>2 DEF ProcessSet
      <4> QED
        BY <1>0, <4>3, <4>4, ProcessWritten
    <3> QED
      BY <1>6, <3>1, <3>2 DEF Look, Eligibility
  <2> QED
    BY <1>0, <1>6, <2>1 DEF Look, Typed, store
<1>7. ASSUME NEW p \in Processes, Apply(p) PROVE Typed'
  <2>1. process' \in ProcessSet
    BY <1>0, <1>7, ProcessEffect DEF Apply, Steps
  <2>2. con' \in ConSet
    <3> DEFINE c == process[p].c
    <3>1. CASE con' = con
      BY <1>0, <3>1
    <3>2. CASE con' # con
      <4>1. PICK s \in Statuses :
              con' = [con EXCEPT ![c] = [status |-> s, version |-> con[c].version + 1, unread |-> con[c].unread + 1]]
        <5>1. c \in Conversations
          BY <1>0 DEF ProcessSet
        <5>2. con[c].status \in Statuses
          BY <1>0, <5>1 DEF ConSet
        <5>3. CASE Reopens(p, c)
          BY <1>0, <1>7, <3>2, <5>1, <5>3 DEF Apply, ConSet, Statuses
        <5>4. CASE ~Reopens(p, c)
          BY <1>0, <1>7, <3>2, <5>1, <5>2, <5>4 DEF Apply, ConSet
        <5> QED
          BY <5>3, <5>4
      <4>2. [status |-> s, version |-> con[c].version + 1, unread |-> con[c].unread + 1]
              \in [status : Statuses, version : Nat, unread : Nat]
        <5>1. c \in Conversations
          BY <1>0 DEF ProcessSet
        <5>2. con[c].version \in Nat /\ con[c].unread \in Nat
          BY <1>0, <5>1 DEF ConSet
        <5> QED
          BY <5>2
      <4> QED
        BY <1>0, <4>1, <4>2 DEF ConSet
    <3> QED
      BY <3>1, <3>2
  <2>3. activity' \in ActivitySet
    <3> DEFINE m == process[p].m
               value == [applied |-> TRUE, reopened |-> Reopens(p, process[p].c),
                         contact |-> IF Reopens(p, process[p].c) THEN process[p].contact ELSE "unasked"]
    <3>1. activity' = activity \/ activity' = [activity EXCEPT ![m] = value]
      BY <1>7 DEF Apply
    <3>2. value \in [applied : BOOLEAN, reopened : BOOLEAN, contact : Eligibility]
      <4>1. process[p].contact \in Eligibility /\ "unasked" \in Eligibility
        BY <1>0 DEF ProcessSet, Eligibility
      <4>2. Reopens(p, process[p].c) \in BOOLEAN
        BY DEF Reopens
      <4> QED
        BY <4>1, <4>2
    <3> HIDE DEF value
    <3> QED
      BY <1>0, <3>1, <3>2 DEF ActivitySet
  <2> QED
    BY <1>0, <1>7, <2>1, <2>2, <2>3 DEF Apply, Typed, store
<1>8. ASSUME NEW p \in Processes, Mark(p) PROVE Typed'
  <2>1. journal' \in JournalSet
    BY <1>0, <1>8 DEF Mark, JournalSet
  <2> QED
    BY <1>0, <1>8, <2>1, ProcessEffect DEF Mark, Typed, Steps
<1>9. ASSUME NEW p \in Processes, Abandon(p) PROVE Typed'
  BY <1>0, <1>9, ProcessEffect, SupersededType DEF Abandon, Typed, Steps, store
<1>10. CASE Scan
  BY <1>0, <1>10 DEF Scan, Typed, store
<1>11. CASE Take
  <2>1. CASE Head(page) \in rows
    <3> DEFINE m == Head(page)
    <3>1. m \in Messages /\ journal[m].c \in Conversations /\ journal[m].expected \in Nat
          /\ journal[m].reopen \in BOOLEAN
      BY <1>0, <2>1 DEF JournalSet
    <3>2. process' \in ProcessSet
      <4>1. PICK step \in Steps : process' = [process EXCEPT ![Reconciler] =
              [pc |-> step, m |-> m, c |-> journal[m].c, expected |-> journal[m].expected,
               reopen |-> journal[m].reopen, contact |-> "unasked"]]
        BY <1>11, <2>1 DEF Take, IdleProcess, Steps
      <4> QED
        BY <1>0, <3>1, <4>1 DEF ProcessSet, Eligibility
    <3> QED
      BY <1>0, <1>11, <3>2 DEF Take, Typed, store
  <2>2. CASE Head(page) \notin rows
    BY <1>0, <1>11, <2>2 DEF Take, Typed, store
  <2> QED
    BY <2>1, <2>2
<1>12. ASSUME NEW c \in Conversations, Change(c) PROVE Typed'
  <2>1. con' \in ConSet
    <3>1. PICK s \in Statuses :
            con' = [con EXCEPT ![c].version = @ + 1, ![c].status = s]
      BY <1>12 DEF Change, Statuses
    <3>2. con[c] \in [status : Statuses, version : Nat, unread : Nat]
      BY <1>0 DEF ConSet
    <3>3. [con[c] EXCEPT !.version = @ + 1, !.status = s] \in [status : Statuses, version : Nat, unread : Nat]
      <4>1. [con[c] EXCEPT !.version = @ + 1] \in [status : Statuses, version : Nat, unread : Nat]
        BY <3>2
      <4> QED
        BY <4>1
    <3> QED
      BY <1>0, <3>1, <3>3 DEF ConSet
  <2> QED
    BY <1>0, <1>12, <2>1 DEF Change, Typed, store
<1>13. ASSUME NEW c \in Conversations, MarkDeleting(c) PROVE Typed'
  <2>1. con' \in ConSet
    BY <1>0, <1>13 DEF MarkDeleting, ConSet, Statuses
  <2> QED
    BY <1>0, <1>13, <2>1 DEF MarkDeleting, Typed, store
<1>14. ASSUME NEW c \in Conversations, CleanupRead(c) PROVE Typed'
  <2>1. cleanup' \in CleanupSet
    BY <1>0, <1>14 DEF CleanupRead, CleanupSet
  <2> QED
    BY <1>0, <1>14, <2>1 DEF CleanupRead, Typed, store
<1>15. ASSUME NEW c \in Conversations, CleanupDelete(c) PROVE Typed'
  <2>1. cleanup' \in CleanupSet
    BY <1>0, <1>15 DEF CleanupDelete, CleanupSet
  <2> QED
    BY <1>0, <1>15, <2>1, SupersededType DEF CleanupDelete, Typed
<1>16. ASSUME NEW c \in Conversations, Remove(c) PROVE Typed'
  <2>1. con' \in ConSet
    BY <1>0, <1>16 DEF Remove, ConSet, Statuses
  <2>2. cleanup' \in CleanupSet
    BY <1>0, <1>16 DEF Remove, CleanupSet
  <2> QED
    BY <1>0, <1>16, <2>1, <2>2 DEF Remove, Typed, store
<1>17. ASSUME NEW c \in Conversations, DeleteFails(c) PROVE Typed'
  <2>1. cleanup' \in CleanupSet
    BY <1>0, <1>17 DEF DeleteFails, CleanupSet
  <2> QED
    BY <1>0, <1>17, <2>1 DEF DeleteFails, Typed, store
<1>18. ASSUME NEW w \in Workers, Crash(w) PROVE Typed'
  BY <1>0, <1>18, ProcessEffect DEF Crash, Typed, Steps, store
<1>19. CASE CrashReconciler
  BY <1>0, <1>19, ProcessEffect DEF CrashReconciler, Typed, Steps, store
<1>20. CASE (\E w \in Workers : EnsureFails(w)) \/ Detach \/ RemoveContact
  BY <1>0, <1>20, ProcessEffect DEF EnsureFails, Detach, RemoveContact, Typed, Steps, store
<1>21. CASE UNCHANGED vars
  BY <1>0, <1>21 DEF Typed, vars, store
<1> QED
  BY <1>1, <1>2, <1>3, <1>4, <1>5, <1>6, <1>7, <1>8, <1>9, <1>10, <1>11, <1>12, <1>13, <1>14, <1>15,
     <1>16, <1>17, <1>18, <1>19, <1>20, <1>21 DEF Next, Serve, Activity, Reconcile, Delete

----------------------------------------------------------------------------
(* What no step takes back *)

LEMMA ConSteady ==
    ASSUME Typed, [Next]_vars, NEW d \in Conversations
    PROVE  ConSteadyAt(d)
<1>0. con \in [Conversations -> [status : Statuses, version : Nat, unread : Nat]]
  BY DEF Typed, ConSet
<1>1. \/ con' = con
      \/ \E w \in Workers : Ensure(w)
      \/ \E p \in Processes : Apply(p)
      \/ \E c \in Conversations : Change(c) \/ MarkDeleting(c) \/ Remove(c)
  BY DEF vars, Next, Serve, Activity, Reconcile, Delete, Receive, Call, CheckFails, EnsureFails, Commit,
         Look, Mark, Abandon, Scan, Take, CleanupRead, CleanupDelete, DeleteFails, Crash, CrashReconciler,
         Detach, RemoveContact, Processes
<1>2. CASE con'[d] = con[d]
  BY <1>0, <1>2 DEF ConSteadyAt
<1>3. ASSUME NEW w \in Workers, Ensure(w) PROVE ConSteadyAt(d)
  <2>1. CASE con' = con
    BY <1>2, <2>1
  <2>2. ASSUME NEW c \in Conversations, con[c].status = "none", con' = [con EXCEPT ![c].status = "open"]
        PROVE  ConSteadyAt(d)
    BY <1>0, <2>2 DEF ConSteadyAt
  <2> QED
    BY <1>3, <2>1, <2>2 DEF Ensure
<1>4. ASSUME NEW p \in Processes, Apply(p) PROVE ConSteadyAt(d)
  <2> DEFINE c == process[p].c
  <2>1. CASE con' = con
    BY <1>2, <2>1
  <2>2. CASE con' = [con EXCEPT ![c].version = @ + 1, ![c].unread = @ + 1,
                                ![c].status = IF Reopens(p, c) THEN "open" ELSE @]
    <3>1. c # d => con'[d] = con[d]
      BY <1>0, <2>2
    <3>2. c = d => con'[d].version = con[d].version + 1 /\ con'[d].status \in {"open", con[d].status}
      BY <1>0, <2>2
    <3>3. con[c].status \in {"open", "resolved"}
      BY <1>4 DEF Apply, Exists
    <3> QED
      BY <1>0, <1>2, <3>1, <3>2, <3>3 DEF ConSteadyAt
  <2> QED
    BY <1>4, <2>1, <2>2 DEF Apply
<1>5. ASSUME NEW c \in Conversations, Change(c) \/ MarkDeleting(c) PROVE ConSteadyAt(d)
  <2>1. PICK s \in {"open", "resolved", "deleting"} : con' = [con EXCEPT ![c].version = @ + 1, ![c].status = s]
    BY <1>0, <1>5 DEF Change, MarkDeleting
  <2>2. con[c].status \in {"open", "resolved"}
    BY <1>5 DEF Change, MarkDeleting, Exists
  <2>3. c # d => con'[d] = con[d]
    BY <1>0, <2>1
  <2>4. c = d => con'[d].version = con[d].version + 1 /\ con'[d].status = s
    BY <1>0, <2>1
  <2> QED
    BY <1>0, <1>2, <2>2, <2>3, <2>4 DEF ConSteadyAt
<1>6. ASSUME NEW c \in Conversations, Remove(c) PROVE ConSteadyAt(d)
  <2>1. cleanup'[c].pc = "idle" /\ cleanup[c].pc = "cleaned"
    BY <1>6 DEF Remove, Typed, CleanupSet
  <2>2. c # d => con'[d] = con[d]
    BY <1>0, <1>6 DEF Remove
  <2>3. c = d => con'[d].version = con[d].version /\ con'[d].status = "gone"
    BY <1>0, <1>6 DEF Remove
  <2> QED
    BY <1>0, <1>2, <2>1, <2>2, <2>3 DEF ConSteadyAt
<1> QED
  BY <1>1, <1>2, <1>3, <1>4, <1>5, <1>6

LEMMA JournalSteady ==
    ASSUME Typed, [Next]_vars, NEW m \in Messages, Committed(m)
    PROVE  /\ Committed(m)' /\ journal'[m].c = journal[m].c
           /\ journal'[m].expected = journal[m].expected /\ journal'[m].reopen = journal[m].reopen
<1>0. journal \in JournalSet
  BY DEF Typed
<1>1. \/ journal' = journal
      \/ \E p \in Processes : Commit(p) \/ Mark(p) \/ Abandon(p)
      \/ \E c \in Conversations : CleanupDelete(c)
  BY DEF vars, Next, Serve, Activity, Reconcile, Delete, Receive, Ensure, Call, CheckFails, EnsureFails,
         Look, Apply, Scan, Take, Change, MarkDeleting, CleanupRead, Remove, DeleteFails, Crash,
         CrashReconciler, Detach, RemoveContact, store, Processes
<1>2. CASE journal' = journal
  BY <1>2 DEF Committed
<1>3. ASSUME NEW p \in Processes, Commit(p) PROVE journal'[m] = journal[m]
  BY <1>0, <1>3 DEF Commit, JournalSet, store
<1>4. ASSUME NEW n, journal' = [journal EXCEPT ![n].status = "delivered"]
      PROVE  /\ journal'[m].status # "none" /\ journal'[m].c = journal[m].c
             /\ journal'[m].expected = journal[m].expected /\ journal'[m].reopen = journal[m].reopen
  BY <1>0, <1>4 DEF Committed, JournalSet
<1>5. ASSUME NEW ms, journal' = Superseded(ms)
      PROVE  /\ journal'[m].status # "none" /\ journal'[m].c = journal[m].c
             /\ journal'[m].expected = journal[m].expected /\ journal'[m].reopen = journal[m].reopen
  BY <1>0, <1>5, SupersededType DEF Committed
<1> QED
  BY <1>1, <1>2, <1>3, <1>4, <1>5 DEF Mark, Abandon, CleanupDelete, Committed, store

LEMMA ActivitySteady ==
    ASSUME Typed, [Next]_vars, NEW m \in Messages, activity[m].applied
    PROVE  activity'[m] = activity[m]
<1>0. activity \in ActivitySet
  BY DEF Typed
<1>1. activity' = activity \/ \E p \in Processes : Apply(p)
  BY DEF vars, Next, Serve, Activity, Reconcile, Delete, Receive, Ensure, Call, CheckFails, EnsureFails,
         Commit, Look, Mark, Abandon, Scan, Take, Change, MarkDeleting, CleanupRead, CleanupDelete, Remove,
         DeleteFails, Crash, CrashReconciler, Detach, RemoveContact, Processes
<1>2. ASSUME NEW p \in Processes, Apply(p) PROVE activity'[m] = activity[m]
  BY <1>0, <1>2 DEF Apply, ActivitySet
<1> QED
  BY <1>1, <1>2

LEMMA SteadyStep == Typed /\ [Next]_vars => Steady
BY ConSteady, JournalSteady, ActivitySteady DEF Steady

----------------------------------------------------------------------------
(* What processes hold *)

\* A step leaves a process alone, ends its work, or is one of its own.
LEMMA ProcessCases ==
    ASSUME Typed, [Next]_vars, NEW p \in Processes
    PROVE  \/ process'[p] = process[p]
           \/ process'[p] = IdleProcess
           \/ p \in Workers /\ \/ \E e \in Events : Receive(p, e)
                               \/ \E m \in Calls : Call(p, m)
                               \/ Ensure(p)
                               \/ Commit(p) /\ ~Committed(process[p].m)
           \/ Look(p) \/ Apply(p)
           \/ p = Reconciler /\ Take /\ Head(page) \in rows
<1>0. DOMAIN process = Processes
  BY DEF Typed, ProcessSet
<1>1. \/ process' = process
      \/ \E q \in Processes : Finish(q) \/ Look(q) \/ Apply(q)
      \/ \E q \in Workers : \/ \E e \in Events : Receive(q, e)
                            \/ \E m \in Calls : Call(q, m)
                            \/ Ensure(q)
                            \/ Commit(q) /\ ~Committed(process[q].m)
      \/ Take /\ Head(page) \in rows
  BY DEF vars, Next, Serve, Activity, Reconcile, Delete, CheckFails, EnsureFails, Commit, Mark, Abandon,
         Scan, Take, Change, MarkDeleting, CleanupRead, CleanupDelete, Remove, DeleteFails, Crash,
         CrashReconciler, Detach, RemoveContact, Processes
<1>2. ASSUME NEW q \in Processes, NEW r, process' = [process EXCEPT ![q] = r], p # q
      PROVE  process'[p] = process[p]
  BY <1>0, <1>2
<1>3. ASSUME NEW q \in Processes, Finish(q) PROVE process'[p] = process[p] \/ process'[p] = IdleProcess
  BY <1>0, <1>3 DEF Finish
<1>4. ASSUME NEW q \in Processes, Look(q), p # q PROVE process'[p] = process[p]
  BY <1>0, <1>4 DEF Look, After
<1>5. ASSUME NEW q \in Processes, Apply(q), p # q PROVE process'[p] = process[p]
  BY <1>0, <1>5 DEF Apply, After
<1>6. ASSUME NEW q \in Workers, NEW e \in Events, Receive(q, e), p # q PROVE process'[p] = process[p]
  BY <1>0, <1>6 DEF Receive
<1>7. ASSUME NEW q \in Workers, NEW m \in Calls, Call(q, m), p # q PROVE process'[p] = process[p]
  BY <1>0, <1>7 DEF Call
<1>8. ASSUME NEW q \in Workers, Ensure(q), p # q PROVE process'[p] = process[p]
  BY <1>0, <1>8 DEF Ensure
<1>9. ASSUME NEW q \in Workers, Commit(q), ~Committed(process[q].m), p # q PROVE process'[p] = process[p]
  BY <1>0, <1>9 DEF Commit, Goto
<1>10. ASSUME Take, p # Reconciler PROVE process'[p] = process[p]
  BY <1>0, <1>10 DEF Take
<1> QED
  BY <1>1, <1>3, <1>4, <1>5, <1>6, <1>7, <1>8, <1>9, <1>10

\* What the work of a process makes of what it holds.
LEMMA ReceiveHolds ==
    ASSUME Typed, Held, NEW p \in Workers, NEW e \in Events, Receive(p, e)
    PROVE  /\ process'[p].pc = "ensure" /\ process'[p].m = e /\ process'[p].expected = 0
           /\ UNCHANGED <<con, activity, rows, journal, overtaken>>
<1>1. p \in Processes
  BY DEF Processes
<1>2. process[p].expected = 0
  BY <1>1 DEF Held, HeldBy, Receive, At
<1> QED
  BY <1>1, <1>2 DEF Typed, ProcessSet, Receive, store

LEMMA EnsureHolds ==
    ASSUME Typed, Held, NEW p \in Workers, Ensure(p)
    PROVE  /\ process[p].pc = "ensure" /\ process'[p].pc = "create" /\ process'[p].m = process[p].m
           /\ process'[p].expected = 0 /\ process'[p].c \in Conversations
           /\ con'[process'[p].c].status # "none"
           /\ UNCHANGED <<activity, rows, journal, overtaken>>
<1>1. p \in Processes
  BY DEF Processes
<1>2. process[p].expected = 0 /\ process[p].pc = "ensure"
  BY <1>1 DEF Held, HeldBy, Ensure, At
<1>3. PICK c \in Conversations : /\ process' = [process EXCEPT ![p].pc = "create", ![p].c = c]
                                 /\ \/ Reusable(c) /\ con' = con
                                    \/ con' = [con EXCEPT ![c].status = "open"]
  BY DEF Ensure
<1>4. con'[c].status # "none"
  BY <1>3 DEF Reusable, Typed, ConSet
<1>5. /\ process'[p].pc = "create" /\ process'[p].m = process[p].m /\ process'[p].c = c
      /\ process'[p].expected = process[p].expected
  BY <1>1, <1>3 DEF Typed, ProcessSet
<1>6. UNCHANGED <<activity, rows, journal, overtaken>>
  BY DEF Ensure, store
<1> QED
  BY <1>2, <1>4, <1>5, <1>6

LEMMA CallHolds ==
    ASSUME Typed, NEW p \in Workers, NEW m \in Calls, Call(p, m)
    PROVE  /\ process'[p].pc = "create" /\ process'[p].m = m /\ process'[p].c = CallTo[m]
           /\ process'[p].expected = con[CallTo[m]].version
           /\ Exists(CallTo[m]) /\ ~Committed(m) /\ overtaken' = overtaken \ {m}
           /\ \A q \in Workers : process[q].m # m
           /\ UNCHANGED <<con, activity, rows, journal>>
<1>1. p \in Processes
  BY DEF Processes
<1> QED
  BY <1>1 DEF Typed, ProcessSet, Call, IdleProcess, store

LEMMA CommitHolds ==
    ASSUME Typed, Held, NEW p \in Workers, Commit(p), ~Committed(process[p].m)
    PROVE  /\ process[p].pc = "create" /\ process'[p].pc \in {"look", "apply"}
           /\ process[p].m \in Messages /\ process'[p].m = process[p].m
           /\ process'[p].c = process[p].c /\ process'[p].expected = process[p].expected
           /\ process'[p].reopen = process[p].reopen
           /\ process'[p].pc = "apply" => ~process[p].reopen
           /\ rows' = rows \cup {process[p].m}
           /\ \A n \in Messages : n # process[p].m => journal'[n] = journal[n]
           /\ journal'[process[p].m].status = "pending"
           /\ journal'[process[p].m].c = process[p].c
           /\ journal'[process[p].m].expected = process[p].expected
           /\ journal'[process[p].m].reopen = process[p].reopen
           /\ UNCHANGED <<con, activity, overtaken, cleanup>>
<1>1. p \in Processes
  BY DEF Processes
<1>2. process[p].pc = "create" /\ process[p].m \in Messages
  BY <1>1 DEF Held, HeldBy, Commit, At
<1> DEFINE m == process[p].m
<1>3. /\ journal'[m].status = "pending" /\ journal'[m].c = process[p].c
      /\ journal'[m].expected = process[p].expected /\ journal'[m].reopen = process[p].reopen
      /\ \A n \in Messages : n # m => journal'[n] = journal[n]
  BY <1>2 DEF Commit, Typed, JournalSet
<1>4. process' = [process EXCEPT ![p].pc = IF process[p].reopen THEN "look" ELSE "apply"]
  BY <1>3 DEF Commit, Resume, Goto
<1>5. /\ process'[p].m = process[p].m /\ process'[p].c = process[p].c
      /\ process'[p].expected = process[p].expected /\ process'[p].reopen = process[p].reopen
      /\ process'[p].pc = IF process[p].reopen THEN "look" ELSE "apply"
  BY <1>1, <1>4 DEF Typed, ProcessSet
<1>6. rows' = rows \cup {m} /\ UNCHANGED <<con, activity, overtaken, cleanup>>
  BY DEF Commit
<1> QED
  BY <1>2, <1>3, <1>5, <1>6

LEMMA LookHolds ==
    ASSUME Typed, NEW p \in Processes, Look(p)
    PROVE  /\ process[p].pc = "look"
           /\ process'[p].m = process[p].m /\ process'[p].c = process[p].c
           /\ \/ process'[p].pc = "mark" /\ process'[p].expected = 0 /\ activity[process[p].m].applied
              \/ /\ process'[p].pc = "apply"
                 /\ process'[p].expected = process[p].expected /\ process'[p].reopen = process[p].reopen
                 /\ process'[p].contact = "unasked"
                      => ~(con[process[p].c].version = process[p].expected /\ con[process[p].c].status = "resolved")
           /\ UNCHANGED <<con, activity, rows, journal, overtaken>>
<1>0. process \in [Processes -> [pc : Steps, m : Messages \cup {NoMessage}, c : Conversations,
                                 expected : Nat, reopen : BOOLEAN, contact : Eligibility]]
  BY DEF Typed, ProcessSet
<1>1. CASE activity[process[p].m].applied /\ After(p, "mark")
  BY <1>0, <1>1 DEF Look, At, After, IdleProcess, store
<1>2. ASSUME NEW answer \in IF Asks(process[p].c, process[p].expected) THEN {"free", "blocked"} ELSE {"unasked"},
             process' = [process EXCEPT ![p].pc = "apply", ![p].contact = answer]
      PROVE  /\ process'[p].m = process[p].m /\ process'[p].c = process[p].c
             /\ process'[p].pc = "apply"
             /\ process'[p].expected = process[p].expected /\ process'[p].reopen = process[p].reopen
             /\ process'[p].contact = "unasked"
                  => ~(con[process[p].c].version = process[p].expected /\ con[process[p].c].status = "resolved")
  <2>1. process'[p].contact = answer
    BY <1>0, <1>2
  <2> QED
    BY <1>0, <1>2, <2>1 DEF Asks
<1>3. \/ activity[process[p].m].applied /\ After(p, "mark")
      \/ \E answer \in IF Asks(process[p].c, process[p].expected) THEN {"free", "blocked"} ELSE {"unasked"} :
           process' = [process EXCEPT ![p].pc = "apply", ![p].contact = answer]
  BY DEF Look
<1>4. process[p].pc = "look" /\ UNCHANGED <<con, activity, rows, journal, overtaken>>
  BY DEF Look, At, store
<1>5. CASE activity[process[p].m].applied /\ After(p, "mark")
  BY <1>1, <1>4, <1>5
<1>6. CASE \E answer \in IF Asks(process[p].c, process[p].expected) THEN {"free", "blocked"} ELSE {"unasked"} :
              process' = [process EXCEPT ![p].pc = "apply", ![p].contact = answer]
  BY <1>2, <1>4, <1>6
<1> QED
  BY <1>3, <1>5, <1>6

LEMMA ApplyHolds ==
    ASSUME Typed, Held, NEW p \in Processes, Apply(p)
    PROVE  /\ process[p].pc = "apply" /\ process'[p].pc = "mark"
           /\ process'[p].m = process[p].m /\ process'[p].c = process[p].c
           /\ process[p].m \in Messages
           /\ activity'[process[p].m].applied /\ Exists(process[p].c)
           /\ UNCHANGED <<rows, journal, overtaken, cleanup>>
<1>1. process[p].pc = "apply" /\ process[p].m \in Messages
  BY DEF Held, HeldBy, Apply, At
<1>2. activity'[process[p].m].applied
  BY <1>1 DEF Apply, Typed, ActivitySet
<1>3. process'[p].pc = "mark" /\ process'[p].m = process[p].m /\ process'[p].c = process[p].c
  <2>1. After(p, "mark")
    BY DEF Apply
  <2>2. DOMAIN process = Processes
    BY DEF Typed, ProcessSet
  <2> QED
    BY <2>1, <2>2 DEF After, IdleProcess
<1> QED
  BY <1>1, <1>2, <1>3 DEF Apply, store

LEMMA TakeHolds ==
    ASSUME Typed, Take, Head(page) \in rows
    PROVE  \E m \in rows :
             /\ process'[Reconciler].m = m /\ process'[Reconciler].c = journal[m].c
             /\ process'[Reconciler].expected = journal[m].expected
             /\ process'[Reconciler].reopen = journal[m].reopen
             /\ process'[Reconciler].pc \in {"look", "apply"}
             /\ process'[Reconciler].pc = "apply" => ~journal[m].reopen
             /\ UNCHANGED <<con, activity, rows, journal, overtaken>>
<1>1. Reconciler \in Processes
  BY DEF Processes
<1> DEFINE m == Head(page)
<1>2. process' = [process EXCEPT ![Reconciler] =
        [pc |-> IF journal[m].reopen THEN "look" ELSE "apply", m |-> m, c |-> journal[m].c,
         expected |-> journal[m].expected, reopen |-> journal[m].reopen, contact |-> "unasked"]]
  BY DEF Take, IdleProcess
<1>3. /\ process'[Reconciler].m = m /\ process'[Reconciler].c = journal[m].c
      /\ process'[Reconciler].expected = journal[m].expected /\ process'[Reconciler].reopen = journal[m].reopen
      /\ process'[Reconciler].pc = IF journal[m].reopen THEN "look" ELSE "apply"
  BY <1>1, <1>2 DEF Typed, ProcessSet
<1>4. UNCHANGED <<con, activity, rows, journal, overtaken>>
  BY DEF Take, store
<1> QED
  BY <1>3, <1>4

LEMMA HeldStep ==
    ASSUME Typed, Typed', Held, Recorded, Steady, [Next]_vars
    PROVE  Held'
<1> SUFFICES ASSUME NEW p \in Processes PROVE HeldBy(p)'
  BY DEF Held
<1>0. HeldBy(p)
  BY DEF Held
<1>1. process[p].c \in Conversations /\ process'[p].c \in Conversations
  BY DEF Typed, ProcessSet
<1>2. CASE process'[p] = process[p]
  <2>1. process[p].pc # "idle" => process[p].m \in Messages
    BY <1>0 DEF HeldBy
  <2>2. Bound(p) => con'[process[p].c].status # "none"
    BY <1>0, <1>1 DEF HeldBy, Steady, ConSteadyAt
  <2>3. Working(p) => /\ Committed(process[p].m)' /\ journal'[process[p].m].c = process[p].c
                      /\ journal'[process[p].m].expected = journal[process[p].m].expected
                      /\ journal'[process[p].m].reopen = journal[process[p].m].reopen
    BY <1>0, <1>2, <2>1 DEF HeldBy, Steady, Working, Committed
  <2>4. process[p].pc = "mark" => activity'[process[p].m].applied
    BY <1>0, <2>1 DEF HeldBy, Steady
  <2> QED
    BY <1>0, <1>2, <2>1, <2>2, <2>3, <2>4 DEF HeldBy, Working, Bound, Committed
<1>3. CASE process'[p] = IdleProcess
  BY <1>3 DEF HeldBy, Working, Bound, IdleProcess
<1>4. ASSUME p \in Workers PROVE p # Reconciler
  BY <1>4 DEF Workers, Reconciler
<1>5. ASSUME p \in Workers, NEW e \in Events, Receive(p, e) PROVE HeldBy(p)'
  BY <1>4, <1>5, ReceiveHolds DEF HeldBy, Working, Bound, Messages
<1>6. ASSUME p \in Workers, NEW m \in Calls, Call(p, m) PROVE HeldBy(p)'
  <2>1. con[CallTo[m]].status # "none"
    BY <1>6, CallHolds DEF Exists
  <2> QED
    BY <1>4, <1>6, <2>1, CallHolds DEF HeldBy, Working, Bound, Messages
<1>7. CASE p \in Workers /\ Ensure(p)
  <2>1. process[p].m \in Messages
    BY <1>0, <1>7, EnsureHolds DEF HeldBy
  <2> QED
    BY <1>4, <1>7, <2>1, EnsureHolds DEF HeldBy, Working, Bound
<1>8. CASE p \in Workers /\ Commit(p) /\ ~Committed(process[p].m)
  <2>1. con[process[p].c].status # "none"
    BY <1>0, <1>8, CommitHolds DEF HeldBy, Bound
  <2> QED
    BY <1>4, <1>8, <2>1, CommitHolds DEF HeldBy, Working, Bound, Committed
<1>9. CASE Look(p)
  <2>1. /\ process[p].m \in Messages /\ con[process[p].c].status # "none"
        /\ Committed(process[p].m) /\ journal[process[p].m].c = process[p].c
        /\ journal[process[p].m].expected = process[p].expected
        /\ journal[process[p].m].reopen = process[p].reopen
    BY <1>0, <1>9, LookHolds DEF HeldBy, Bound, Working
  <2> QED
    BY <1>0, <1>9, <2>1, LookHolds DEF HeldBy, Working, Bound, Committed
<1>10. CASE Apply(p)
  <2>1. /\ con'[process[p].c].status # "none"
        /\ Committed(process[p].m) /\ journal[process[p].m].c = process[p].c
    BY <1>0, <1>1, <1>10, ApplyHolds DEF HeldBy, Bound, Working, Steady, ConSteadyAt
  <2> QED
    BY <1>10, <2>1, ApplyHolds DEF HeldBy, Working, Bound, Committed
<1>11. CASE p = Reconciler /\ Take /\ Head(page) \in rows
  <2>1. \A m \in rows : m \in Messages /\ Committed(m) /\ con[journal[m].c].status # "none"
    BY DEF Typed, Recorded, RecordedOf
  <2> QED
    BY <1>11, <2>1, TakeHolds DEF HeldBy, Working, Bound, Committed
<1> QED
  BY <1>2, <1>3, <1>5, <1>6, <1>7, <1>8, <1>9, <1>10, <1>11, ProcessCases

LEMMA ExpectedStep ==
    ASSUME Typed, Typed', Held, Recorded, Expected, Steady, [Next]_vars
    PROVE  Expected'
<1> SUFFICES ASSUME NEW p \in Processes PROVE ExpectedBy(p)'
  BY DEF Expected
<1>0. ExpectedBy(p) /\ HeldBy(p)
  BY DEF Expected, Held
<1>1. /\ process[p].c \in Conversations /\ process'[p].c \in Conversations
      /\ process[p].expected \in Nat /\ process'[p].expected \in Nat
  BY DEF Typed, ProcessSet
<1>2. \A c \in Conversations : con[c].version \in Nat /\ con'[c].version \in Nat
  BY DEF Typed, ConSet
<1>3. CASE process'[p] = process[p]
  <2> DEFINE c == process[p].c
  <2>1. con[c].version <= con'[c].version
    BY <1>1 DEF Steady, ConSteadyAt
  <2>2. con'[c].version = con[c].version /\ con'[c].status = "resolved" => con[c].status = "resolved"
    BY <1>1 DEF Steady, ConSteadyAt
  <2> QED
    BY <1>0, <1>1, <1>2, <1>3, <2>1, <2>2 DEF ExpectedBy, Bound
<1>4. CASE process'[p] = IdleProcess
  BY <1>4 DEF ExpectedBy, Bound, IdleProcess
<1>5. ASSUME p \in Workers, NEW e \in Events, Receive(p, e) PROVE ExpectedBy(p)'
  BY <1>5, ReceiveHolds DEF ExpectedBy, Bound
<1>6. ASSUME p \in Workers, NEW m \in Calls, Call(p, m) PROVE ExpectedBy(p)'
  BY <1>2, <1>6, CallHolds DEF ExpectedBy, Bound
<1>7. CASE p \in Workers /\ Ensure(p)
  BY <1>1, <1>2, <1>7, EnsureHolds DEF ExpectedBy, Bound
<1>8. CASE p \in Workers /\ Commit(p) /\ ~Committed(process[p].m)
  BY <1>0, <1>8, CommitHolds DEF ExpectedBy, Bound
<1>9. CASE Look(p)
  <2>1. process[p].expected <= con[process[p].c].version
    BY <1>0, <1>9, LookHolds DEF ExpectedBy, Bound
  <2>2. process'[p].expected <= con'[process'[p].c].version
    <3>1. CASE process'[p].pc = "apply"
      BY <1>9, <2>1, <3>1, LookHolds
    <3>2. CASE process'[p].pc = "mark"
      <4>1. process'[p].expected = 0
        BY <1>9, <3>2, LookHolds
      <4> QED
        BY <1>1, <1>2, <4>1
    <3> QED
      BY <1>9, <3>1, <3>2, LookHolds
  <2> QED
    BY <1>9, <2>2, LookHolds DEF ExpectedBy, Bound
<1>10. CASE Apply(p)
  <2>1. process'[p].expected = 0
    <3>1. After(p, "mark")
      BY <1>10 DEF Apply
    <3>2. DOMAIN process = Processes
      BY DEF Typed, ProcessSet
    <3> QED
      BY <3>1, <3>2 DEF After, IdleProcess
  <2> QED
    BY <1>1, <1>2, <1>10, <2>1, ApplyHolds DEF ExpectedBy, Bound
<1>11. CASE p = Reconciler /\ Take /\ Head(page) \in rows
  <2>1. \A m \in rows : journal[m].expected <= con[journal[m].c].version
    BY DEF Typed, Recorded, RecordedOf
  <2> QED
    BY <1>11, <2>1, TakeHolds DEF ExpectedBy, Bound
<1> QED
  BY <1>3, <1>4, <1>5, <1>6, <1>7, <1>8, <1>9, <1>10, <1>11, ProcessCases

----------------------------------------------------------------------------
(* What the stores say *)

\* A row is taken away and its change given up, by the process that holds it.
GivenUp(p) ==
    /\ process[p].m \in Messages /\ Committed(process[p].m)
    /\ journal[process[p].m].c = process[p].c /\ ~Exists(process[p].c)
    /\ rows' = rows \ {process[p].m} /\ journal' = Superseded({process[p].m})
    /\ UNCHANGED <<con, activity, overtaken, cleanup>>

\* The steps that change rows, activities and the journal.
LEMMA StoreCases ==
    ASSUME Typed, Held, [Next]_vars
    PROVE  \/ UNCHANGED <<activity, rows, journal>>
           \/ \E p \in Workers : Commit(p) /\ ~Committed(process[p].m)
           \/ \E p \in Processes : Apply(p) \/ Mark(p) \/ GivenUp(p)
           \/ \E c \in Conversations : CleanupDelete(c)
<1>1. ASSUME NEW p \in Processes, Abandon(p) PROVE UNCHANGED <<activity, rows, journal>> \/ GivenUp(p)
  <2>1. process[p].pc \in {"look", "apply", "mark"}
    BY <1>1 DEF Abandon, Refused, At
  <2>2. /\ process[p].m \in Messages /\ Committed(process[p].m)
        /\ journal[process[p].m].c = process[p].c
    BY <2>1 DEF Held, HeldBy, Working
  <2>3. UNCHANGED <<con, activity, cleanup, overtaken>>
    BY <1>1 DEF Abandon
  <2>4. \/ UNCHANGED store
        \/ ~Exists(process[p].c) /\ rows' = rows \ {process[p].m} /\ journal' = Superseded({process[p].m})
    BY <1>1, Zenon DEF Abandon
  <2> QED
    BY <2>2, <2>3, <2>4 DEF GivenUp, store
<1> QED
  BY <1>1
  DEF vars, Next, Serve, Activity, Reconcile, Delete, Receive, Ensure, Call, CheckFails, EnsureFails,
      Commit, Look, Scan, Take, Change, MarkDeleting, CleanupRead, Remove, DeleteFails, Crash,
      CrashReconciler, Detach, RemoveContact, store, Processes

LEMMA RecordedStep ==
    ASSUME Typed, Typed', Held, Recorded, Expected, Steady, [Next]_vars
    PROVE  Recorded'
<1> SUFFICES ASSUME NEW m \in Messages PROVE RecordedOf(m)'
  BY DEF Recorded
<1>0. RecordedOf(m)
  BY DEF Recorded
<1>1. journal[m].c \in Conversations /\ journal'[m].c \in Conversations
      /\ journal[m].expected \in Nat /\ journal'[m].expected \in Nat
  BY DEF Typed, JournalSet
<1>2. \A c \in Conversations : con[c].version \in Nat /\ con'[c].version \in Nat
  BY DEF Typed, ConSet
\* A message becomes committed, gets its row or its activity only in these steps.
<1>3. \/ /\ rows' \subseteq rows /\ activity' = activity
         /\ Committed(m)' => Committed(m)
      \/ \E p \in Processes : Apply(p)
      \/ \E p \in Workers : Commit(p) /\ ~Committed(process[p].m)
  <2>1. ASSUME NEW p \in Processes, Mark(p) PROVE Committed(m)' => Committed(m)
    BY <2>1 DEF Mark, At, Held, HeldBy, Working, Committed, Typed, JournalSet
  <2>2. ASSUME NEW ms, journal' = Superseded(ms) PROVE Committed(m)' => Committed(m)
    BY <2>2, SupersededType DEF Committed, Typed
  <2>3. ASSUME NEW p \in Processes, GivenUp(p)
        PROVE  rows' \subseteq rows /\ activity' = activity /\ (Committed(m)' => Committed(m))
    BY <2>2, <2>3 DEF GivenUp
  <2>4. ASSUME NEW c \in Conversations, CleanupDelete(c)
        PROVE  rows' \subseteq rows /\ activity' = activity /\ (Committed(m)' => Committed(m))
    BY <2>2, <2>4 DEF CleanupDelete
  <2> QED
    BY <2>1, <2>3, <2>4, StoreCases DEF Mark, Committed
<1>4. CASE rows' \subseteq rows /\ activity' = activity /\ (Committed(m)' => Committed(m))
  <2>1. Committed(m) => /\ Committed(m)' /\ journal'[m].c = journal[m].c
                        /\ journal'[m].expected = journal[m].expected
                        /\ con'[journal[m].c].status # "none"
                        /\ con[journal[m].c].version <= con'[journal[m].c].version
    BY <1>0, <1>1 DEF Steady, ConSteadyAt, RecordedOf
  <2> QED
    BY <1>0, <1>1, <1>2, <1>4, <2>1 DEF RecordedOf
<1>5. ASSUME NEW p \in Processes, Apply(p) PROVE RecordedOf(m)'
  <2>1. UNCHANGED <<rows, journal>>
    BY <1>5, ApplyHolds
  <2>2. activity'[m] = activity[m] \/ m = process[p].m
    BY <1>5 DEF Apply, Typed, ActivitySet
  <2>3. m = process[p].m => Committed(m) /\ activity'[m].applied
    BY <1>5, ApplyHolds DEF Held, HeldBy, Working
  <2>4. Committed(m) => con'[journal[m].c].status # "none" /\ con[journal[m].c].version <= con'[journal[m].c].version
    BY <1>0, <1>1 DEF Steady, ConSteadyAt, RecordedOf
  <2> QED
    BY <1>0, <1>1, <1>2, <2>1, <2>2, <2>3, <2>4 DEF RecordedOf, Committed
<1>6. ASSUME NEW p \in Workers, Commit(p), ~Committed(process[p].m) PROVE RecordedOf(m)'
  <2>0. p \in Processes
    BY DEF Processes
  <2>1. CASE m = process[p].m
    <3>1. con[process[p].c].status # "none" /\ process[p].expected <= con[process[p].c].version
      BY <1>6, <2>0, CommitHolds DEF Held, HeldBy, Expected, ExpectedBy, Bound
    <3>2. ~activity[m].applied /\ ~activity[m].reopened
      BY <1>0, <1>6, <2>1 DEF RecordedOf
    <3> QED
      BY <1>6, <2>1, <3>1, <3>2, CommitHolds DEF RecordedOf, Committed
  <2>2. CASE m # process[p].m
    <3>1. journal'[m] = journal[m] /\ (m \in rows' => m \in rows) /\ UNCHANGED <<con, activity>>
      BY <1>6, <2>2, CommitHolds
    <3> QED
      BY <1>0, <3>1 DEF RecordedOf, Committed
  <2> QED
    BY <2>1, <2>2
<1> QED
  BY <1>3, <1>4, <1>5, <1>6

LEMMA CleanupStep ==
    ASSUME Typed, Typed', Recorded, CleanupMarked, Steady, [Next]_vars
    PROVE  CleanupMarked'
<1> SUFFICES ASSUME NEW c \in Conversations
             PROVE  /\ cleanup'[c].pc # "idle" => con'[c].status = "deleting"
                    /\ \A m \in cleanup'[c].ids : Committed(m)' /\ journal'[m].c = c
  BY DEF CleanupMarked
<1>0. cleanup \in [Conversations -> [pc : {"idle", "read", "cleaned"}, ids : SUBSET Messages]]
  BY DEF Typed, CleanupSet
<1>1. con[c].status = "deleting" => con'[c].status = "deleting" \/ cleanup'[c].pc = "idle"
  BY DEF Steady, ConSteadyAt
<1>2. \A m \in cleanup[c].ids : Committed(m)' /\ journal'[m].c = c
  BY <1>0 DEF CleanupMarked, Steady
<1>3. \/ cleanup' = cleanup
      \/ \E d \in Conversations : CleanupRead(d) \/ CleanupDelete(d) \/ Remove(d) \/ DeleteFails(d)
  BY DEF vars, Next, Serve, Activity, Reconcile, Delete, Receive, Ensure, Call, CheckFails, EnsureFails,
         Commit, Look, Apply, Mark, Abandon, Scan, Take, Change, MarkDeleting, Crash, CrashReconciler,
         Detach, RemoveContact
<1>4. CASE cleanup'[c] = cleanup[c]
  BY <1>1, <1>2, <1>4 DEF CleanupMarked
<1>5. ASSUME NEW d \in Conversations, CleanupRead(d) PROVE cleanup'[c] = cleanup[c] \/ d = c
  BY <1>0, <1>5 DEF CleanupRead
<1>6. CASE CleanupRead(c)
  <2>1. cleanup'[c].ids = {m \in rows : journal[m].c = c} /\ con'[c].status = "deleting"
    BY <1>0, <1>6 DEF CleanupRead
  <2>2. \A m \in rows : m \in Messages /\ Committed(m)
    BY DEF Typed, Recorded, RecordedOf
  <2> QED
    BY <2>1, <2>2 DEF Steady
<1>7. ASSUME NEW d \in Conversations, CleanupDelete(d) \/ Remove(d) \/ DeleteFails(d), cleanup'[c] # cleanup[c]
      PROVE  /\ c = d /\ cleanup[c].pc # "idle"
             /\ cleanup'[c].ids = {} \/ cleanup'[c].ids = cleanup[c].ids
  BY <1>0, <1>7 DEF CleanupDelete, Remove, DeleteFails
<1>8. ASSUME NEW d \in Conversations, CleanupDelete(d) \/ Remove(d) \/ DeleteFails(d), cleanup'[c] # cleanup[c]
      PROVE  /\ cleanup'[c].pc # "idle" => con'[c].status = "deleting"
             /\ \A m \in cleanup'[c].ids : Committed(m)' /\ journal'[m].c = c
  BY <1>1, <1>2, <1>7, <1>8 DEF CleanupMarked
<1> QED
  BY <1>3, <1>4, <1>5, <1>6, <1>8

LEMMA OrphansStep ==
    ASSUME Typed, Typed', Held, Recorded, CleanupMarked, OrphansUntouched, Steady, [Next]_vars
    PROVE  OrphansUntouched'
<1> DEFINE Deleted(c) == con[c].status = "gone" \/ cleanup[c].pc = "cleaned"
<1> SUFFICES ASSUME NEW m \in rows', Deleted(journal[m].c)'
             PROVE  journal'[m].status = "pending" /\ ~activity'[m].applied
  BY DEF OrphansUntouched
<1>0. m \in Messages
  BY DEF Typed
<1>1. CASE m \in rows
  <2> DEFINE c == journal[m].c
  <2>1. Committed(m) /\ journal'[m].c = c /\ c \in Conversations
    BY <1>0, <1>1 DEF Recorded, RecordedOf, Steady, Typed, JournalSet
  <2>2. con'[c].status = "gone" => Deleted(c)
    BY <2>1 DEF Steady, ConSteadyAt
  <2>3. cleanup'[c].pc = "cleaned" => Deleted(c)
    <3>0. cleanup \in [Conversations -> [pc : {"idle", "read", "cleaned"}, ids : SUBSET Messages]]
      BY DEF Typed, CleanupSet
    <3>1. \/ cleanup' = cleanup
          \/ \E d \in Conversations : CleanupRead(d) \/ CleanupDelete(d) \/ Remove(d) \/ DeleteFails(d)
      BY DEF vars, Next, Serve, Activity, Reconcile, Delete, Receive, Ensure, Call, CheckFails, EnsureFails,
             Commit, Look, Apply, Mark, Abandon, Scan, Take, Change, MarkDeleting, Crash, CrashReconciler,
             Detach, RemoveContact
    <3>2. ASSUME NEW d \in Conversations, CleanupRead(d) \/ Remove(d) \/ DeleteFails(d)
          PROVE  cleanup'[c].pc = "cleaned" => cleanup[c].pc = "cleaned"
      BY <2>1, <3>0, <3>2 DEF CleanupRead, Remove, DeleteFails
    <3>3. ASSUME NEW d \in Conversations, CleanupDelete(d)
          PROVE  cleanup'[c].pc = "cleaned" => cleanup[c].pc = "cleaned"
      BY <1>1, <2>1, <3>0, <3>3 DEF CleanupDelete
    <3> QED
      BY <3>1, <3>2, <3>3
  <2>4. Deleted(c) /\ journal[m].status = "pending" /\ ~activity[m].applied
    BY <1>1, <2>1, <2>2, <2>3 DEF OrphansUntouched
  <2>5. ~Exists(c)
    BY <2>1, <2>4 DEF CleanupMarked, Exists
  <2>6. ASSUME NEW p \in Processes, Apply(p) PROVE journal'[m] = journal[m] /\ activity'[m] = activity[m]
    <3>1. process[p].m # m
      BY <2>5, <2>6, ApplyHolds DEF Held, HeldBy, Working
    <3> QED
      BY <1>0, <2>6, <3>1 DEF Apply, Typed, ActivitySet, store
  <2>7. ASSUME NEW p \in Workers, Commit(p), ~Committed(process[p].m)
        PROVE  journal'[m] = journal[m] /\ activity'[m] = activity[m]
    BY <1>0, <2>1, <2>7, CommitHolds
  <2>8. ASSUME NEW p \in Processes, Mark(p) PROVE journal'[m] = journal[m] /\ activity'[m] = activity[m]
    <3>1. process[p].m # m
      BY <2>4, <2>8 DEF Held, HeldBy, Mark, At
    <3> QED
      BY <1>0, <2>8, <3>1 DEF Mark, Typed, JournalSet
  <2>9. ASSUME NEW p \in Processes, GivenUp(p) PROVE journal'[m] = journal[m] /\ activity'[m] = activity[m]
    BY <1>0, <2>9, SupersededType DEF GivenUp, Typed
  <2>10. ASSUME NEW d \in Conversations, CleanupDelete(d)
         PROVE  journal'[m] = journal[m] /\ activity'[m] = activity[m]
    <3>1. d # c
      BY <1>1, <2>10 DEF CleanupDelete
    <3>2. m \notin cleanup[d].ids
      BY <3>1 DEF CleanupMarked
    <3> QED
      BY <1>0, <2>10, <3>2, SupersededType DEF CleanupDelete, Typed
  <2> QED
    BY <2>4, <2>6, <2>7, <2>8, <2>9, <2>10, StoreCases
<1>2. CASE m \notin rows
  <2>1. PICK p \in Workers : Commit(p) /\ ~Committed(process[p].m)
    BY <1>2, StoreCases DEF Apply, Mark, GivenUp, CleanupDelete, store
  <2>2. m = process[p].m
    BY <1>2, <2>1, CommitHolds
  <2>3. ~activity[m].applied
    BY <1>0, <2>1, <2>2 DEF Recorded, RecordedOf
  <2> QED
    BY <2>1, <2>2, <2>3, CommitHolds
<1> QED
  BY <1>1, <1>2

----------------------------------------------------------------------------
(* Visitors' messages *)

\* A message becomes overtaken only in a change of its conversation.
LEMMA OvertakenCases ==
    ASSUME Typed, [Next]_vars, NEW m \in Calls
    PROVE  \/ m \in overtaken' => m \in overtaken
           \/ Change(CallTo[m]) /\ Posted(m)
<1>1. \/ overtaken' \subseteq overtaken
      \/ \E c \in Conversations : Change(c)
  BY DEF vars, Next, Serve, Activity, Reconcile, Delete, Receive, Ensure, Call, CheckFails, EnsureFails,
         Commit, Look, Apply, Mark, Abandon, Scan, Take, MarkDeleting, CleanupRead, CleanupDelete, Remove,
         DeleteFails, Crash, CrashReconciler, Detach, RemoveContact
<1> QED
  BY <1>1 DEF Change

LEMMA OvertakenStep ==
    ASSUME Typed, Typed', Held, Recorded, Expected, Overtaken, Steady, [Next]_vars
    PROVE  Overtaken'
<1> SUFFICES ASSUME NEW m \in Calls
             PROVE  /\ Committed(m)' => journal'[m].c = CallTo[m]
                    /\ \A p \in Processes : OvertakenAt(m, p)'
                    /\ m \in overtaken' /\ ~activity'[m].applied /\ Committed(m)'
                         => journal'[m].expected < con'[CallTo[m]].version
  BY DEF Overtaken
<1> DEFINE c == CallTo[m]
<1>0. m \in Messages /\ c \in Conversations /\ m \notin Events
  BY DEF Messages
<1>1. con[c].version \in Nat /\ con'[c].version \in Nat /\ con[c].version <= con'[c].version
  BY <1>0 DEF Typed, ConSet, Steady, ConSteadyAt
<1>2. activity[m].applied => activity'[m].applied
  BY <1>0 DEF Steady
<1>3. journal[m].expected \in Nat
  BY <1>0 DEF Typed, JournalSet
\* What is newly overtaken has been read before the version there is now.
<1>4. CASE Change(c) /\ Posted(m)
  <2>1. con'[c].version = con[c].version + 1
    BY <1>0, <1>4 DEF Change, Typed, ConSet
  <2>2. process' = process /\ journal' = journal /\ activity' = activity
    BY <1>4 DEF Change, store
  <2>3. ASSUME NEW p \in Processes PROVE OvertakenAt(m, p)'
    <3>1. ASSUME process[p].m = m, process[p].pc # "idle"
          PROVE  process[p].pc # "ensure" /\ process[p].c = c
      BY <3>1 DEF Overtaken, OvertakenAt
    <3>2. ASSUME process[p].m = m, process[p].pc # "idle"
          PROVE  process[p].expected <= con[c].version /\ process[p].expected \in Nat
      BY <3>1, <3>2 DEF Expected, ExpectedBy, Bound, Typed, ProcessSet, Steps
    <3> QED
      BY <1>1, <2>1, <2>2, <3>1, <3>2 DEF OvertakenAt
  <2>4. Committed(m) => journal[m].c = c /\ journal[m].expected <= con[c].version
    BY <1>0 DEF Overtaken, Recorded, RecordedOf
  <2> QED
    BY <1>1, <1>3, <2>1, <2>2, <2>3, <2>4 DEF Committed
<1>5. CASE m \in overtaken' => m \in overtaken
  <2>1. ASSUME NEW p \in Processes PROVE OvertakenAt(m, p)'
    <3>0. OvertakenAt(m, p) /\ process[p].expected \in Nat /\ process'[p].expected \in Nat
      BY DEF Overtaken, Typed, ProcessSet
    <3>1. CASE process'[p] = process[p]
      BY <1>1, <1>2, <1>5, <3>0, <3>1 DEF OvertakenAt
    <3>2. CASE process'[p] = IdleProcess
      BY <3>2 DEF OvertakenAt, IdleProcess
    <3>3. ASSUME p \in Workers, NEW e \in Events, Receive(p, e) PROVE OvertakenAt(m, p)'
      BY <1>0, <3>3, ReceiveHolds DEF OvertakenAt
    <3>4. ASSUME p \in Workers, NEW n \in Calls, Call(p, n) PROVE OvertakenAt(m, p)'
      BY <3>4, CallHolds DEF OvertakenAt
    <3>5. CASE p \in Workers /\ Ensure(p)
      BY <3>0, <3>5, EnsureHolds DEF OvertakenAt
    <3>6. CASE p \in Workers /\ Commit(p) /\ ~Committed(process[p].m)
      BY <1>1, <1>2, <1>5, <3>0, <3>6, CommitHolds DEF OvertakenAt
    <3>7. CASE Look(p)
      BY <1>1, <1>2, <1>5, <3>0, <3>7, LookHolds DEF OvertakenAt
    <3>8. CASE Apply(p)
      BY <3>0, <3>8, ApplyHolds DEF OvertakenAt
    <3>9. CASE p = Reconciler /\ Take /\ Head(page) \in rows
      <4>1. \A n \in rows : Committed(n)
        BY DEF Typed, Recorded, RecordedOf
      <4>2. Committed(m) => journal[m].c = c
        BY DEF Overtaken
      <4>3. Committed(m) /\ m \in overtaken /\ ~activity[m].applied => journal[m].expected < con[c].version
        BY DEF Overtaken
      <4> QED
        BY <1>1, <1>2, <1>5, <3>9, <4>1, <4>2, <4>3, TakeHolds DEF OvertakenAt
    <3> QED
      BY <3>1, <3>2, <3>3, <3>4, <3>5, <3>6, <3>7, <3>8, <3>9, ProcessCases
  <2>2. CASE Committed(m)
    <3>1. journal'[m].c = journal[m].c /\ journal'[m].expected = journal[m].expected
      BY <1>0, <2>2 DEF Steady
    <3>2. journal[m].c = c
      BY <2>2 DEF Overtaken
    <3>3. m \in overtaken /\ ~activity[m].applied => journal[m].expected < con[c].version
      BY <2>2 DEF Overtaken
    <3> QED
      BY <1>1, <1>2, <1>3, <1>5, <2>1, <3>1, <3>2, <3>3
  <2>3. CASE ~Committed(m) /\ Committed(m)'
    <3>1. PICK p \in Workers : Commit(p) /\ ~Committed(process[p].m) /\ process[p].m = m
      <4>1. ASSUME NEW p \in Processes, Mark(p) PROVE FALSE
        BY <1>0, <2>3, <4>1 DEF Mark, At, Held, HeldBy, Working, Committed, Typed, JournalSet
      <4>2. ASSUME NEW ms, journal' = Superseded(ms) PROVE FALSE
        BY <1>0, <2>3, <4>2, SupersededType DEF Committed, Typed
      <4>3. \A p \in Processes : Apply(p) => FALSE
        BY <2>3, ApplyHolds DEF Committed
      <4>4. PICK p \in Workers : Commit(p) /\ ~Committed(process[p].m)
        BY <2>3, <4>1, <4>2, <4>3, StoreCases DEF GivenUp, CleanupDelete, Committed
      <4>5. process[p].m = m
        BY <1>0, <2>3, <4>4, CommitHolds DEF Committed
      <4> QED
        BY <4>4, <4>5
    <3>2. p \in Processes
      BY DEF Processes
    <3>3. /\ process[p].c = c
          /\ m \in overtaken /\ ~activity[m].applied => process[p].expected < con[c].version
      BY <3>1, <3>2, CommitHolds DEF Overtaken, OvertakenAt
    <3> QED
      BY <1>5, <2>1, <3>1, <3>3, CommitHolds
  <2> QED
    BY <2>1, <2>2, <2>3
<1> QED
  BY <1>4, <1>5, OvertakenCases

----------------------------------------------------------------------------
(* The properties *)

LEMMA DeliveredStep ==
    ASSUME Typed, Held, DeliveredIsApplied, Steady, [Next]_vars
    PROVE  DeliveredIsApplied'
<1> SUFFICES ASSUME NEW m \in Messages, journal'[m].status = "delivered" PROVE activity'[m].applied
  BY DEF DeliveredIsApplied
<1>1. activity[m].applied => activity'[m].applied
  BY DEF Steady
<1>2. CASE journal[m].status = "delivered"
  BY <1>1, <1>2 DEF DeliveredIsApplied
<1>3. CASE journal[m].status # "delivered"
  <2>1. ASSUME NEW p \in Workers, Commit(p), ~Committed(process[p].m) PROVE FALSE
    BY <1>3, <2>1, CommitHolds
  <2>2. ASSUME NEW ms, journal' = Superseded(ms) PROVE FALSE
    BY <1>3, <2>2, SupersededType DEF Typed
  <2>3. ASSUME NEW p \in Processes, Apply(p) PROVE FALSE
    BY <1>3, <2>3, ApplyHolds
  <2>4. PICK p \in Processes : Mark(p)
    BY <1>3, <2>1, <2>2, <2>3, StoreCases DEF GivenUp, CleanupDelete
  <2>5. process[p].m = m
    BY <1>3, <2>4 DEF Mark, Typed, JournalSet
  <2> QED
    BY <1>1, <2>4, <2>5 DEF Mark, At, Held, HeldBy
<1> QED
  BY <1>2, <1>3

LEMMA KeptStep ==
    ASSUME Typed, Typed', Held, Recorded, CleanupMarked, KeptUnlessDeleted, Steady, [Next]_vars
    PROVE  KeptUnlessDeleted'
<1> SUFFICES ASSUME NEW m \in Messages, Committed(m)', m \notin rows' \/ journal'[m].status = "superseded"
             PROVE  ~Exists(journal[m].c)'
  BY DEF KeptUnlessDeleted
<1> DEFINE c == journal[m].c
<1>1. ASSUME NEW p \in Workers, Commit(p), ~Committed(process[p].m)
      PROVE  (m \in rows => m \in rows') /\ (journal'[m] = journal[m] \/ (m \in rows' /\ journal'[m].status = "pending"))
  <2>1. CASE m = process[p].m
    BY <1>1, <2>1, CommitHolds
  <2>2. CASE m # process[p].m
    <3>1. journal'[m] = journal[m] /\ rows' = rows \cup {process[p].m}
      BY <1>1, <2>2, CommitHolds
    <3> QED
      BY <3>1
  <2> QED
    BY <2>1, <2>2
<1>2. ASSUME NEW p \in Processes, Mark(p)
      PROVE  rows' = rows /\ (journal'[m] = journal[m] \/ (journal'[m].status = "delivered" /\ Committed(m)))
  <2>1. rows' = rows /\ journal' = [journal EXCEPT ![process[p].m].status = "delivered"]
    BY <1>2 DEF Mark
  <2>2. Committed(process[p].m)
    BY <1>2 DEF Mark, At, Held, HeldBy, Working
  <2>3. CASE m = process[p].m
    BY <2>1, <2>2, <2>3 DEF Typed, JournalSet
  <2>4. CASE m # process[p].m
    BY <2>1, <2>4 DEF Typed, JournalSet
  <2> QED
    BY <2>3, <2>4
<1>3. ASSUME NEW p \in Processes, GivenUp(p)
      PROVE  m = process[p].m \/ ((m \in rows => m \in rows') /\ journal'[m] = journal[m])
  BY <1>3, SupersededType DEF GivenUp, Typed
<1>4. ASSUME NEW d \in Conversations, CleanupDelete(d)
      PROVE  (Committed(m) /\ c = d) \/ ((m \in rows => m \in rows') /\ journal'[m] = journal[m])
  <2>1. m \in cleanup[d].ids => Committed(m) /\ c = d
    BY DEF CleanupMarked
  <2>2. m \in rows => Committed(m)
    BY DEF Recorded, RecordedOf
  <2> QED
    BY <1>4, <2>1, <2>2, SupersededType DEF CleanupDelete, Typed
<1>5. CASE Committed(m)
  <2>1. journal'[m].c = c /\ c \in Conversations /\ con[c].status # "none" /\ con[c].status \in Statuses
    BY <1>5 DEF Steady, Recorded, RecordedOf, Typed, JournalSet, ConSet
  <2>2. ~Exists(c) => ~Exists(c)'
    BY <2>1 DEF Steady, ConSteadyAt, Exists, Statuses
  <2>3. CASE m \notin rows \/ journal[m].status = "superseded"
    BY <1>5, <2>1, <2>2, <2>3 DEF KeptUnlessDeleted
  <2>4. CASE m \in rows /\ journal[m].status # "superseded"
    <3>1. ASSUME NEW p \in Processes, Apply(p) PROVE FALSE
      BY <2>4, <3>1, ApplyHolds
    <3>2. \/ \E p \in Processes : GivenUp(p) /\ m = process[p].m
          \/ \E d \in Conversations : CleanupDelete(d) /\ c = d
      BY <1>1, <1>2, <1>3, <1>4, <2>4, <3>1, StoreCases
    <3>3. ~Exists(c)
      BY <3>2 DEF GivenUp, CleanupDelete, CleanupMarked, Exists
    <3> QED
      BY <2>1, <2>2, <3>3
  <2> QED
    BY <2>3, <2>4
<1>6. CASE ~Committed(m)
  <2>1. ASSUME NEW p \in Processes, Apply(p) PROVE journal'[m] = journal[m]
    BY <2>1, ApplyHolds
  <2>2. ASSUME NEW p \in Processes, GivenUp(p) PROVE journal'[m] = journal[m]
    BY <1>3, <1>6, <2>2 DEF GivenUp
  <2>3. journal'[m] = journal[m] \/ (m \in rows' /\ journal'[m].status = "pending")
    BY <1>1, <1>2, <1>4, <1>6, <2>1, <2>2, StoreCases
  <2> QED
    BY <1>6, <2>3 DEF Committed
<1> QED
  BY <1>5, <1>6

\* The receipt of an activity that is written now.
LEMMA ApplyReceipt ==
    ASSUME Typed, Typed', Held, [Next]_vars, NEW m \in Messages, activity'[m] # activity[m]
    PROVE  \E p \in Processes :
             /\ Apply(p) /\ process[p].m = m /\ process[p].pc = "apply" /\ ~activity[m].applied
             /\ activity'[m].reopened = Reopens(p, process[p].c)
             /\ Reopens(p, process[p].c) => activity'[m].contact = process[p].contact
<1>1. PICK p \in Processes : Apply(p)
  BY StoreCases DEF Mark, GivenUp, CleanupDelete, Commit
<1>2. process[p].m = m /\ ~activity[m].applied
  BY <1>1 DEF Apply, Typed, ActivitySet
<1>3. /\ activity'[m].reopened = Reopens(p, process[p].c)
      /\ Reopens(p, process[p].c) => activity'[m].contact = process[p].contact
  BY <1>1, <1>2 DEF Apply, Typed, ActivitySet
<1> QED
  BY <1>1, <1>2, <1>3 DEF Apply, At

LEMMA FreeStep ==
    ASSUME Typed, Typed', Held, Expected, ReopenedWhenFree, [Next]_vars
    PROVE  ReopenedWhenFree'
<1> SUFFICES ASSUME NEW m \in Messages, activity'[m].reopened PROVE activity'[m].contact = "free"
  BY DEF ReopenedWhenFree
<1>1. CASE activity'[m] = activity[m]
  BY <1>1 DEF ReopenedWhenFree
<1>2. CASE activity'[m] # activity[m]
  <2>1. PICK p \in Processes : /\ process[p].pc = "apply" /\ Reopens(p, process[p].c)
                               /\ activity'[m].contact = process[p].contact
    BY <1>2, ApplyReceipt
  <2>2. process[p].contact \in {"unasked", "free", "blocked"}
    BY DEF Typed, ProcessSet, Eligibility
  <2>3. process[p].contact # "unasked"
    BY <2>1 DEF Expected, ExpectedBy, Reopens
  <2> QED
    BY <2>1, <2>2, <2>3 DEF Reopens
<1> QED
  BY <1>1, <1>2

LEMMA VetoStep ==
    ASSUME Typed, Typed', Held, Recorded, Overtaken, NewerChangeVetoes, [Next]_vars
    PROVE  NewerChangeVetoes'
<1> SUFFICES ASSUME NEW m \in overtaken' PROVE ~activity'[m].reopened
  BY DEF NewerChangeVetoes
<1>0. m \in Calls /\ m \in Messages
  BY DEF Typed, Messages
<1>1. CASE activity'[m] = activity[m]
  <2>1. m \in overtaken \/ ~activity[m].applied
    BY <1>0, OvertakenCases DEF Posted
  <2>2. activity[m].reopened => activity[m].applied
    BY <1>0 DEF Recorded, RecordedOf
  <2> QED
    BY <1>1, <2>1, <2>2 DEF NewerChangeVetoes
<1>2. CASE activity'[m] # activity[m]
  <2>1. PICK p \in Processes : /\ Apply(p) /\ process[p].m = m /\ process[p].pc = "apply" /\ ~activity[m].applied
                               /\ activity'[m].reopened = Reopens(p, process[p].c)
    BY <1>0, <1>2, ApplyReceipt
  <2>2. m \in overtaken
    BY <2>1, ApplyHolds
  <2>3. process[p].c = CallTo[m] /\ process[p].expected < con[CallTo[m]].version
    BY <1>0, <2>1, <2>2 DEF Overtaken, OvertakenAt
  <2>4. process[p].expected \in Nat /\ con[CallTo[m]].version \in Nat
    BY <1>0 DEF Typed, ProcessSet, ConSet
  <2> QED
    BY <2>1, <2>3, <2>4 DEF Reopens
<1> QED
  BY <1>1, <1>2

Counted(c) == {m \in Messages : activity[m].applied /\ journal[m].c = c}

LEMMA CountedStep ==
    ASSUME Typed, Typed', Held, Recorded, CountedOnce, Steady, [Next]_vars
    PROVE  CountedOnce'
<1> SUFFICES ASSUME NEW c \in Conversations PROVE con'[c].unread = Cardinality(Counted(c)')
  BY DEF CountedOnce, Counted
<1>0. con[c].unread = Cardinality(Counted(c))
  BY DEF CountedOnce, Counted
<1>1. con \in [Conversations -> [status : Statuses, version : Nat, unread : Nat]]
  BY DEF Typed, ConSet
\* Where nothing is applied, nothing is counted.
<1>2. CASE activity' = activity
  <2>1. Counted(c)' = Counted(c)
    <3>1. \A m \in Messages : activity[m].applied => journal'[m].c = journal[m].c
      BY DEF Recorded, RecordedOf, Steady
    <3> QED
      BY <1>2, <3>1 DEF Counted
  <2>2. con'[c].unread = con[c].unread
    <3>1. \/ con' = con
          \/ \E w \in Workers : Ensure(w)
          \/ \E p \in Processes : Apply(p)
          \/ \E d \in Conversations : Change(d) \/ MarkDeleting(d) \/ Remove(d)
      BY DEF vars, Next, Serve, Activity, Reconcile, Delete, Receive, Call, CheckFails, EnsureFails, Commit,
             Look, Mark, Abandon, Scan, Take, CleanupRead, CleanupDelete, DeleteFails, Crash,
             CrashReconciler, Detach, RemoveContact, Processes
    <3>2. ASSUME NEW w \in Workers, Ensure(w) PROVE con'[c].unread = con[c].unread
      BY <1>1, <3>2 DEF Ensure
    <3>3. ASSUME NEW p \in Processes, Apply(p) PROVE con'[c].unread = con[c].unread
      <4>1. process[p].m \in Messages /\ activity'[process[p].m].applied
        BY <3>3, ApplyHolds
      <4> QED
        BY <1>2, <3>3, <4>1 DEF Apply
    <3>4. ASSUME NEW d \in Conversations, Change(d) \/ MarkDeleting(d) \/ Remove(d)
          PROVE  con'[c].unread = con[c].unread
      <4>1. \A s : con' = [con EXCEPT ![d].version = @ + 1, ![d].status = s] => con'[c].unread = con[c].unread
        BY <1>1
      <4>2. CASE Change(d)
        BY <4>1, <4>2 DEF Change
      <4>3. CASE MarkDeleting(d)
        BY <1>1, <4>3 DEF MarkDeleting
      <4>4. CASE Remove(d)
        BY <1>1, <4>4 DEF Remove
      <4> QED
        BY <3>4, <4>2, <4>3, <4>4
    <3> QED
      BY <3>1, <3>2, <3>3, <3>4
  <2> QED
    BY <1>0, <2>1, <2>2
<1>3. CASE activity' # activity
  <2>1. PICK p \in Processes : Apply(p)
    BY <1>3, StoreCases DEF Mark, GivenUp, CleanupDelete, Commit
  <2> DEFINE m == process[p].m
             d == process[p].c
  <2>2. /\ m \in Messages /\ ~activity[m].applied /\ activity'[m].applied
        /\ journal[m].c = d /\ journal' = journal /\ d \in Conversations
        /\ \A n \in Messages : n # m => activity'[n] = activity[n]
    <3>1. m \in Messages /\ activity'[m].applied /\ journal' = journal
      BY <2>1, ApplyHolds
    <3>2. journal[m].c = d /\ d \in Conversations
      BY <2>1, ApplyHolds DEF Held, HeldBy, Working, Typed, ProcessSet
    <3>3. ~activity[m].applied
      BY <1>3, <2>1 DEF Apply
    <3>4. \A n \in Messages : n # m => activity'[n] = activity[n]
      BY <1>3, <2>1 DEF Apply, Typed, ActivitySet
    <3> QED
      BY <3>1, <3>2, <3>3, <3>4
  <2>3. con' = [con EXCEPT ![d].version = @ + 1, ![d].unread = @ + 1,
                           ![d].status = IF Reopens(p, d) THEN "open" ELSE @]
    BY <1>3, <2>1 DEF Apply
  <2>4. CASE c = d
    <3>1. Counted(c)' = Counted(c) \cup {m} /\ m \notin Counted(c)
      BY <2>2, <2>4 DEF Counted
    <3>2. IsFiniteSet(Counted(c))
      BY FS_Subset DEF Counted
    <3>3. Cardinality(Counted(c)') = Cardinality(Counted(c)) + 1
      BY <3>1, <3>2, FS_AddElement
    <3>4. con'[c].unread = con[c].unread + 1
      BY <1>1, <2>3, <2>4
    <3> QED
      BY <1>0, <3>3, <3>4
  <2>5. CASE c # d
    <3>1. Counted(c)' = Counted(c)
      BY <2>2, <2>5 DEF Counted
    <3>2. con'[c] = con[c]
      BY <1>1, <2>3, <2>5
    <3> QED
      BY <1>0, <3>1, <3>2
  <2> QED
    BY <2>4, <2>5
<1> QED
  BY <1>2, <1>3

LEMMA InductiveInit == Init => IInv
<1> SUFFICES ASSUME Init PROVE IInv
  OBVIOUS
<1>0. 1 \in Conversations
  BY DEF Conversations
<1>1. con \in ConSet
  BY DEF Init, ConSet, Statuses
<1>2. activity \in ActivitySet
  BY DEF Init, ActivitySet, NoActivity, Eligibility
<1>3. journal \in JournalSet
  BY <1>0 DEF Init, JournalSet, NoChange
<1>4. process \in ProcessSet
  BY <1>0 DEF Init, ProcessSet, IdleProcess, Steps, Eligibility
<1>5. cleanup \in CleanupSet
  BY DEF Init, CleanupSet
<1>6. Typed
  BY <1>1, <1>2, <1>3, <1>4, <1>5 DEF Typed, Init
<1>7. Held /\ Expected
  BY DEF Init, Held, HeldBy, Expected, ExpectedBy, IdleProcess, Bound, Working
<1>8. \A m \in Messages : ~activity[m].applied /\ ~activity[m].reopened /\ ~Committed(m)
                          /\ journal[m].status = "none"
  BY DEF Init, NoActivity, NoChange, Committed
<1>9. rows = {} /\ overtaken = {} /\ \A p \in Processes : process[p].pc = "idle"
  BY DEF Init, IdleProcess
<1>10. Recorded /\ OrphansUntouched /\ DeliveredIsApplied /\ KeptUnlessDeleted /\ ReopenedWhenFree
       /\ NewerChangeVetoes
  BY <1>8, <1>9 DEF Recorded, RecordedOf, OrphansUntouched, DeliveredIsApplied, KeptUnlessDeleted,
                    ReopenedWhenFree, NewerChangeVetoes
<1>11. Overtaken
  BY <1>8, <1>9 DEF Overtaken, OvertakenAt, Messages
<1>12. CleanupMarked
  BY DEF Init, CleanupMarked
<1>13. CountedOnce
  <2> SUFFICES ASSUME NEW c \in Conversations
               PROVE  con[c].unread = Cardinality({m \in Messages : activity[m].applied /\ journal[m].c = c})
    BY DEF CountedOnce
  <2>1. {m \in Messages : activity[m].applied /\ journal[m].c = c} = {}
    BY <1>8
  <2>2. con[c].unread = 0
    BY DEF Init
  <2> QED
    BY <2>1, <2>2, FS_EmptySet
<1> QED
  BY <1>6, <1>7, <1>10, <1>11, <1>12, <1>13 DEF IInv

LEMMA InductiveStep == IInv /\ [Next]_vars => IInv'
<1> SUFFICES ASSUME IInv, [Next]_vars PROVE IInv'
  OBVIOUS
<1>1. /\ Typed /\ Held /\ Recorded /\ CleanupMarked /\ OrphansUntouched /\ Expected /\ Overtaken
      /\ CountedOnce /\ DeliveredIsApplied /\ KeptUnlessDeleted /\ ReopenedWhenFree /\ NewerChangeVetoes
  BY DEF IInv
<1>2. Typed' /\ Steady
  BY <1>1, TypedStep, SteadyStep
<1>3. Held' /\ Recorded' /\ CleanupMarked' /\ OrphansUntouched'
  BY <1>1, <1>2, HeldStep, RecordedStep, CleanupStep, OrphansStep
<1>4. Expected' /\ Overtaken'
  BY <1>1, <1>2, ExpectedStep, OvertakenStep
<1>5. CountedOnce' /\ DeliveredIsApplied' /\ KeptUnlessDeleted'
  BY <1>1, <1>2, CountedStep, DeliveredStep, KeptStep
<1>6. ReopenedWhenFree' /\ NewerChangeVetoes'
  BY <1>1, <1>2, FreeStep, VetoStep
<1> QED
  BY <1>2, <1>3, <1>4, <1>5, <1>6 DEF IInv

LEMMA Inductive == Spec => []IInv
BY InductiveInit, InductiveStep, PTL DEF Spec

\* However often the activity of a message is delivered (by the request, by the
\* reconciler, by both), CON counts it once: unread_count of a conversation is the
\* number of messages with an activity receipt in it.
THEOREM ActivityCounted == Spec => []CountedOnce
BY Inductive, PTL DEF IInv

\* MSG's journal says "delivered" only of an activity that CON's receipt records
\* (applyMessageActivity marks the change after CON has answered).
THEOREM DeliveredMeansApplied == Spec => []DeliveredIsApplied
BY Inductive, PTL DEF IInv

\* A committed message is only taken away, and its activity only given up, for the
\* deletion of its conversation (cancelOrphanedCreate, CleanupConversation).
THEOREM MessagesKept == Spec => []KeptUnlessDeleted
BY Inductive, PTL DEF IInv

\* A row that arrives in a conversation after its messages were deleted has a pending
\* change, by which ReconcilePendingActivity finds and cancels it.
THEOREM OrphansFound == Spec => []OrphansPending
<1>1. IInv => OrphansPending
  BY DEF IInv, OrphansUntouched, OrphansPending
<1> QED
  BY <1>1, Inductive, PTL

\* A conversation is only reopened for a contact that was asked for and is not blocked,
\* though CON asks before the transaction and for what an older snapshot said.
THEOREM ContactChecked == Spec => []ReopenedWhenFree
BY Inductive, PTL DEF IInv

\* "A newer owner mutation vetoes the requested transition": no message reopens a
\* conversation that was changed after its handler read it.
THEOREM NewerChangeKept == Spec => []NewerChangeVetoes
BY Inductive, PTL DEF IInv

----------------------------------------------------------------------------
(* Versions, ids and pages *)

AppliedOnes == {m \in Messages : activity[m].applied}
CommittedOnes == {m \in Messages : Committed(m)}

\* A version counts the activities and the changes by people; ids are given out in order.
Measured ==
    /\ trouble \in 0..MaxTrouble
    /\ \A c \in Conversations :
          1 <= con[c].version /\ con[c].version <= 1 + trouble + Cardinality(AppliedOnes)
    /\ \A m \in Messages : journal[m].expected <= MaxVersion
    /\ \A p \in Processes : process[p].expected <= MaxVersion
    /\ \A m \in Messages : journal[m].id <= Cardinality(CommittedOnes)
    /\ \A m, n \in Messages : Committed(m) /\ Committed(n) /\ journal[m].id = journal[n].id => m = n
    /\ page \in Seq(Messages) /\ Len(page) <= PageSize
    /\ cursor \in 0..Cardinality(Messages)

\* Sets of messages are finite.
LEMMA FiniteMessages ==
    ASSUME NEW S \in SUBSET Messages
    PROVE  /\ IsFiniteSet(S) /\ Cardinality(S) \in Nat /\ Cardinality(Messages) \in Nat
           /\ Cardinality(S) <= Cardinality(Messages)
<1>1. IsFiniteSet(S) /\ Cardinality(S) <= Cardinality(Messages)
  BY FS_Subset
<1> QED
  BY <1>1, FS_CardinalityType

\* The rows of a page are ordered by their ids: each place has its message.
LEMMA Ranked ==
    ASSUME journal \in JournalSet, NEW ms \in SUBSET Messages,
           \A m, n \in ms : journal[m].id = journal[n].id => m = n,
           NEW i \in 1..Cardinality(ms)
    PROVE  \E m \in ms : Cardinality({n \in ms : journal[n].id <= journal[m].id}) = i
<1> DEFINE Below(m) == {n \in ms : journal[n].id <= journal[m].id}
           f == [m \in ms |-> Cardinality(Below(m))]
<1>1. IsFiniteSet(ms) /\ Cardinality(ms) \in Nat
  BY FiniteMessages
<1>2. \A m \in ms : journal[m].id \in Nat
  BY DEF JournalSet
<1>3. ASSUME NEW m \in ms
      PROVE  /\ Below(m) \in SUBSET ms /\ m \in Below(m) /\ IsFiniteSet(Below(m))
             /\ Cardinality(Below(m)) \in 1..Cardinality(ms)
  <2>1. Below(m) \in SUBSET ms /\ m \in Below(m)
    BY <1>2
  <2> HIDE DEF Below
  <2>2. IsFiniteSet(Below(m)) /\ Cardinality(Below(m)) <= Cardinality(ms)
    BY <1>1, <2>1, FS_Subset
  <2>3. Cardinality(Below(m)) \in Nat /\ Cardinality(Below(m)) # 0
    BY <2>1, <2>2, FS_CardinalityType, FS_EmptySet
  <2> QED
    BY <1>1, <2>1, <2>2, <2>3
<1>4. ASSUME NEW m \in ms, NEW n \in ms, journal[m].id < journal[n].id
      PROVE  Cardinality(Below(m)) # Cardinality(Below(n))
  <2>1. Below(m) \subseteq Below(n) /\ n \notin Below(m) /\ n \in Below(n)
    BY <1>2, <1>4
  <2>2. IsFiniteSet(Below(n))
    BY <1>3
  <2> HIDE DEF Below
  <2> QED
    BY <2>1, <2>2, FS_Subset
<1>5. f \in [ms -> 1..Cardinality(ms)]
  <2> HIDE DEF Below
  <2> QED
    BY <1>3
<1>6. ASSUME NEW m \in ms, NEW n \in ms, f[m] = f[n] PROVE m = n
  <2>1. journal[m].id = journal[n].id \/ journal[m].id < journal[n].id \/ journal[n].id < journal[m].id
    BY <1>2
  <2>2. Cardinality(Below(m)) = Cardinality(Below(n))
    BY <1>6
  <2> HIDE DEF Below
  <2> QED
    BY <1>4, <2>1, <2>2
<1> HIDE DEF f
<1>7. f \in Injection(ms, 1..Cardinality(ms))
  BY <1>5, <1>6 DEF Injection, IsInjective
<1>8. IsFiniteSet(1..Cardinality(ms)) /\ Cardinality(1..Cardinality(ms)) = Cardinality(ms)
  BY <1>1, FS_Interval
<1>9. f \in Surjection(ms, 1..Cardinality(ms))
  BY <1>7, <1>8, FS_Injection
<1>10. PICK m \in ms : f[m] = i
  BY <1>9 DEF Surjection
<1> QED
  BY <1>10 DEF f

\* What ReconcilePendingActivity reads is a page of messages.
LEMMA PageTypes ==
    ASSUME journal \in JournalSet, NEW ms \in SUBSET Messages,
           \A m, n \in ms : journal[m].id = journal[n].id => m = n
    PROVE  PageOf(ms) \in Seq(Messages) /\ Len(PageOf(ms)) <= PageSize
<1> DEFINE Rank(m) == Cardinality({n \in ms : journal[n].id <= journal[m].id})
           size == IF Cardinality(ms) < PageSize THEN Cardinality(ms) ELSE PageSize
<1>1. size \in Nat /\ size <= PageSize /\ size <= Cardinality(ms) /\ Cardinality(ms) \in Nat
  BY FiniteMessages
<1>2. ASSUME NEW i \in 1..size PROVE (CHOOSE m \in ms : Rank(m) = i) \in Messages
  <2>1. i \in 1..Cardinality(ms)
    BY <1>1
  <2>2. \E m \in ms : Rank(m) = i
    BY <2>1, Ranked
  <2> HIDE DEF Rank
  <2>3. (CHOOSE m \in ms : Rank(m) = i) \in ms
    BY <2>2
  <2> QED
    BY <2>3
<1>3. PageOf(ms) = [i \in 1..size |-> CHOOSE m \in ms : Rank(m) = i]
  BY DEF PageOf
<1> HIDE DEF size, Rank
<1>4. PageOf(ms) \in [1..size -> Messages]
  BY <1>2, <1>3
<1> QED
  BY <1>1, <1>4

\* Troubles are only added, within their bound.
LEMMA TroubleStep ==
    ASSUME trouble \in 0..MaxTrouble, [Next]_vars
    PROVE  trouble' \in 0..MaxTrouble /\ trouble <= trouble'
<1>1. \/ trouble' = trouble
      \/ trouble < MaxTrouble /\ trouble' = trouble + 1
  BY DEF vars, Next, Serve, Activity, Reconcile, Delete, Receive, Ensure, Call, CheckFails, EnsureFails,
         Commit, Look, Apply, Mark, Abandon, Scan, Take, Change, MarkDeleting, CleanupRead, CleanupDelete,
         Remove, DeleteFails, Crash, CrashReconciler, Detach, RemoveContact, Trouble
<1> QED
  BY <1>1

\* Every version was made by an activity or a trouble (applyMessageActivity,
\* updateWithAutomation, Delete).
LEMMA VersionStep ==
    ASSUME Typed, Typed', Held, Steady, Measured, [Next]_vars, NEW c \in Conversations
    PROVE  1 <= con'[c].version /\ con'[c].version <= 1 + trouble' + Cardinality(AppliedOnes')
<1>1. con \in [Conversations -> [status : Statuses, version : Nat, unread : Nat]]
  BY DEF Typed, ConSet
<1>2. trouble \in Nat /\ trouble' \in Nat /\ trouble <= trouble'
  BY TroubleStep DEF Measured
<1>3. /\ Cardinality(AppliedOnes) \in Nat /\ Cardinality(AppliedOnes') \in Nat
      /\ Cardinality(AppliedOnes) <= Cardinality(AppliedOnes')
  <2>1. AppliedOnes \subseteq AppliedOnes' /\ AppliedOnes' \subseteq Messages
    BY DEF AppliedOnes, Steady
  <2>2. IsFiniteSet(AppliedOnes')
    BY <2>1, FiniteMessages
  <2> QED
    BY <2>1, <2>2, FiniteMessages, FS_Subset
<1>4. con[c].version \in Nat /\ 1 <= con[c].version
      /\ con[c].version <= 1 + trouble + Cardinality(AppliedOnes)
  BY <1>1 DEF Measured
<1>5. CASE con'[c].version = con[c].version
  BY <1>2, <1>3, <1>4, <1>5
<1>6. ASSUME NEW p \in Processes, Apply(p), con' # con
      PROVE  con'[c].version <= con[c].version + 1 /\ con[c].version <= con'[c].version
             /\ Cardinality(AppliedOnes') = Cardinality(AppliedOnes) + 1
  <2> DEFINE m == process[p].m
             d == process[p].c
  <2>1. m \in Messages /\ activity'[m].applied
    BY <1>6, ApplyHolds
  <2>2. /\ ~activity[m].applied
        /\ con' = [con EXCEPT ![d].version = @ + 1, ![d].unread = @ + 1,
                              ![d].status = IF Reopens(p, d) THEN "open" ELSE @]
        /\ \A n \in Messages : n # m => activity'[n] = activity[n]
    BY <1>6 DEF Apply, Typed, ActivitySet
  <2>3. AppliedOnes' = AppliedOnes \cup {m} /\ m \notin AppliedOnes
    BY <2>1, <2>2 DEF AppliedOnes
  <2>4. IsFiniteSet(AppliedOnes)
    BY FiniteMessages DEF AppliedOnes
  <2>5. Cardinality(AppliedOnes') = Cardinality(AppliedOnes) + 1
    BY <2>3, <2>4, FS_AddElement
  <2>6. con'[c].version = con[c].version \/ con'[c].version = con[c].version + 1
    BY <1>1, <2>2
  <2> QED
    BY <1>4, <2>5, <2>6
<1>7. ASSUME NEW d \in Conversations, Change(d) \/ MarkDeleting(d)
      PROVE  /\ con'[c].version = con[c].version \/ con'[c].version = con[c].version + 1
             /\ trouble' = trouble + 1
  <2>1. PICK s \in {"open", "resolved", "deleting"} : con' = [con EXCEPT ![d].version = @ + 1, ![d].status = s]
    BY <1>1, <1>7 DEF Change, MarkDeleting
  <2>2. trouble' = trouble + 1
    BY <1>7 DEF Change, MarkDeleting, Trouble
  <2> QED
    BY <1>1, <2>1, <2>2
<1>8. ASSUME NEW w \in Workers, Ensure(w) PROVE con'[c].version = con[c].version
  BY <1>1, <1>8 DEF Ensure
<1>9. ASSUME NEW d \in Conversations, Remove(d) PROVE con'[c].version = con[c].version
  BY <1>1, <1>9 DEF Remove
<1>10. \/ con' = con
       \/ \E w \in Workers : Ensure(w)
       \/ \E p \in Processes : Apply(p)
       \/ \E d \in Conversations : Change(d) \/ MarkDeleting(d) \/ Remove(d)
  BY DEF vars, Next, Serve, Activity, Reconcile, Delete, Receive, Call, CheckFails, EnsureFails, Commit,
         Look, Mark, Abandon, Scan, Take, CleanupRead, CleanupDelete, DeleteFails, Crash, CrashReconciler,
         Detach, RemoveContact, Processes
<1>11. CASE con' # con /\ \E p \in Processes : Apply(p)
  <2>1. con[c].version \in Nat /\ con'[c].version <= con[c].version + 1 /\ con[c].version <= con'[c].version
        /\ Cardinality(AppliedOnes') = Cardinality(AppliedOnes) + 1
    BY <1>4, <1>6, <1>11
  <2>2. con'[c].version \in Nat
    BY DEF Typed, ConSet
  <2> QED
    BY <1>2, <1>3, <1>4, <2>1, <2>2
<1>12. CASE \E d \in Conversations : Change(d) \/ MarkDeleting(d)
  BY <1>2, <1>3, <1>4, <1>7, <1>12
<1> QED
  BY <1>5, <1>8, <1>9, <1>10, <1>11, <1>12

\* Ids and expectations are written once, when a message is committed.
LEMMA IdCases ==
    ASSUME Typed, Held, [Next]_vars
    PROVE  \/ \A m \in Messages : /\ journal'[m].id = journal[m].id
                                  /\ journal'[m].expected = journal[m].expected
                                  /\ Committed(m)' <=> Committed(m)
           \/ \E w \in Workers : Commit(w) /\ ~Committed(process[w].m)
<1>0. journal \in JournalSet
  BY DEF Typed
<1>1. ASSUME NEW ms, journal' = Superseded(ms), NEW m \in Messages
      PROVE  /\ journal'[m].id = journal[m].id /\ journal'[m].expected = journal[m].expected
             /\ Committed(m)' <=> Committed(m)
  <2>1. \/ journal'[m] = journal[m]
        \/ journal[m].status = "pending" /\ journal'[m] = [journal[m] EXCEPT !.status = "superseded"]
    BY <1>1 DEF Superseded
  <2> QED
    BY <1>0, <2>1 DEF Committed, JournalSet
<1>2. ASSUME NEW p \in Processes, Mark(p), NEW m \in Messages
      PROVE  /\ journal'[m].id = journal[m].id /\ journal'[m].expected = journal[m].expected
             /\ Committed(m)' <=> Committed(m)
  <2>1. journal' = [journal EXCEPT ![process[p].m].status = "delivered"] /\ process[p].pc = "mark"
    BY <1>2 DEF Mark, At
  <2>2. Committed(process[p].m)
    BY <2>1 DEF Held, HeldBy, Working
  <2>3. m # process[p].m => journal'[m] = journal[m]
    BY <1>0, <2>1 DEF JournalSet
  <2>4. m = process[p].m => /\ journal'[m].id = journal[m].id /\ journal'[m].expected = journal[m].expected
                            /\ journal'[m].status = "delivered"
    BY <1>0, <2>1 DEF JournalSet
  <2> QED
    BY <2>2, <2>3, <2>4 DEF Committed
<1>3. CASE journal' = journal
  BY <1>3 DEF Committed
<1>4. CASE \E p \in Processes : Apply(p)
  BY <1>3, <1>4, ApplyHolds
<1>5. CASE \E p \in Processes : Mark(p)
  BY <1>2, <1>5
<1>6. CASE \E p \in Processes : GivenUp(p)
  BY <1>1, <1>6 DEF GivenUp
<1>7. CASE \E c \in Conversations : CleanupDelete(c)
  BY <1>1, <1>7 DEF CleanupDelete
<1> QED
  BY <1>3, <1>4, <1>5, <1>6, <1>7, StoreCases

\* Ids follow each other: a new one is greater than all before (Commit).
LEMMA IdStep ==
    ASSUME Typed, Typed', Held, Measured, [Next]_vars
    PROVE  /\ \A m \in Messages : journal'[m].id <= Cardinality(CommittedOnes')
           /\ \A m, n \in Messages :
                 Committed(m)' /\ Committed(n)' /\ journal'[m].id = journal'[n].id => m = n
           /\ \A m \in Messages : journal'[m].expected <= MaxVersion
<1>1. CASE \A m \in Messages : /\ journal'[m].id = journal[m].id
                               /\ journal'[m].expected = journal[m].expected
                               /\ Committed(m)' <=> Committed(m)
  <2>1. CommittedOnes' = CommittedOnes
    BY <1>1, Zenon DEF CommittedOnes
  <2> QED
    BY <1>1, <2>1 DEF Measured
<1>2. ASSUME NEW w \in Workers, Commit(w), ~Committed(process[w].m)
      PROVE  /\ \A m \in Messages : journal'[m].id <= Cardinality(CommittedOnes')
             /\ \A m, n \in Messages :
                   Committed(m)' /\ Committed(n)' /\ journal'[m].id = journal'[n].id => m = n
             /\ \A m \in Messages : journal'[m].expected <= MaxVersion
  <2> DEFINE x == process[w].m
             k == Cardinality(CommittedOnes)
  <2>1. x \in Messages /\ \A n \in Messages : n # x => journal'[n] = journal[n]
    BY <1>2, CommitHolds
  <2>2. journal'[x].expected = process[w].expected /\ journal'[x].status = "pending"
    BY <1>2, CommitHolds
  <2>3. journal'[x].id = k + 1
    <3>1. PICK s, c, expected, reopen :
             journal' = [journal EXCEPT ![x] = [status |-> s, id |-> k + 1, c |-> c,
                                                expected |-> expected, reopen |-> reopen]]
      BY <1>2, Zenon DEF Commit, CommittedOnes
    <3> HIDE DEF k
    <3> QED
      BY <2>1, <3>1 DEF Typed, JournalSet
  <2>4. CommittedOnes' = CommittedOnes \cup {x} /\ x \notin CommittedOnes
    BY <1>2, <2>1, <2>2 DEF CommittedOnes, Committed
  <2>5. IsFiniteSet(CommittedOnes) /\ k \in Nat
    BY FiniteMessages DEF CommittedOnes
  <2>6. Cardinality(CommittedOnes') = k + 1
    BY <2>4, <2>5, FS_AddElement
  <2> HIDE DEF k
  <2>7. ASSUME NEW m \in Messages
        PROVE  journal'[m].id <= k + 1 /\ (m # x => journal'[m].id <= k) /\ journal'[m].id \in Nat
    <3>1. journal[m].id <= k /\ journal[m].id \in Nat
      BY DEF Measured, k, Typed, JournalSet
    <3> QED
      BY <2>1, <2>3, <2>5, <3>1
  <2>8. \A m \in Messages : journal'[m].expected <= MaxVersion
    BY <2>1, <2>2 DEF Measured, Processes
  <2>9. ASSUME NEW m \in Messages, NEW n \in Messages,
               Committed(m)', Committed(n)', journal'[m].id = journal'[n].id
        PROVE  m = n
    <3>1. m = x <=> n = x
      BY <2>3, <2>5, <2>7, <2>9
    <3>2. CASE m # x
      BY <2>1, <2>9, <3>1, <3>2 DEF Measured, Committed
    <3> QED
      BY <3>1, <3>2
  <2> QED
    BY <2>6, <2>7, <2>8, <2>9
<1> QED
  BY <1>1, <1>2, IdCases

\* What a process expects is a version it read, or none.
LEMMA ExpectedBound ==
    ASSUME Typed, Typed', Held, Measured, [Next]_vars, NEW p \in Processes
    PROVE  process'[p].expected <= MaxVersion
<1>1. /\ process[p].expected <= MaxVersion /\ MaxVersion \in Nat
      /\ process \in ProcessSet /\ journal \in JournalSet
  BY FiniteMessages DEF Measured, MaxVersion, Typed
<1>2. \A c \in Conversations : con[c].version <= MaxVersion
  <2> SUFFICES ASSUME NEW c \in Conversations PROVE con[c].version <= MaxVersion
    OBVIOUS
  <2> DEFINE k == Cardinality(AppliedOnes)
             n == Cardinality(Messages)
  <2>1. k \in Nat /\ n \in Nat /\ k <= n
    BY FiniteMessages DEF AppliedOnes
  <2>2. con[c].version <= 1 + trouble + k /\ con[c].version \in Nat /\ trouble \in Nat /\ trouble <= MaxTrouble
    BY DEF Measured, Typed, ConSet
  <2>3. MaxVersion = 1 + MaxTrouble + n
    BY DEF MaxVersion
  <2> HIDE DEF k, n
  <2> QED
    BY <2>1, <2>2, <2>3
<1>3. CASE process'[p] = process[p]
  BY <1>1, <1>3
<1>4. CASE process'[p] = IdleProcess
  BY <1>1, <1>4 DEF IdleProcess
<1>5. ASSUME p \in Workers, NEW e \in Events, Receive(p, e) PROVE process'[p].expected <= MaxVersion
  BY <1>1, <1>5, ReceiveHolds
<1>6. ASSUME p \in Workers, NEW m \in Calls, Call(p, m) PROVE process'[p].expected <= MaxVersion
  BY <1>2, <1>6, CallHolds
<1>7. ASSUME p \in Workers, Ensure(p) PROVE process'[p].expected <= MaxVersion
  BY <1>1, <1>7, EnsureHolds
<1>8. ASSUME p \in Workers, Commit(p), ~Committed(process[p].m) PROVE process'[p].expected <= MaxVersion
  BY <1>1, <1>8, CommitHolds
<1>9. CASE Look(p)
  BY <1>1, <1>9, LookHolds
<1>10. CASE Apply(p)
  <2>1. After(p, "mark")
    BY <1>10 DEF Apply
  <2>2. process'[p].expected = 0
    BY <1>1, <2>1 DEF After, IdleProcess, ProcessSet
  <2> QED
    BY <1>1, <2>2
<1>11. CASE p = Reconciler /\ Take /\ Head(page) \in rows
  <2>1. PICK m \in rows : process'[p].expected = journal[m].expected
    BY <1>11, TakeHolds
  <2> QED
    BY <2>1 DEF Measured, Typed
<1> QED
  BY <1>3, <1>4, <1>5, <1>6, <1>7, <1>8, <1>9, <1>10, <1>11, ProcessCases

\* The page and the cursor of the reconciler.
LEMMA PageStep ==
    ASSUME Typed, Measured, [Next]_vars
    PROVE  page' \in Seq(Messages) /\ Len(page') <= PageSize /\ cursor' \in 0..Cardinality(Messages)
<1>0. /\ journal \in JournalSet /\ page \in Seq(Messages) /\ Len(page) <= PageSize
      /\ cursor \in 0..Cardinality(Messages) /\ Cardinality(Messages) \in Nat
  BY FiniteMessages DEF Measured, Typed
<1>1. CASE page' = page /\ cursor' = cursor
  BY <1>0, <1>1
<1>2. CASE Scan
  <2>1. PICK start \in {0, cursor} :
           page' = PageOf(PendingAfter(start)) /\ cursor' = LastId(page', start)
    BY <1>2 DEF Scan
  <2>2. PendingAfter(start) \in SUBSET Messages
    BY DEF PendingAfter
  <2>3. \A m, n \in PendingAfter(start) : journal[m].id = journal[n].id => m = n
    BY DEF PendingAfter, Measured, Committed
  <2>4. page' \in Seq(Messages) /\ Len(page') <= PageSize
    BY <1>0, <2>1, <2>2, <2>3, PageTypes
  <2>5. \A m \in Messages : journal[m].id \in 0..Cardinality(Messages)
    <3>1. Cardinality(CommittedOnes) <= Cardinality(Messages) /\ Cardinality(CommittedOnes) \in Nat
      BY FiniteMessages DEF CommittedOnes
    <3> QED
      BY <1>0, <3>1 DEF Measured, JournalSet
  <2>6. cursor' \in 0..Cardinality(Messages)
    <3>1. CASE page' = <<>>
      BY <1>0, <2>1, <3>1 DEF LastId
    <3>2. CASE page' # <<>>
      <4>1. page'[Len(page')] \in Messages
        BY <2>4, <3>2
      <4> QED
        BY <2>1, <2>5, <3>2, <4>1 DEF LastId
    <3> QED
      BY <3>1, <3>2
  <2> QED
    BY <2>4, <2>6
<1>3. CASE Take
  <2>1. page' = Tail(page) /\ page # <<>> /\ cursor' = cursor
    BY <1>3 DEF Take
  <2> QED
    BY <1>0, <2>1
<1>4. CASE CrashReconciler
  BY <1>0, <1>4 DEF CrashReconciler
<1> QED
  BY <1>1, <1>2, <1>3, <1>4
     DEF vars, loop, Next, Serve, Activity, Reconcile, Delete, Receive, Ensure, Call, CheckFails,
         EnsureFails, Commit, Look, Apply, Mark, Abandon, Change, MarkDeleting, CleanupRead, CleanupDelete,
         Remove, DeleteFails, Crash, Detach, RemoveContact

\* Nothing is committed, applied or read at the start.
LEMMA MeasuredInit == Init => Measured
<1> SUFFICES ASSUME Init PROVE Measured
  OBVIOUS
<1>1. Cardinality(AppliedOnes) \in Nat /\ Cardinality(CommittedOnes) \in Nat /\ Cardinality(Messages) \in Nat
  BY FiniteMessages DEF AppliedOnes, CommittedOnes
<1>2. MaxVersion \in Nat
  BY <1>1 DEF MaxVersion
<1>3. \A c \in Conversations : con[c].version = 1
  BY DEF Init
<1>4. \A m \in Messages : journal[m].id = 0 /\ journal[m].expected = 0 /\ ~Committed(m)
  BY DEF Init, NoChange, Committed
<1>5. \A p \in Processes : process[p].expected = 0
  BY DEF Init, IdleProcess
<1>6. trouble = 0 /\ page = <<>> /\ cursor = 0
  BY DEF Init
<1> QED
  BY <1>1, <1>2, <1>3, <1>4, <1>5, <1>6 DEF Measured

\* Every step keeps versions, ids, expectations and the page in their bounds.
LEMMA MeasuredStep == IInv /\ Measured /\ [Next]_vars => Measured'
<1> SUFFICES ASSUME IInv, Measured, [Next]_vars PROVE Measured'
  OBVIOUS
<1>1. Typed /\ Held
  BY DEF IInv
<1>2. Typed' /\ Steady
  BY <1>1, TypedStep, SteadyStep
<1>3. trouble' \in 0..MaxTrouble
  BY TroubleStep DEF Measured
<1>4. \A c \in Conversations : 1 <= con'[c].version /\ con'[c].version <= 1 + trouble' + Cardinality(AppliedOnes')
  BY <1>1, <1>2, VersionStep
<1>5. \A p \in Processes : process'[p].expected <= MaxVersion
  BY <1>1, <1>2, ExpectedBound
<1>6. /\ \A m \in Messages : journal'[m].id <= Cardinality(CommittedOnes')
      /\ \A m, n \in Messages : Committed(m)' /\ Committed(n)' /\ journal'[m].id = journal'[n].id => m = n
      /\ \A m \in Messages : journal'[m].expected <= MaxVersion
  BY <1>1, <1>2, IdStep
<1>7. page' \in Seq(Messages) /\ Len(page') <= PageSize /\ cursor' \in 0..Cardinality(Messages)
  BY <1>1, PageStep
<1> QED
  BY <1>3, <1>4, <1>5, <1>6, <1>7 DEF Measured

\* A contact is there, leaving or gone, and only its deletion changes that
\* (ContactRepository.Delete).
ContactTyped == person \in {"there", "leaving", "gone"} /\ detached \subseteq Conversations

LEMMA ContactStep == ContactTyped /\ [Next]_vars => ContactTyped'
<1> SUFFICES ASSUME ContactTyped, [Next]_vars PROVE ContactTyped'
  OBVIOUS
<1>1. CASE Detach
  BY <1>1 DEF Detach, ContactTyped
<1>2. CASE RemoveContact
  BY <1>2 DEF RemoveContact, ContactTyped
<1>3. CASE contacts' = contacts
  BY <1>3 DEF contacts, ContactTyped
<1>4. Detach \/ RemoveContact \/ contacts' = contacts
  BY DEF vars, contacts, Next, Serve, Activity, Reconcile, Delete, Receive, Ensure, EnsureFails, Call, CheckFails,
         Commit, Look, Apply, Mark, Abandon, Scan, Take, Change, MarkDeleting, CleanupRead, CleanupDelete, Remove,
         DeleteFails, Crash, CrashReconciler
<1> QED
  BY <1>1, <1>2, <1>3, <1>4

\* The stores, the processes and the reconciler hold what their types say: a version
\* counts activities and changes by people, no id is given out twice, and
\* a page is never longer than its limit (ReconcilePendingActivity).
THEOREM TypeCorrect == Spec => []TypeOK
<1>1. IInv /\ Measured /\ ContactTyped => TypeOK
  <2> SUFFICES ASSUME IInv, Measured, ContactTyped PROVE TypeOK
    OBVIOUS
  <2>1. Typed /\ CountedOnce
    BY DEF IInv
  <2> DEFINE a == Cardinality(AppliedOnes)
             n == Cardinality(Messages)
             k == Cardinality(CommittedOnes)
  <2>2. a \in Nat /\ n \in Nat /\ k \in Nat /\ a <= n /\ k <= n
    BY FiniteMessages DEF AppliedOnes, CommittedOnes
  <2>3. MaxVersion = 1 + MaxTrouble + n
    BY DEF MaxVersion
  <2>4. trouble \in 0..MaxTrouble
    BY DEF Measured
  <2>5. con \in [Conversations -> [status : Statuses, version : 1..MaxVersion, unread : 0..MaxVersion]]
    <3>1. ASSUME NEW c \in Conversations
          PROVE  con[c].version \in 1..MaxVersion /\ con[c].unread \in 0..MaxVersion
      <4>1. con[c].version \in Nat /\ 1 <= con[c].version /\ con[c].version <= 1 + trouble + a
        BY <2>1 DEF Measured, Typed, ConSet
      <4>2. con[c].unread = Cardinality(Counted(c)) /\ Counted(c) \in SUBSET Messages
        BY <2>1 DEF CountedOnce, Counted
      <4>3. con[c].unread \in Nat /\ con[c].unread <= n
        BY <4>2, FiniteMessages
      <4> HIDE DEF a, n
      <4> QED
        BY <2>2, <2>3, <2>4, <4>1, <4>3
    <3> QED
      BY <2>1, <3>1 DEF Typed, ConSet
  <2>6. journal \in [Messages -> [status : {"none", "pending", "delivered", "superseded"},
                                  id : 0..Cardinality(Messages), c : Conversations,
                                  expected : 0..MaxVersion, reopen : BOOLEAN]]
    <3>1. ASSUME NEW m \in Messages
          PROVE  journal[m].id \in 0..n /\ journal[m].expected \in 0..MaxVersion
      <4>1. /\ journal[m].id \in Nat /\ journal[m].id <= k
            /\ journal[m].expected \in Nat /\ journal[m].expected <= MaxVersion
        BY <2>1 DEF Measured, Typed, JournalSet
      <4> HIDE DEF k, n
      <4> QED
        BY <2>2, <2>3, <4>1
    <3> QED
      BY <2>1, <3>1 DEF Typed, JournalSet
  <2>7. process \in [Processes -> [pc : Steps, m : Messages \cup {NoMessage}, c : Conversations,
                                   expected : 0..MaxVersion, reopen : BOOLEAN, contact : Eligibility]]
    <3>1. ASSUME NEW p \in Processes PROVE process[p].expected \in 0..MaxVersion
      <4>1. process[p].expected \in Nat /\ process[p].expected <= MaxVersion
        BY <2>1 DEF Measured, Typed, ProcessSet
      <4> HIDE DEF n
      <4> QED
        BY <2>2, <2>3, <4>1
    <3> QED
      BY <2>1, <3>1 DEF Typed, ProcessSet
  <2> QED
    BY <2>1, <2>4, <2>5, <2>6, <2>7 DEF TypeOK, Typed, ActivitySet, CleanupSet, Measured, ContactTyped
<1>2. Init => ContactTyped
  BY DEF Init, ContactTyped
<1> QED
  BY <1>1, <1>2, ContactStep, MeasuredInit, MeasuredStep, Inductive, PTL DEF Spec
=============================================================================
