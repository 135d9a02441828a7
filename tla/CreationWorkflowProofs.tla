---------------------- MODULE CreationWorkflowProofs ------------------------
(***************************************************************************)
(* Proofs about CreationWorkflow, for any number of planned messages,      *)
(* loops and troubles: its types with the number of versions the plan and  *)
(* the people can make, what version the fact of the creation is given out *)
(* with, and that a sound plan is never set aside.                         *)
(***************************************************************************)
EXTENDS CreationWorkflow, FiniteSetTheorems, TLAPS

USE PlanAssumption, NamesAssumption, AbsentAssumption

----------------------------------------------------------------------------
(* Types *)

Received == {i \in Steps : receipt[i] # NoReceipt}

\* Each step makes one version, everything else is trouble.
Counted == Len(changes) <= Cardinality(Received) + trouble

PCs == {"idle", "check", "commit", "apply", "mark", "finalize", "reject", "manual", "cancelled"}
ProcessSet == [Processes -> [pc : PCs, step : Steps]]
ReceiptSet == [Steps -> Receipts \cup {NoReceipt}]
MessageSet == [Steps -> {"none", "pending", "delivered", "dropped"}]

Typed ==
    /\ status \in {"open", "deleting", "gone"}
    /\ changes \in Seq(Steps \cup {Somebody})
    /\ receipt \in ReceiptSet
    /\ plan \in {"pending", "delivered", "cancelled", "manual"}
    /\ done \in Completions \cup {NoCompletion}
    /\ message \in MessageSet
    /\ process \in ProcessSet
    /\ gate \in {"idle", "pending", "delivered", "cancelled", "manual"}
    /\ released \subseteq {0, Created, Created + N}
    /\ trouble \in 0..MaxTrouble
    /\ Counted /\ Len(changes) <= N + MaxTrouble

\* There are no more receipts than steps, and one more once a step gets its receipt.
LEMMA ReceivedSize ==
    /\ IsFiniteSet(Steps) /\ IsFiniteSet(Received)
    /\ Cardinality(Received) \in Nat /\ Cardinality(Received) <= N
  <1>1. IsFiniteSet(Steps) /\ Cardinality(Steps) = N
    BY FS_Interval DEF Steps
  <1>2. Received \in SUBSET Steps
    BY DEF Received
  <1>3. IsFiniteSet(Received) /\ Cardinality(Received) <= N
    BY <1>1, <1>2, FS_Subset
  <1> QED BY <1>1, <1>3, FS_CardinalityType

\* The receipt written by a step that makes version v + 1.
LEMMA ReceiptType ==
    ASSUME NEW i \in Steps, NEW v \in Created..(Created + N + MaxTrouble), Expected(i) <= v
    PROVE  ReceiptAt(i, v) \in Receipts
  BY DEF ReceiptAt, Receipts, Expected, Created, Steps

\* What Goto and Finish leave of the processes.
LEMMA GotoType ==
    ASSUME process \in ProcessSet, NEW p \in Processes, NEW pc \in PCs
    PROVE  /\ Goto(p, pc) => process' \in ProcessSet
           /\ Finish(p) => process' \in ProcessSet
  BY DEF Goto, Finish, ProcessSet, Idle, Steps, PCs

LEMMA FailsType ==
    ASSUME process \in ProcessSet, NEW p \in Processes, Fails(p)
    PROVE  process' \in ProcessSet
  BY GotoType DEF Fails, PCs

THEOREM TypesHold == Spec => []Typed
  <1> DEFINE T == Typed
  <1>1. Init => T
    <2> SUFFICES ASSUME Init PROVE T
      OBVIOUS
    <2>1. process \in ProcessSet
      BY DEF Init, ProcessSet, PCs, Idle, Processes, Completers, Steps
    <2>2. Received = {}
      BY DEF Init, Received
    <2>3. Counted
      BY <2>2, FS_EmptySet DEF Init, Counted
    <2>4. receipt \in ReceiptSet /\ message \in MessageSet
      BY DEF Init, ReceiptSet, MessageSet
    <2> QED BY <2>1, <2>3, <2>4 DEF Init, Typed, Created
  <1>2. T /\ [Next]_vars => T'
    <2> SUFFICES ASSUME Typed, [Next]_vars PROVE Typed'
      OBVIOUS
    <2> USE DEF Typed
    <2>p. Processes = Loops \cup {Request, Reconciler} /\ Completers \subseteq Processes /\ Loops \subseteq Completers
      BY DEF Processes, Completers
    <2>1. ASSUME NEW l \in Loops, Begin(l) PROVE Typed'
      BY <2>1, <2>p, GotoType DEF Begin, con, Counted, Received, PCs
    <2>2. ASSUME NEW p \in Processes, Check(p) PROVE Typed'
      BY <2>2, FailsType, GotoType DEF Check, con, Counted, Received, PCs
    <2>3. ASSUME NEW p \in Processes, Commit(p) PROVE Typed'
      <3>1. process' \in ProcessSet
        BY <2>3, FailsType, GotoType DEF Commit, PCs
      <3>2. process[p].step \in Steps
        BY DEF ProcessSet
      <3>3. message' \in MessageSet
        BY <2>3, <3>2 DEF Commit, MessageSet
      <3> QED BY <2>3, <3>1, <3>3 DEF Commit, con, Counted, Received
    <2>4. ASSUME NEW p \in Processes, Apply(p) PROVE Typed'
      <3> DEFINE i == process[p].step
      <3>1. i \in Steps
        BY DEF ProcessSet
      <3>2. process' \in ProcessSet
        BY <2>4, GotoType DEF Apply, PCs
      <3>3. CASE receipt[i] # NoReceipt \/ Expected(i) > Version
        BY <2>4, <3>2, <3>3 DEF Apply, Counted, Received
      <3>4. CASE receipt[i] = NoReceipt /\ ~(Expected(i) > Version)
        <4>1. /\ changes' = Append(changes, i)
              /\ receipt' = [receipt EXCEPT ![i] = ReceiptAt(i, Version)]
              /\ UNCHANGED <<status, plan, done, message, gate, released, trouble>>
          BY <2>4, <3>4 DEF Apply
        <4>2. Len(changes) \in Nat /\ Len(changes) <= Cardinality(Received) + trouble
          BY DEF Counted
        <4>3. i \notin Received
          BY <3>4 DEF Received
        <4>4. Received \cup {i} \subseteq Steps /\ Cardinality(Received \cup {i}) = Cardinality(Received) + 1
          BY <3>1, <4>3, ReceivedSize, FS_AddElement DEF Received
        <4>5. Cardinality(Received) + 1 <= N
          <5>1. Cardinality(Received \cup {i}) <= Cardinality(Steps)
            BY <4>4, ReceivedSize, FS_Subset
          <5> QED BY <4>4, <5>1, FS_Interval DEF Steps
        <4>6. Expected(i) \in Nat /\ Version \in Created..(Created + N + MaxTrouble) /\ Expected(i) <= Version
          BY <3>1, <3>4, <4>2, <4>5, ReceivedSize DEF Expected, Version, Created, Steps
        <4>7. ReceiptAt(i, Version) \in Receipts
          BY <3>1, <4>6, ReceiptType
        <4>8. receipt' \in ReceiptSet
          BY <4>1, <4>7, <3>1 DEF ReceiptSet
        <4>9. Received' = Received \cup {i}
          BY <4>1, <4>7, <3>1 DEF Received, ReceiptSet
        <4>10. changes' \in Seq(Steps \cup {Somebody}) /\ Len(changes') = Len(changes) + 1
          BY <4>1, <3>1
        <4>11. Counted'
          BY <4>1, <4>2, <4>4, <4>9, <4>10, ReceivedSize DEF Counted
        <4>12. Len(changes') <= N + MaxTrouble
          <5>1. trouble \in Nat /\ trouble <= MaxTrouble /\ Cardinality(Received) \in Nat
            BY ReceivedSize
          <5> HIDE DEF Typed
          <5> QED BY <4>2, <4>5, <4>10, <5>1
        <4> QED BY <3>2, <4>1, <4>8, <4>10, <4>11, <4>12
      <3> QED BY <3>3, <3>4
    <2>5. ASSUME NEW p \in Processes, ApplyRefused(p) PROVE Typed'
      BY <2>5, FailsType DEF ApplyRefused, con, Counted, Received
    <2>6. ASSUME NEW p \in Processes, Mark(p) PROVE Typed'
      <3>1. process[p].step \in Steps /\ Idle \in [pc : PCs, step : Steps]
        BY DEF ProcessSet, Idle, PCs, Steps
      <3>2. process[p].step < N => process[p].step + 1 \in Steps
        BY <3>1 DEF Steps
      <3>3. process' \in ProcessSet
        BY <2>6, <3>1, <3>2 DEF Mark, ProcessSet, PCs
      <3>4. message' \in MessageSet
        BY <2>6, <3>1 DEF Mark, MessageSet
      <3> QED BY <2>6, <3>3, <3>4 DEF Mark, con, Counted, Received
    <2>7. ASSUME NEW p \in Processes, Finalize(p) PROVE Typed'
      <3>1. process' \in ProcessSet
        BY <2>7, FailsType, GotoType DEF Finalize, PCs
      <3>2. (\A i \in Steps : ValidReceipt(i)) => Completion \in Completions
        <4> SUFFICES ASSUME \A i \in Steps : ValidReceipt(i) PROVE Completion \in Completions
          OBVIOUS
        <4>1. \A i \in Steps : receipt[i] # NoReceipt
          BY DEF ValidReceipt
        <4>2. receipt \in [Steps -> Receipts]
          BY <4>1 DEF ReceiptSet
        <4> QED BY <4>2 DEF Completion, Completions
      <3> QED BY <2>7, <3>1, <3>2 DEF Finalize, Counted, Received
    <2>8. ASSUME NEW l \in Loops, Ask(l) \/ Reject(l) PROVE Typed'
      <3>1. l \in Processes
        BY <2>p
      <3>2. CASE Ask(l)
        BY <3>1, <3>2, GotoType DEF Ask, con, Counted, Received, PCs
      <3>3. CASE Reject(l)
        BY <3>1, <3>3, GotoType DEF Reject, Counted, Received, PCs
      <3> QED BY <2>8, <3>2, <3>3
    <2>9. ASSUME NEW i \in Steps, Take(i) PROVE Typed'
      <3>1. process' \in ProcessSet
        BY <2>9 DEF Take, ProcessSet, PCs
      <3> QED BY <2>9, <3>1 DEF Take, con, Counted, Received
    <2>10. CASE CancelOrphan
      <3>1. process' \in ProcessSet
        BY <2>10, <2>p, GotoType DEF CancelOrphan, PCs
      <3>2. message' \in MessageSet
        BY <2>10 DEF CancelOrphan, MessageSet
      <3> QED BY <2>10, <3>1, <3>2 DEF CancelOrphan, con, Counted, Received
    <2>11. CASE Gate
      <3>1. CASE ReadPlan
        BY <3>1 DEF ReadPlan, con, Counted, Received
      <3>2. CASE GiveOut
        <4>1. Answer \subseteq {0, Created, Created + N}
          BY DEF Answer, Completions
        <4> QED BY <3>2, <4>1 DEF GiveOut, con, Counted, Received
      <3> QED BY <2>11, <3>1, <3>2 DEF Gate
    <2>12. CASE Change \/ MarkDeleting
      <3>1. Len(changes') = Len(changes) + 1 /\ changes' \in Seq(Steps \cup {Somebody}) /\ Len(changes) \in Nat
        BY <2>12 DEF Change, MarkDeleting
      <3>2. Counted' /\ Len(changes') <= N + MaxTrouble /\ trouble' \in 0..MaxTrouble
        <4>1. Received' = Received /\ trouble' = trouble + 1 /\ trouble < MaxTrouble
          BY <2>12 DEF Change, MarkDeleting, Trouble, Received
        <4> QED BY <3>1, <4>1, ReceivedSize DEF Counted
      <3> QED BY <2>12, <3>1, <3>2 DEF Change, MarkDeleting
    <2>13. CASE Cleanup
      BY <2>13 DEF Cleanup, Counted, Received, MessageSet
    <2>14. ASSUME NEW p \in Processes, Interrupted(p) PROVE Typed'
      <3>1. process' \in ProcessSet
        BY <2>14, GotoType DEF Interrupted, PCs
      <3>2. Counted' /\ trouble' \in 0..MaxTrouble
        BY <2>14, ReceivedSize DEF Interrupted, Trouble, con, Counted, Received
      <3> QED BY <2>14, <3>1, <3>2 DEF Interrupted, con
    <2>15. CASE UNCHANGED vars
      BY <2>15 DEF vars, con, Counted, Received
    <2> QED
      BY <2>p, <2>1, <2>2, <2>3, <2>4, <2>5, <2>6, <2>7, <2>8, <2>9, <2>10, <2>11, <2>12, <2>13, <2>14, <2>15
      DEF Next, Loop, Complete, Reconcile
  <1> QED BY <1>1, <1>2, PTL DEF Spec

\* Types, and how many versions there can be: a step of the plan makes one once, whoever
\* and however many complete it (conversation_repository.go:235-244).
THEOREM TypeCorrect == Spec => []TypeOK
  <1>1. Typed => TypeOK
    <2> SUFFICES ASSUME Typed PROVE TypeOK
      OBVIOUS
    <2> QED BY DEF Typed, TypeOK, ProcessSet, ReceiptSet, MessageSet, PCs
  <1> QED BY <1>1, TypesHold, PTL

----------------------------------------------------------------------------
(* The history of versions and the receipts *)

\* A receipt says which version it made; a version that nobody else made has its receipt.
RecordedStep(i) ==
    receipt[i] # NoReceipt =>
        /\ receipt[i].before \in 1..Len(changes) /\ changes[receipt[i].before] = i
        /\ receipt[i] = ReceiptAt(i, receipt[i].before) /\ Expected(i) <= receipt[i].before
Recorded == \A i \in Steps : RecordedStep(i)

Written ==
    \A k \in 1..Len(changes) :
        changes[k] # Somebody => receipt[changes[k]] # NoReceipt /\ receipt[changes[k]].before = k

\* Until somebody comes in between, the versions are made by the steps in their order.
Led == \A k \in 1..Len(changes) : changes[k] = k \/ \E j \in 1..k : changes[j] = Somebody

HistoryInvariant == Recorded /\ Written /\ Led

\* A step makes one version for a step of the plan, or one for somebody, or none.
Stepped(i) ==
    /\ receipt[i] = NoReceipt /\ Expected(i) <= Version
    /\ changes' = Append(changes, i)
    /\ receipt' = [receipt EXCEPT ![i] = ReceiptAt(i, Version)]

LEMMA VersionsMade ==
    ASSUME Typed, [Next]_vars
    PROVE  /\ \/ UNCHANGED <<changes, receipt>>
              \/ changes' = Append(changes, Somebody) /\ UNCHANGED receipt
              \/ \E i \in Steps : Stepped(i)
           /\ \/ UNCHANGED status
              \/ ~Exists /\ ~Exists'
              \/ Exists /\ ~Exists' /\ changes' = Append(changes, Somebody)
  <1> DEFINE Goal == /\ \/ UNCHANGED <<changes, receipt>>
                        \/ changes' = Append(changes, Somebody) /\ UNCHANGED receipt
                        \/ \E i \in Steps : Stepped(i)
                     /\ \/ UNCHANGED status
                        \/ ~Exists /\ ~Exists'
                        \/ Exists /\ ~Exists' /\ changes' = Append(changes, Somebody)
  <1>1. ASSUME NEW p \in Processes, Apply(p) PROVE Goal
    <2>1. process[p].step \in Steps
      BY DEF Typed, ProcessSet
    <2>2. Expected(process[p].step) \in Nat /\ Version \in Nat
      BY <2>1 DEF Typed, Expected, Created, Version, Steps
    <2>3. (UNCHANGED <<changes, receipt>> \/ Stepped(process[p].step)) /\ UNCHANGED status
      BY <1>1, <2>2 DEF Apply, Stepped
    <2> QED BY <2>1, <2>3
  <1>2. ASSUME NEW p \in Processes, Check(p) \/ Commit(p) \/ ApplyRefused(p) \/ Mark(p) \/ Finalize(p) \/ Interrupted(p)
        PROVE  Goal
    BY <1>2 DEF Check, Commit, ApplyRefused, Mark, Finalize, Interrupted, con
  <1>3. ASSUME NEW l \in Loops, Begin(l) \/ Ask(l) \/ Reject(l) PROVE Goal
    BY <1>3 DEF Begin, Ask, Reject, con
  <1>4. CASE Gate \/ CancelOrphan \/ \E i \in Steps : Take(i)
    BY <1>4 DEF Gate, ReadPlan, GiveOut, CancelOrphan, Take, con
  <1>5. CASE Change \/ MarkDeleting
    BY <1>5 DEF Change, MarkDeleting, Exists
  <1>6. CASE Cleanup
    BY <1>6 DEF Cleanup, Exists
  <1>7. CASE UNCHANGED vars
    BY <1>7 DEF vars, con
  <1> QED BY <1>1, <1>2, <1>3, <1>4, <1>5, <1>6, <1>7
          DEF Next, Loop, Complete, Reconcile, Processes, Completers

\* What that leaves as it was.
LEMMA HistoryGrows ==
    ASSUME Typed, [Next]_vars
    PROVE  /\ Len(changes') \in Nat /\ Len(changes) \in Nat /\ Len(changes) <= Len(changes')
           /\ \A k \in 1..Len(changes) : changes'[k] = changes[k]
           /\ \A i \in Steps : receipt[i] # NoReceipt => receipt'[i] = receipt[i]
           /\ (\A i \in Steps : receipt[i] # NoReceipt) => receipt' = receipt
           /\ ~Exists => ~Exists'
  <1>1. changes \in Seq(Steps \cup {Somebody}) /\ receipt \in ReceiptSet
    BY DEF Typed
  <1>2. ~Exists => ~Exists'
    BY VersionsMade DEF Exists
  <1>3. CASE UNCHANGED <<changes, receipt>>
    BY <1>1, <1>2, <1>3
  <1>4. CASE changes' = Append(changes, Somebody) /\ UNCHANGED receipt
    BY <1>1, <1>2, <1>4
  <1>5. ASSUME NEW i \in Steps, Stepped(i)
        PROVE  /\ Len(changes') \in Nat /\ Len(changes) \in Nat /\ Len(changes) <= Len(changes')
               /\ \A k \in 1..Len(changes) : changes'[k] = changes[k]
               /\ \A j \in Steps : receipt[j] # NoReceipt => receipt'[j] = receipt[j]
               /\ (\A j \in Steps : receipt[j] # NoReceipt) => receipt' = receipt
    <2>1. changes' = Append(changes, i) /\ receipt[i] = NoReceipt
      BY <1>5 DEF Stepped
    <2>2. receipt' = [receipt EXCEPT ![i] = ReceiptAt(i, Version)]
      BY <1>5 DEF Stepped
    <2>3. \A j \in Steps : receipt[j] # NoReceipt => receipt'[j] = receipt[j]
      BY <1>1, <2>1, <2>2 DEF ReceiptSet
    <2> QED BY <1>1, <2>1, <2>3
  <1> QED BY <1>2, <1>3, <1>4, <1>5, VersionsMade

LEMMA HistoryKept ==
    ASSUME Typed, Typed', HistoryInvariant, [Next]_vars
    PROVE  HistoryInvariant'
  <1>1. changes \in Seq(Steps \cup {Somebody}) /\ receipt \in ReceiptSet /\ Len(changes) \in Nat
    BY DEF Typed
  <1>0. Somebody \notin Steps
    BY DEF Somebody, Steps
  <1>2. CASE UNCHANGED <<changes, receipt>>
    BY <1>2 DEF HistoryInvariant, Recorded, RecordedStep, Written, Led
  <1>3. CASE changes' = Append(changes, Somebody) /\ UNCHANGED receipt
    <2>1. /\ Len(changes') = Len(changes) + 1 /\ changes'[Len(changes) + 1] = Somebody
          /\ \A k \in 1..Len(changes) : changes'[k] = changes[k]
      BY <1>1, <1>3
    <2>2. Recorded'
      <3> SUFFICES ASSUME NEW i \in Steps PROVE RecordedStep(i)'
        BY DEF Recorded
      <3> QED BY <1>1, <1>3, <2>1 DEF HistoryInvariant, Recorded, RecordedStep
    <2>3. Written'
      BY <1>1, <1>3, <2>1 DEF HistoryInvariant, Written
    <2>4. Led'
      <3> SUFFICES ASSUME NEW k \in 1..Len(changes')
                   PROVE  changes'[k] = k \/ \E j \in 1..k : changes'[j] = Somebody
        BY DEF Led
      <3>1. CASE k \in 1..Len(changes)
        BY <3>1, <1>1, <2>1 DEF HistoryInvariant, Led
      <3>2. CASE k = Len(changes) + 1
        BY <3>2, <1>1, <2>1
      <3> QED BY <1>1, <2>1, <3>1, <3>2
    <2> QED BY <2>2, <2>3, <2>4 DEF HistoryInvariant
  <1>4. ASSUME NEW i \in Steps, Stepped(i) PROVE HistoryInvariant'
    <2>1. /\ Len(changes') = Len(changes) + 1 /\ changes'[Len(changes) + 1] = i
          /\ \A k \in 1..Len(changes) : changes'[k] = changes[k]
      <3>1. changes' = Append(changes, i)
        BY <1>4 DEF Stepped
      <3> QED BY <1>1, <3>1
    <2>2. /\ receipt[i] = NoReceipt /\ Version = Len(changes) + 1 /\ Expected(i) = i
          /\ i <= Len(changes) + 1 /\ i \in Nat
      BY <1>1, <1>4 DEF Stepped, Version, Created, Expected, Steps
    <2>3. receipt' = [receipt EXCEPT ![i] = ReceiptAt(i, Len(changes) + 1)]
      BY <1>4, <2>2 DEF Stepped
    <2>4. receipt'[i] = ReceiptAt(i, Len(changes) + 1) /\ \A j \in Steps : j # i => receipt'[j] = receipt[j]
      BY <1>1, <2>3 DEF ReceiptSet
    <2>5. receipt'[i] # NoReceipt /\ receipt'[i].before = Len(changes) + 1
      <3>1. receipt'[i].before = Len(changes) + 1
        BY <2>4 DEF ReceiptAt
      <3>2. ReceiptAt(i, Len(changes) + 1) \in Receipts
        BY <1>1, <2>1, <2>2, ReceiptType DEF Created, Typed
      <3> QED BY <3>1, <3>2, <2>4
    <2>6. Recorded'
      <3> SUFFICES ASSUME NEW j \in Steps PROVE RecordedStep(j)'
        BY DEF Recorded
      <3>1. CASE j = i
        BY <3>1, <1>1, <2>1, <2>2, <2>4, <2>5 DEF RecordedStep, Expected, Created
      <3>2. CASE j # i
        BY <3>2, <1>1, <2>1, <2>4 DEF HistoryInvariant, Recorded, RecordedStep
      <3> QED BY <3>1, <3>2
    <2>7. Written'
      <3> SUFFICES ASSUME NEW k \in 1..Len(changes'), changes'[k] # Somebody
                   PROVE  receipt'[changes'[k]] # NoReceipt /\ receipt'[changes'[k]].before = k
        BY DEF Written
      <3>1. CASE k \in 1..Len(changes)
        <4>1. changes[k] \in Steps /\ changes'[k] = changes[k]
          BY <3>1, <1>1, <2>1
        <4>2. receipt[changes[k]] # NoReceipt /\ receipt[changes[k]].before = k
          BY <3>1, <4>1 DEF HistoryInvariant, Written
        <4>3. changes[k] # i
          BY <4>2, <2>2
        <4> QED BY <4>1, <4>2, <4>3, <2>4
      <3>2. CASE k = Len(changes) + 1
        BY <3>2, <2>1, <2>5
      <3> QED BY <1>1, <2>1, <3>1, <3>2
    <2>8. Led'
      <3> SUFFICES ASSUME NEW k \in 1..Len(changes')
                   PROVE  changes'[k] = k \/ \E j \in 1..k : changes'[j] = Somebody
        BY DEF Led
      <3>1. CASE k \in 1..Len(changes)
        BY <3>1, <1>1, <2>1 DEF HistoryInvariant, Led
      <3>2. CASE k = Len(changes) + 1
        <4>1. CASE i = Len(changes) + 1
          BY <3>2, <4>1, <2>1
        <4>2. CASE i # Len(changes) + 1
          <5>1. i \in 1..Len(changes)
            BY <1>1, <2>2, <4>2 DEF Steps
          <5>2. changes[i] # i
            BY <5>1, <1>0, <2>2 DEF HistoryInvariant, Written
          <5>3. PICK j \in 1..i : changes[j] = Somebody
            BY <5>1, <5>2 DEF HistoryInvariant, Led
          <5>4. j \in 1..Len(changes) /\ j \in 1..k
            BY <1>1, <3>2, <5>1
          <5> QED BY <2>1, <5>3, <5>4
        <4> QED BY <4>1, <4>2
      <3> QED BY <1>1, <2>1, <3>1, <3>2
    <2> QED BY <2>6, <2>7, <2>8 DEF HistoryInvariant
  <1> QED BY <1>2, <1>3, <1>4, VersionsMade

----------------------------------------------------------------------------
(* What completers, rejections and readers rely on *)

\* A step is taken up when the steps before it have their receipts.
BehindOf(p) ==
    /\ \A j \in Steps : j < process[p].step => receipt[j] # NoReceipt
    /\ process[p].pc \in {"mark", "finalize"} => receipt[process[p].step] # NoReceipt
    /\ process[p].pc = "finalize" => process[p].step = N
Behind == \A p \in Completers : BehindOf(p)

\* Only a deleted conversation makes a completion fail for good.
FailedOnlyGone ==
    /\ ~Exists => \E k \in 1..Len(changes) : changes[k] = Somebody
    /\ \A i \in Steps : message[i] = "dropped" => ~Exists
    /\ \A p \in Processes : process[p].pc # "manual" /\ (process[p].pc \in {"reject", "cancelled"} => ~Exists)
    /\ plan # "manual" /\ (plan = "cancelled" => ~Exists)
    /\ gate # "manual" /\ (gate = "cancelled" => ~Exists)

Completed == done # NoCompletion => (\A i \in Steps : receipt[i] # NoReceipt) /\ done = Completion

Invariant == HistoryInvariant /\ Behind /\ FailedOnlyGone /\ Completed /\ NotSetAside /\ TargetInheritsNothing

\* A step with a receipt counts for the plan.
LEMMA ReceiptsValid ==
    ASSUME Typed, HistoryInvariant, NEW i \in Steps, receipt[i] # NoReceipt
    PROVE  ValidReceipt(i)
  <1>1. RecordedStep(i)
    BY DEF HistoryInvariant, Recorded
  <1>2. receipt[i] = ReceiptAt(i, receipt[i].before) /\ Expected(i) <= receipt[i].before
        /\ receipt[i].before \in Nat /\ Expected(i) \in Nat
    BY <1>1 DEF RecordedStep, Expected, Created, Steps
  <1>3. \A b \in Nat : /\ b = Expected(i) => ReceiptAt(i, b).stale = FALSE /\ ReceiptAt(i, b).target = b + 1
                       /\ b # Expected(i) => ReceiptAt(i, b).stale = TRUE /\ ReceiptAt(i, b).target = Expected(i)
    BY DEF ReceiptAt
  <1>4. CASE receipt[i].before = Expected(i)
    <2>1. receipt[i].stale = FALSE /\ receipt[i].target = receipt[i].before + 1
      BY <1>2, <1>3, <1>4
    <2> QED BY <1>4, <2>1 DEF ValidReceipt
  <1>5. CASE receipt[i].before # Expected(i)
    <2>1. receipt[i].stale = TRUE /\ receipt[i].target = Expected(i) /\ receipt[i].before > Expected(i)
      BY <1>2, <1>3, <1>5
    <2> QED BY <2>1 DEF ValidReceipt
  <1> QED BY <1>4, <1>5

\* What a completion says is what the versions say.
LEMMA CompletionTrue ==
    ASSUME Typed, HistoryInvariant, \A i \in Steps : receipt[i] # NoReceipt
    PROVE  \/ /\ Completion.target = Created + N
              /\ \A k \in Steps : k \in 1..Len(changes) /\ changes[k] = k
           \/ /\ Completion.target = Created
              /\ \E k \in 1..Len(changes) : changes[k] = Somebody /\ k <= N
  <1>1. \A i \in Steps : /\ receipt[i].before \in 1..Len(changes) /\ changes[receipt[i].before] = i
                          /\ receipt[i] = ReceiptAt(i, receipt[i].before) /\ i <= receipt[i].before
                          /\ i \in 1..N /\ Len(changes) \in Nat
    BY DEF HistoryInvariant, Recorded, RecordedStep, Expected, Created, Steps, Typed
  <1>2. \A i \in Steps : receipt[i].stale = (receipt[i].before # i)
    <2> SUFFICES ASSUME NEW i \in Steps PROVE receipt[i].stale = (receipt[i].before # i)
      OBVIOUS
    <2>1. Expected(i) = i
      BY <1>1 DEF Expected, Created
    <2>2. receipt[i] = ReceiptAt(i, receipt[i].before)
      BY <1>1
    <2> QED BY <2>1, <2>2 DEF ReceiptAt
  <1>3. CASE \E i \in Steps : receipt[i].stale
    <2>1. PICK i \in Steps : receipt[i].before # i
      BY <1>2, <1>3
    <2>2. i \in 1..Len(changes) /\ i <= N
      BY <1>1, <2>1
    <2>3. changes[i] # i
      BY <2>1, <2>2 DEF HistoryInvariant, Written, Somebody, Steps
    <2>4. PICK j \in 1..i : changes[j] = Somebody
      BY <2>2, <2>3 DEF HistoryInvariant, Led
    <2>5. j \in 1..Len(changes) /\ j <= N
      BY <2>2, <1>1
    <2>6. Completion.target = Created
      BY <1>3 DEF Completion
    <2> QED BY <2>4, <2>5, <2>6
  <1>4. CASE ~(\E i \in Steps : receipt[i].stale)
    <2>1. \A i \in Steps : receipt[i].before = i
      BY <1>2, <1>4
    <2>2. \A k \in Steps : k \in 1..Len(changes) /\ changes[k] = k
      BY <1>1, <2>1
    <2>3. Completion.target = Created + N
      BY <1>4 DEF Completion
    <2> QED BY <2>2, <2>3
  <1> QED BY <1>3, <1>4

\* A completer reaches the end with every receipt, so nothing makes it fail there.
LEMMA FinalizeSucceeds ==
    ASSUME Typed, Invariant, NEW p \in Completers, At(p, "finalize")
    PROVE  (\A i \in Steps : receipt[i] # NoReceipt /\ ValidReceipt(i)) /\ done \in {NoCompletion, Completion}
  <1>1. process[p].step = N /\ receipt[N] # NoReceipt /\ \A j \in Steps : j < N => receipt[j] # NoReceipt
    BY DEF Invariant, Behind, BehindOf, At
  <1>2. \A i \in Steps : receipt[i] # NoReceipt
    BY <1>1 DEF Steps
  <1> QED BY <1>2, ReceiptsValid DEF Invariant, Completed

\* Fails leaves the completer at its step.
LEMMA FailsEffect ==
    ASSUME process \in ProcessSet, NEW p \in Processes, Fails(p)
    PROVE  /\ process'[p].step \in {process[p].step, 1} /\ process'[p].pc \in {"reject", "idle"}
           /\ \A q \in Processes : q # p => process'[q] = process[q]
  BY DEF Fails, Goto, Finish, ProcessSet, Idle

LEMMA GotoEffect ==
    ASSUME process \in ProcessSet, NEW p \in Processes, NEW pc
    PROVE  /\ Goto(p, pc) => /\ process'[p].step = process[p].step /\ process'[p].pc = pc
                             /\ \A q \in Processes : q # p => process'[q] = process[q]
           /\ Finish(p) => /\ process'[p] = Idle
                           /\ \A q \in Processes : q # p => process'[q] = process[q]
  BY DEF Goto, Finish, ProcessSet, Idle

LEMMA BehindKept ==
    ASSUME Typed, Invariant, [Next]_vars
    PROVE  Behind'
  <1>1. \A i \in Steps : receipt[i] # NoReceipt => receipt'[i] # NoReceipt
    BY HistoryGrows
  <1>2. Completers \subseteq Processes /\ process \in ProcessSet /\ Loops \subseteq Completers /\ Reconciler \notin Completers
    BY DEF Processes, Completers, Typed
  <1> SUFFICES ASSUME NEW q \in Completers PROVE BehindOf(q)'
    BY DEF Behind
  <1>3. BehindOf(q) /\ q \in Processes /\ process[q].step \in Steps
    BY <1>2 DEF Invariant, Behind, ProcessSet
  <1>4. CASE process'[q] = process[q]
    BY <1>1, <1>3, <1>4 DEF BehindOf
  <1>5. ASSUME process'[q].step \in {process[q].step, 1}, process'[q].pc \notin {"mark", "finalize"}
        PROVE  BehindOf(q)'
    BY <1>1, <1>3, <1>5 DEF BehindOf, Steps
  <1>6. ASSUME NEW p \in Processes, Check(p) \/ Commit(p) \/ ApplyRefused(p) \/ Interrupted(p) PROVE BehindOf(q)'
    <2>1. CASE p = q
      BY <1>2, <1>5, <1>6, <2>1, FailsEffect, GotoEffect DEF Check, Commit, ApplyRefused, Interrupted, Idle
    <2>2. CASE p # q
      BY <1>2, <1>3, <1>4, <1>6, <2>2, FailsEffect, GotoEffect DEF Check, Commit, ApplyRefused, Interrupted
    <2> QED BY <2>1, <2>2
  <1>7. ASSUME NEW p \in Processes, Apply(p) PROVE BehindOf(q)'
    <2>1. CASE p = q /\ Finish(p)
      BY <1>2, <1>5, <2>1, GotoEffect DEF Idle
    <2>2. CASE p = q /\ Goto(p, "mark")
      <3>1. receipt'[process[q].step] # NoReceipt
        <4>2. CASE receipt[process[q].step] # NoReceipt
          BY <1>1, <1>3, <4>2
        <4>3. CASE receipt[process[q].step] = NoReceipt
          <5>1. ~Finish(p)
            BY <1>3, <2>2, GotoEffect, <1>2 DEF Idle
          <5>2. receipt' = [receipt EXCEPT ![process[q].step] = ReceiptAt(process[q].step, Version)]
                /\ ~(Expected(process[q].step) > Version)
            BY <1>7, <2>2, <4>3, <5>1 DEF Apply
          <5>3. ReceiptAt(process[q].step, Version) \in Receipts
            <6>1. Expected(process[q].step) <= Version /\ Version \in Created..(Created + N + MaxTrouble)
              BY <5>2, <1>3 DEF Expected, Version, Created, Steps, Typed
            <6> QED BY <6>1, <1>3, ReceiptType
          <5> QED BY <1>3, <5>2, <5>3 DEF Typed, ReceiptSet
        <4> QED BY <4>2, <4>3
      <3>2. process'[q].step = process[q].step /\ process'[q].pc = "mark"
        BY <1>2, <1>3, <2>2, GotoEffect
      <3> QED BY <1>1, <1>3, <3>1, <3>2 DEF BehindOf
    <2>3. CASE p # q
      BY <1>2, <1>3, <1>4, <1>7, <2>3, GotoEffect DEF Apply
    <2> QED BY <1>7, <2>1, <2>2, <2>3 DEF Apply
  <1>8. ASSUME NEW p \in Processes, Mark(p) PROVE BehindOf(q)'
    <2>1. CASE p = q
      <3>1. process'[q] = IF process[q].step < N THEN [pc |-> "check", step |-> process[q].step + 1]
                          ELSE [pc |-> "finalize", step |-> process[q].step]
        BY <1>2, <1>3, <1>8, <2>1 DEF Mark, ProcessSet
      <3>2. process[q].step \in Nat /\ process[q].step <= N /\ receipt[process[q].step] # NoReceipt
        BY <1>3, <1>8, <2>1 DEF Mark, At, BehindOf, Steps
      <3>3. CASE process[q].step < N
        BY <1>1, <1>3, <3>1, <3>2, <3>3 DEF BehindOf, Steps
      <3>4. CASE ~(process[q].step < N)
        BY <1>1, <1>3, <3>1, <3>2, <3>4 DEF BehindOf, Steps
      <3> QED BY <3>3, <3>4
    <2>2. CASE p # q
      BY <1>2, <1>3, <1>4, <1>8, <2>2 DEF Mark, ProcessSet
    <2> QED BY <2>1, <2>2
  <1>9. ASSUME NEW p \in Processes, Finalize(p) PROVE BehindOf(q)'
    <2>1. CASE p = q
      BY <1>2, <1>5, <1>9, <2>1, FailsEffect, GotoEffect DEF Finalize, Idle
    <2>2. CASE p # q
      BY <1>2, <1>3, <1>4, <1>9, <2>2, FailsEffect, GotoEffect DEF Finalize
    <2> QED BY <2>1, <2>2
  <1>10. ASSUME NEW l \in Loops, Begin(l) \/ Ask(l) \/ Reject(l) PROVE BehindOf(q)'
    <2>1. l \in Processes
      BY <1>2
    <2>2. CASE l = q
      BY <1>2, <1>5, <1>10, <2>1, <2>2, GotoEffect DEF Begin, Ask, Reject, Idle
    <2>3. CASE l # q
      BY <1>2, <1>3, <1>4, <1>10, <2>1, <2>3, GotoEffect DEF Begin, Ask, Reject
    <2> QED BY <2>2, <2>3
  <1>11. CASE CancelOrphan \/ \E i \in Steps : Take(i)
    <2>1. Reconciler \in Processes /\ q # Reconciler
      BY <1>2 DEF Processes
    <2>2. process'[q] = process[q]
      BY <1>2, <1>3, <1>11, <2>1, GotoEffect DEF CancelOrphan, Take, ProcessSet
    <2> QED BY <1>4, <2>2
  <1>12. CASE Gate \/ Change \/ MarkDeleting \/ Cleanup \/ UNCHANGED vars
    BY <1>4, <1>12 DEF Gate, ReadPlan, GiveOut, Change, MarkDeleting, Cleanup, vars
  <1> QED BY <1>2, <1>6, <1>7, <1>8, <1>9, <1>10, <1>11, <1>12
          DEF Next, Loop, Complete, Reconcile, Processes, Completers

LEMMA FailuresKept ==
    ASSUME Typed, Invariant, [Next]_vars
    PROVE  FailedOnlyGone'
  <1>1. ~Exists => ~Exists'
    BY HistoryGrows
  <1>2. Completers \subseteq Processes /\ process \in ProcessSet /\ Loops \subseteq Completers
        /\ Request \in Completers /\ Reconciler \in Processes
    BY DEF Processes, Completers, Typed
  <1>3. ~Exists' => \E k \in 1..Len(changes') : changes'[k] = Somebody
    <2> SUFFICES ASSUME ~Exists' PROVE \E k \in 1..Len(changes') : changes'[k] = Somebody
      OBVIOUS
    <2>1. CASE ~Exists
      BY <2>1, HistoryGrows DEF Invariant, FailedOnlyGone
    <2>2. CASE Exists
      <3>1. changes' = Append(changes, Somebody) /\ changes \in Seq(Steps \cup {Somebody})
        BY <2>2, VersionsMade DEF Exists, Typed
      <3>2. changes'[Len(changes) + 1] = Somebody /\ Len(changes') = Len(changes) + 1 /\ Len(changes) \in Nat
        BY <3>1
      <3> QED BY <3>2
    <2> QED BY <2>1, <2>2
  <1> DEFINE Failing(p, e) == process'[p].pc # "manual" /\ (process'[p].pc \in {"reject", "cancelled"} => ~e)
             Rest == /\ \A i \in Steps : message'[i] = "dropped" => ~Exists'
                     /\ \A p \in Processes : Failing(p, Exists')
                     /\ plan' # "manual" /\ (plan' = "cancelled" => ~Exists')
                     /\ gate' # "manual" /\ (gate' = "cancelled" => ~Exists')
  <1>4. /\ \A i \in Steps : message[i] = "dropped" => ~Exists
        /\ \A p \in Processes : process[p].pc # "manual" /\ (process[p].pc \in {"reject", "cancelled"} => ~Exists)
        /\ plan # "manual" /\ (plan = "cancelled" => ~Exists)
        /\ gate # "manual" /\ (gate = "cancelled" => ~Exists)
    BY DEF Invariant, FailedOnlyGone
  <1>5. ASSUME NEW p \in Processes, Goto(p, "check") \/ Goto(p, "commit") \/ Goto(p, "apply") \/ Goto(p, "mark") \/ Finish(p)
        PROVE  \A q \in Processes : Failing(q, Exists')
    BY <1>1, <1>2, <1>4, <1>5, GotoEffect DEF Idle
  <1>6. ASSUME NEW p \in Processes, Fails(p), ~Exists
        PROVE  \A q \in Processes : Failing(q, Exists')
    BY <1>1, <1>2, <1>4, <1>6, FailsEffect
  <1>7. ASSUME NEW p \in Processes, Check(p) \/ ApplyRefused(p) PROVE Rest
    <2>1. \A q \in Processes : Failing(q, Exists')
      BY <1>5, <1>6, <1>7 DEF Check, ApplyRefused
    <2> QED BY <1>1, <1>4, <1>7, <2>1 DEF Check, ApplyRefused, con
  <1>8. ASSUME NEW p \in Processes, Commit(p) PROVE Rest
    <2>1. process[p].step \in Steps
      BY <1>2 DEF ProcessSet
    <2>2. \A q \in Processes : Failing(q, Exists')
      BY <1>4, <1>5, <1>6, <1>8, <2>1 DEF Commit
    <2>3. \A i \in Steps : message'[i] = "dropped" => message[i] = "dropped"
      BY <1>8, <2>1 DEF Commit, Typed, MessageSet
    <2> QED BY <1>1, <1>4, <1>8, <2>2, <2>3 DEF Commit, con
  <1>9. ASSUME NEW p \in Processes, Apply(p) PROVE Rest
    <2>1. \A q \in Processes : Failing(q, Exists')
      BY <1>5, <1>9 DEF Apply
    <2> QED BY <1>1, <1>4, <1>9, <2>1 DEF Apply
  <1>10. ASSUME NEW p \in Processes, Mark(p) PROVE Rest
    <2>1. process[p].step \in Steps
      BY <1>2 DEF ProcessSet
    <2>2. process'[p].pc \in {"idle", "check", "finalize"} /\ \A q \in Processes : q # p => process'[q] = process[q]
      BY <1>2, <1>10 DEF Mark, ProcessSet, Idle
    <2>3. \A q \in Processes : Failing(q, Exists')
      BY <1>1, <1>4, <2>2
    <2>4. \A i \in Steps : message'[i] = "dropped" => message[i] = "dropped"
      BY <1>10, <2>1 DEF Mark, Typed, MessageSet
    <2> QED BY <1>1, <1>4, <1>10, <2>3, <2>4 DEF Mark, con
  <1>11. ASSUME NEW p \in Completers, Finalize(p) PROVE Rest
    <2>1. p \in Processes /\ At(p, "finalize")
      BY <1>2, <1>11 DEF Finalize
    <2>2. Finish(p) /\ plan' \in {plan, "delivered"} /\ UNCHANGED <<status, message, gate>>
      BY <1>11, <2>1, FinalizeSucceeds DEF Finalize
    <2>3. \A q \in Processes : Failing(q, Exists')
      BY <1>5, <2>1, <2>2
    <2> QED BY <1>1, <1>4, <2>2, <2>3
  <1>12. ASSUME NEW l \in Loops, Begin(l) PROVE Rest
    <2>1. \A q \in Processes : Failing(q, Exists')
      BY <1>2, <1>5, <1>12 DEF Begin
    <2> QED BY <1>1, <1>4, <1>12, <2>1 DEF Begin, con
  <1>13. ASSUME NEW l \in Loops, Ask(l) PROVE Rest
    <2>1. l \in Processes /\ ~Exists
      BY <1>2, <1>4, <1>13 DEF Ask, At
    <2>2. Goto(l, "cancelled")
      BY <1>13, <2>1 DEF Ask
    <2>3. \A q \in Processes : Failing(q, Exists')
      BY <1>1, <1>2, <1>4, <2>1, <2>2, GotoEffect
    <2> QED BY <1>1, <1>4, <1>13, <2>3 DEF Ask, con
  <1>14. ASSUME NEW l \in Loops, Reject(l) PROVE Rest
    <2>1. l \in Processes /\ ~Exists /\ plan' \in {plan, "cancelled"} /\ Finish(l)
      BY <1>2, <1>4, <1>14 DEF Reject
    <2>2. \A q \in Processes : Failing(q, Exists')
      BY <1>5, <2>1
    <2> QED BY <1>1, <1>4, <1>14, <2>1, <2>2 DEF Reject
  <1>15. ASSUME NEW i \in Steps, Take(i) PROVE Rest
    <2>1. \A q \in Processes : process'[q].pc \in {process[q].pc, "apply"}
      BY <1>2, <1>15 DEF Take, ProcessSet
    <2> QED BY <1>1, <1>4, <1>15, <2>1 DEF Take, con
  <1>16. ASSUME CancelOrphan PROVE Rest
    <2>1. ~Exists /\ Finish(Reconciler)
      BY <1>16 DEF CancelOrphan
    <2>2. \A q \in Processes : Failing(q, Exists')
      BY <1>2, <1>5, <2>1
    <2> QED BY <1>1, <1>4, <1>16, <2>1, <2>2 DEF CancelOrphan, con
  <1>17. ASSUME Gate \/ Change \/ MarkDeleting PROVE Rest
    BY <1>1, <1>4, <1>17 DEF Gate, ReadPlan, GiveOut, Change, MarkDeleting, con
  <1>18. ASSUME Cleanup PROVE Rest
    <2>1. ~Exists
      BY <1>18 DEF Cleanup, Exists
    <2> QED BY <1>1, <1>4, <1>18, <2>1 DEF Cleanup
  <1>19. ASSUME NEW p \in Processes, Interrupted(p) PROVE Rest
    <2>1. \A q \in Processes : Failing(q, Exists')
      BY <1>5, <1>19 DEF Interrupted
    <2> QED BY <1>1, <1>4, <1>19, <2>1 DEF Interrupted, con
  <1>20. ASSUME UNCHANGED vars PROVE Rest
    BY <1>1, <1>4, <1>20 DEF vars, con
  <1>21. Rest
    BY <1>2, <1>7, <1>8, <1>9, <1>10, <1>11, <1>12, <1>13, <1>14, <1>15, <1>16, <1>17, <1>18, <1>19, <1>20
    DEF Next, Loop, Complete, Reconcile
  <1> QED BY <1>3, <1>21 DEF FailedOnlyGone

LEMMA CompletionKept ==
    ASSUME Typed, Invariant, [Next]_vars
    PROVE  Completed'
  <1>1. (\A i \in Steps : receipt[i] # NoReceipt) => receipt' = receipt /\ Completion' = Completion
    BY HistoryGrows DEF Completion
  <1>2. CASE UNCHANGED done
    BY <1>1, <1>2 DEF Invariant, Completed
  <1>3. ASSUME NEW p \in Completers, Finalize(p) PROVE Completed'
    <2>1. \A i \in Steps : receipt[i] # NoReceipt
      BY <1>3, FinalizeSucceeds DEF Finalize
    <2>2. done' \in {done, Completion}
      BY <1>3 DEF Finalize
    <2> QED BY <1>1, <2>1, <2>2 DEF Invariant, Completed
  <1> QED BY <1>2, <1>3
          DEF Next, Loop, Complete, Reconcile, Gate, Completers, Begin, Check, Commit, Apply, ApplyRefused, Mark,
              Ask, Reject, Take, CancelOrphan, ReadPlan, GiveOut, Change, MarkDeleting, Cleanup, Interrupted, vars, con

\* What was given out stays true, and what is given out is.
LEMMA ResultsKept ==
    ASSUME Typed, Typed', Invariant, HistoryInvariant', FailedOnlyGone', [Next]_vars
    PROVE  NotSetAside' /\ TargetInheritsNothing'
  <1> DEFINE True(t, c, gone) ==
        \/ t = Created + N /\ \A k \in Steps : k \in 1..Len(c) /\ c[k] = k
        \/ t = Created /\ \E k \in 1..Len(c) : c[k] = Somebody /\ (k <= N \/ gone)
  <1>0. DOMAIN changes = 1..Len(changes) /\ DOMAIN changes' = 1..Len(changes')
    BY DEF Typed
  <1>1. \A t \in released : t # 0 /\ True(t, changes, ~Exists)
    BY <1>0 DEF Invariant, NotSetAside, TargetInheritsNothing
  <1>2. \A t : True(t, changes, ~Exists) => True(t, changes', ~Exists')
    BY HistoryGrows
  <1>3. \A t \in released' \ released : t # 0 /\ True(t, changes, ~Exists)
    <2>1. CASE UNCHANGED released
      BY <2>1
    <2>2. CASE GiveOut
      <3> SUFFICES ASSUME NEW t \in Answer PROVE t # 0 /\ True(t, changes, ~Exists)
        BY <2>2 DEF GiveOut
      <3>1. gate # "manual" /\ (gate = "cancelled" => ~Exists)
        BY DEF Invariant, FailedOnlyGone
      <3>2. CASE gate = "cancelled"
        <4>1. t = Created
          BY <3>2 DEF Answer
        <4>2. \E k \in 1..Len(changes) : changes[k] = Somebody
          BY <3>1, <3>2 DEF Invariant, FailedOnlyGone
        <4> QED BY <3>1, <3>2, <4>1, <4>2 DEF Created
      <3>3. CASE gate # "cancelled"
        <4>1. done # NoCompletion
          BY <3>1, <3>3 DEF Answer
        <4>2. (\A i \in Steps : receipt[i] # NoReceipt) /\ done = Completion
          BY <4>1 DEF Invariant, Completed
        <4>3. \A i \in Steps : ValidReceipt(i)
          BY <4>2, ReceiptsValid DEF Invariant
        <4>4. t = Completion.target
          BY <3>1, <3>3, <4>1, <4>2, <4>3 DEF Answer
        <4>5. t # 0 /\ True(t, changes, ~Exists)
          BY <4>2, <4>4, CompletionTrue DEF Invariant, Created
        <4> QED BY <4>5
      <3> QED BY <3>2, <3>3
    <2> QED BY <2>1, <2>2
        DEF Next, Loop, Complete, Reconcile, Gate, Begin, Check, Commit, Apply, ApplyRefused, Mark, Finalize,
            Ask, Reject, Take, CancelOrphan, ReadPlan, Change, MarkDeleting, Cleanup, Interrupted, vars
  <1>4. \A t \in released' : t # 0 /\ True(t, changes', ~Exists')
    BY <1>1, <1>2, <1>3
  <1>5. plan' # "manual"
    BY DEF FailedOnlyGone
  <1>6. NotSetAside'
    BY <1>4, <1>5 DEF NotSetAside
  <1>7. TargetInheritsNothing'
    BY <1>0, <1>4 DEF TargetInheritsNothing
  <1> QED BY <1>6, <1>7

THEOREM InvariantHolds == Spec => []Invariant
  <1>1. Init => Invariant
    <2> SUFFICES ASSUME Init PROVE Invariant
      OBVIOUS
    <2>1. \A p \in Processes : process[p].step = 1 /\ process[p].pc \in {"idle", "check"}
      BY DEF Init, Idle
    <2>2. Behind
      BY <2>1 DEF Behind, BehindOf, Steps, Processes, Completers
    <2>3. FailedOnlyGone
      BY <2>1 DEF Init, FailedOnlyGone, Exists
    <2>4. HistoryInvariant
      BY DEF Init, HistoryInvariant, Recorded, RecordedStep, Written, Led
    <2> QED BY <2>2, <2>3, <2>4 DEF Init, Invariant, Completed, NotSetAside, TargetInheritsNothing
  <1>2. Typed /\ Typed' /\ Invariant /\ [Next]_vars => Invariant'
    <2> SUFFICES ASSUME Typed, Typed', Invariant, [Next]_vars PROVE Invariant'
      OBVIOUS
    <2>1. HistoryInvariant'
      BY HistoryKept DEF Invariant
    <2>2. Behind' /\ FailedOnlyGone' /\ Completed'
      BY BehindKept, FailuresKept, CompletionKept
    <2>3. NotSetAside' /\ TargetInheritsNothing'
      BY <2>1, <2>2, ResultsKept
    <2> QED BY <2>1, <2>2, <2>3 DEF Invariant
  <1> QED BY <1>1, <1>2, TypesHold, PTL DEF Spec

\* The fact of a new conversation carries the version its plan alone has made, or one the
\* conversation no longer has (conversation_repository.go:289-298, creationWorkflowTarget).
THEOREM VersionOfPlan == Spec => []TargetInheritsNothing
  <1>1. Invariant => TargetInheritsNothing
    BY DEF Invariant
  <1> QED BY <1>1, InvariantHolds, PTL

\* No plan that CON committed is taken for a broken one (RejectCreationWorkflow,
\* PendingAutomationFactPage).
THEOREM SoundPlansKept == Spec => []NotSetAside
  <1>1. Invariant => NotSetAside
    BY DEF Invariant
  <1> QED BY <1>1, InvariantHolds, PTL
=============================================================================
