----------------------- MODULE AutomationBatchProofs ------------------------
(***************************************************************************)
(* Theorems about a batch of executions that one fact started: the rules   *)
(* act on the conversation the fact was about (aut_causality.go), one      *)
(* after the other, each from the version that those before it left.       *)
(*                                                                         *)
(* Fenced is the invariant: an execution is started once those before it   *)
(* have ended with a proof of what they did, which nothing rewrites; a     *)
(* command is frozen with the version made by the commands before it, and  *)
(* no process or request carries another.                                  *)
(***************************************************************************)
EXTENDS AutomationRunnerProofs

(***************************************************************************)
(* Rules act on the conversation the fact was about.                       *)
(***************************************************************************)
\* An execution that has ended with a proof of what it did.
Ended(p) == row[p].status \in FinalStatus \ {"manual_action_required"}
Preceded(e) == \A p \in 1..(e - 1) : Ended(p)

\* The runner has had to do with the execution.
Started(e) ==
    \/ row[e].next # 1 \/ row[e].version # FactVersion \/ row[e].evaluated # 0
    \/ \E i \in Steps(e) : row[e].dispatch[i] # 0
    \/ \E r \in Runners : \E i \in Steps(e) \cup {0} : runner[r].command = <<e, i>>

\* One execution is worked on after the other.
Ordered == \A e \in Executions : Started(e) => Preceded(e)

\* The changes made by the commands before c.
Made(c) == {d \in Commands : Before(d, c) /\ Kind(d) = "change" /\ receipt[d] # NoReceipt}

\* Results before the next action are final, and those that succeeded have their
\* receipt; a frozen command carries the version its predecessors left.
Completed == {"succeeded", "failed", "dependent"}
StepTold(e, i) ==
    /\ i < row[e].next <=> row[e].results[i].status \in Completed
    /\ row[e].results[i].status = "succeeded" => receipt[<<e, i>>] # NoReceipt
    /\ row[e].results[i].status \notin NotSent => row[e].dispatch[i] # 0
    /\ row[e].dispatch[i] # 0 =>
          /\ i <= row[e].next /\ Kind(<<e, i>>) # "invalid"
          /\ row[e].dispatch[i] = FactVersion + Cardinality(Made(<<e, i>>))

StepsTold == \A e \in Executions : \A i \in Steps(e) : StepTold(e, i)

\* What the status of a row says of the rest of it.
RowFine(e, x) ==
    /\ x.status \notin {"running", "waiting", "manual_action_required"} =>
          \A i \in Steps(e) : x.next <= i => x.results[i].status \in NotSent
    /\ x.live => x.status \in {"running", "evaluating"}
    /\ x.status = "evaluating" => ~x.context
    /\ ~x.context => x.status \in {"evaluating"} \cup FinalStatus

RowsFine == \A e \in Executions : RowFine(e, row[e])

\* A command is sent with the version it was frozen with.
SentFrozen ==
    /\ \A r \in Runners : \A e \in Executions : \A i \in Steps(e) :
          runner[r].command = <<e, i>> /\ Kind(<<e, i>>) # "invalid" =>
              runner[r].version = row[e].dispatch[i]
    /\ \A q \in flight : \A e \in Executions : \A i \in Steps(e) :
          q.command = <<e, i>> => q.version = row[e].dispatch[i]

\* The row of an action that is under way at its holder.
HolderFine(e, i, x) ==
    /\ x.context
    /\ \/ x.status \in {"running", "manual_action_required"}
       \/ Kind(<<e, i>>) = "invalid" /\ x.cancel /\ x.status = "cancelled"

HoldersFine ==
    \A r \in Runners : \A e \in Executions : \A i \in Steps(e) :
        runner[r].command = <<e, i>> /\ row[e].lease = r => HolderFine(e, i, row[e])

Fenced == Ordered /\ StepsTold /\ RowsFine /\ SentFrozen /\ HoldersFine

\* What comes before the next action of an execution that is under way is settled.
LEMMA Settled ==
  ASSUME RowsType, Truthful, StepsTold, RowsFine, NEW e \in Executions, Preceded(e),
         NEW n, n <= row[e].next, NEW d \in Commands, Before(d, <<e, n>>), row[e].next \in Nat, n \in Nat
  PROVE  /\ receipt[d] # NoReceipt <=> row[d[1]].results[d[2]].status = "succeeded"
         /\ row[d[1]].results[d[2]].status = "succeeded" => d[2] < row[d[1]].next
         /\ \A q \in flight : q.command = d => receipt[d] # NoReceipt
  <1> DEFINE p == d[1]
             j == d[2]
             s == row[p].results[j].status
  <1>1. p \in Executions /\ j \in Steps(p) /\ d = <<p, j>>
    BY CommandPairs
  <1>2. /\ j < row[p].next <=> s \in Completed
        /\ s = "succeeded" => receipt[d] # NoReceipt
    BY <1>1 DEF StepsTold, StepTold
  <1>3. s \in NotSent => receipt[d] = NoReceipt /\ \A q \in flight : q.command # d
    BY <1>1 DEF Truthful, Unsent, Clean
  <1>4. p < e \/ (p = e /\ j < n)
    BY DEF Before
  <1>5. s \in NotSent \cup {"succeeded"}
    <2>1. CASE p = e /\ j < n
      <3>1. j \in Nat
        BY <1>1, PlanSteps
      <3>2. j < row[p].next
        BY <2>1, <3>1
      <3> QED
        BY <1>2, <3>2 DEF Completed, NotSent
    <2>2. CASE p < e
      <3>1. p \in 1..(e - 1)
        BY <1>1, <2>2, ExecutionNumbers
      <3>2. row[p].status \notin {"running", "waiting", "manual_action_required"}
        BY <3>1 DEF Preceded, Ended, FinalStatus
      <3>3. row[p].next <= j => s \in NotSent
        BY <1>1, <3>2 DEF RowsFine, RowFine
      <3>4. row[p].next \in Nat /\ j \in Nat
        BY <1>1, RowColumns, PlanSteps DEF RowsType
      <3>5. CASE j < row[p].next
        BY <1>2, <3>5 DEF Completed, NotSent
      <3>6. CASE row[p].next <= j
        BY <3>3, <3>6
      <3> QED
        BY <3>4, <3>5, <3>6
    <2> QED
      BY <1>4, <2>1, <2>2
  <1> HIDE DEF s
  <1>6. s = "succeeded" \/ (s \in NotSent /\ s # "succeeded")
    BY <1>5 DEF NotSent
  <1>7. s = "succeeded" => j < row[p].next
    BY <1>2 DEF Completed
  <1> QED
    BY <1>2, <1>3, <1>6, <1>7 DEF s

\* The confirmed changes of a prefix are finitely many.
LEMMA ConfirmedFinite ==
  ASSUME NEW x, NEW e, NEW n \in Nat
  PROVE  /\ IsFiniteSet(Confirmed(x, e, n)) /\ Cardinality(Confirmed(x, e, n)) \in Nat
         /\ \A i \in Confirmed(x, e, n) : i \in Nat /\ 1 <= i /\ i <= n
         /\ Cardinality(Confirmed(x, e, 0)) = 0
  <1>1. Confirmed(x, e, n) \in SUBSET (1..n)
    BY DEF Confirmed
  <1>2. IsFiniteSet(1..n)
    BY UpTo
  <1>3. IsFiniteSet(Confirmed(x, e, n))
    BY <1>1, <1>2, FS_Subset
  <1>4. Confirmed(x, e, 0) = {}
    BY DEF Confirmed
  <1>5. Cardinality(Confirmed(x, e, n)) \in Nat
    BY <1>3, FS_CardinalityType
  <1>6. Cardinality(Confirmed(x, e, 0)) = 0
    BY <1>4, FS_EmptySet
  <1> QED
    BY <1>1, <1>3, <1>5, <1>6

\* The changes of the executions before e.
MadeBefore(e) == {c \in Commands : c[1] < e /\ Kind(c) = "change" /\ receipt[c] # NoReceipt}

\* What the rows of the executions before tell is what they did (automationPredecessorVersion).
LEMMA BaseIsMade ==
  ASSUME RowsType, Truthful, StepsTold, RowsFine, NEW e \in Executions, Preceded(e)
  PROVE  Base(e) = FactVersion + Cardinality(MadeBefore(e))
  <1> DEFINE T == {c \in Commands : c[1] < e /\ c[2] \in Confirmed(row[c[1]], c[1], row[c[1]].next - 1)}
  <1>1. ASSUME NEW c \in Commands, c[1] < e
        PROVE  c[2] \in Confirmed(row[c[1]], c[1], row[c[1]].next - 1)
                 <=> Kind(c) = "change" /\ receipt[c] # NoReceipt
    <2>1. Before(c, <<e, 1>>)
      BY <1>1 DEF Before
    <2>2. row[e].next \in Nat /\ 1 <= row[e].next /\ row[c[1]].next \in Nat
          /\ 1 \in Nat /\ c[2] \in Nat /\ 1 <= c[2]
      BY CommandPairs, RowColumns, PlanSteps DEF RowsType
    <2>3. /\ receipt[c] # NoReceipt <=> row[c[1]].results[c[2]].status = "succeeded"
          /\ row[c[1]].results[c[2]].status = "succeeded" => c[2] < row[c[1]].next
      BY <2>1, <2>2, Settled
    <2> QED
      BY <2>2, <2>3 DEF Confirmed, Kind
  <1>2. T = MadeBefore(e)
    BY <1>1 DEF MadeBefore
  <1> QED
    BY <1>2 DEF Base

\* And so with the actions of e up to n (automationPrefixVersion).
LEMMA AfterIsMade ==
  ASSUME RowsType, Truthful, StepsTold, RowsFine, NEW e \in Executions, Preceded(e),
         NEW n \in Steps(e), n <= row[e].next
  PROVE  After(row[e], e, n - 1, Base(e)) = FactVersion + Cardinality(Made(<<e, n>>))
  <1> DEFINE C == Confirmed(row[e], e, n - 1)
             S == {<<e, j>> : j \in C}
             P == MadeBefore(e)
             f == [j \in C |-> <<e, j>>]
  <1>1. n \in Nat /\ 1 <= n /\ n - 1 \in Nat /\ n <= Len(Plan[e])
    BY PlanSteps
  <1>2. /\ IsFiniteSet(C) /\ Cardinality(C) \in Nat
        /\ \A i \in C : i \in Nat /\ 1 <= i /\ i <= n - 1
    BY <1>1, ConfirmedFinite
  <1>3. IsFiniteSet(S) /\ Cardinality(S) = Cardinality(C)
    <2>1. f \in Bijection(C, S)
      <3>1. f \in [C -> S] /\ \A y \in S : \E j \in C : f[j] = y
        OBVIOUS
      <3>2. \A j, k \in C : f[j] = f[k] => j = k
        OBVIOUS
      <3> HIDE DEF C, S, f
      <3> QED
        BY <3>1, <3>2 DEF Bijection, Injection, Surjection, IsInjective
    <2>2. ExistsBijection(C, S)
      BY <2>1 DEF ExistsBijection
    <2> HIDE DEF C, S, f
    <2> QED
      BY <1>2, <2>2, FS_Bijection
  <1>4. IsFiniteSet(P) /\ Cardinality(P) \in Nat
    <2>1. P \in SUBSET Commands
      BY DEF MadeBefore
    <2> HIDE DEF P
    <2> QED
      BY <2>1, VersionNumbers
  <1>5. P \cap S = {}
    <2>1. e \in Nat
      BY ExecutionNumbers
    <2> QED
      BY <2>1 DEF MadeBefore
  <1>6. Made(<<e, n>>) = P \cup S
    <2>1. ASSUME NEW d \in Commands
          PROVE  d \in Made(<<e, n>>) <=> d \in P \/ d \in S
      <3>1. d[1] \in Executions /\ d[2] \in Steps(d[1]) /\ d = <<d[1], d[2]>>
        BY CommandPairs
      <3>2. d[2] \in Nat /\ 1 <= d[2] /\ e \in Nat
        BY <3>1, PlanSteps, ExecutionNumbers
      <3>3. CASE d[1] < e
        <4>1. d \notin S
          BY <3>2, <3>3
        <4> QED
          BY <3>3, <4>1 DEF Made, MadeBefore, Before
      <3>4. CASE d[1] = e /\ d[2] < n
        <4>1. Before(d, <<e, n>>)
          BY <3>4 DEF Before
        <4>2. row[e].next \in Nat
          BY RowColumns DEF RowsType
        <4>3. receipt[d] # NoReceipt <=> row[e].results[d[2]].status = "succeeded"
          BY <1>1, <3>4, <4>1, <4>2, Settled
        <4>4. d \in S <=> d[2] \in C
          BY <3>1, <3>4
        <4>5. d[2] \in 1..(n - 1)
          BY <1>1, <3>2, <3>4
        <4>6. d[2] \in C <=> Kind(d) = "change" /\ row[e].results[d[2]].status = "succeeded"
          BY <3>4, <4>5 DEF Confirmed, Kind
        <4>7. d \notin P
          BY <3>2, <3>4 DEF MadeBefore
        <4> HIDE DEF S, C, P
        <4> QED
          BY <4>1, <4>3, <4>4, <4>6, <4>7 DEF Made
      <3>5. CASE ~(d[1] < e) /\ ~(d[1] = e /\ d[2] < n)
        <4>1. d \notin S
          BY <1>1, <1>2, <3>2, <3>5
        <4> QED
          BY <3>5, <4>1 DEF Made, MadeBefore, Before
      <3> QED
        BY <3>3, <3>4, <3>5
    <2>2. Made(<<e, n>>) \subseteq Commands /\ P \subseteq Commands
      BY DEF Made, MadeBefore
    <2>3. S \subseteq Commands
      <3>1. \A j \in C : j \in Steps(e)
        BY <1>1, <1>2 DEF Steps
      <3> QED
        BY <3>1, CommandPairs
    <2> HIDE DEF S, P
    <2> QED
      BY <2>1, <2>2, <2>3
  <1>7. Cardinality(P \cup S) = Cardinality(P) + Cardinality(S)
    <2>1. Cardinality(P \cap S) = 0
      BY <1>5, FS_EmptySet
    <2>2. Cardinality(P \cup S) = Cardinality(P) + Cardinality(S) - Cardinality(P \cap S)
      <3> HIDE DEF P, S
      <3> QED
        BY <1>3, <1>4, FS_Union
    <2> HIDE DEF P, S, C
    <2> QED
      BY <1>2, <1>3, <1>4, <2>1, <2>2
  <1>8. Base(e) = FactVersion + Cardinality(P)
    BY BaseIsMade
  <1>9. After(row[e], e, n - 1, Base(e)) = Base(e) + Cardinality(C)
    BY DEF After
  <1>10. FactVersion \in Nat
    BY VersionAssumption
  <1> DEFINE a == Cardinality(P)
             b == Cardinality(C)
  <1>11. Cardinality(Made(<<e, n>>)) = a + b
    <2> HIDE DEF P, S, C
    <2> QED
      BY <1>3, <1>6, <1>7
  <1>12. a \in Nat /\ b \in Nat
    <2> HIDE DEF P, S, C
    <2> QED
      BY <1>2, <1>4
  <1> HIDE DEF P, S, C, a, b
  <1>13. Base(e) + b = FactVersion + (a + b)
    BY <1>8, <1>10, <1>12 DEF a
  <1> QED
    BY <1>9, <1>11, <1>13 DEF b

\* An execution that has ended is not active.
LEMMA EndedInactive ==
  ASSUME NEW p, Ended(p)
  PROVE  /\ ~Active(p)
         /\ row[p].status \notin {"running", "waiting", "evaluating", "received", "manual_action_required"}
  BY DEF Ended, Active, ActiveStatus, FinalStatus

\* What has ended with a proof stays as it is: neither a late record of a former holder
\* nor a cancellation, a claim or a lease that runs out writes it again.
LEMMA EndedStays ==
  ASSUME Shape, Truthful, Fenced, [Next]_vars, NEW p \in Executions, Ended(p)
  PROVE  row'[p] = row[p]
  <1>0. /\ RowsType /\ RunnersShape /\ FlightShape /\ faults \in 0..MaxFaults
        /\ InvalidUnsent /\ HoldersFine /\ RowFine(p, row[p])
    BY DEF Shape, Truthful, Fenced, RowsFine
  <1>1. /\ ~Active(p)
        /\ row[p].status \notin {"running", "waiting", "evaluating", "received", "manual_action_required"}
    BY EndedInactive
  <1>2. ASSUME NEW e \in Executions, OnlyRow(e), e # p PROVE row'[p] = row[p]
    BY <1>2 DEF OnlyRow
  <1>3. ASSUME NEW r \in Runners, NEW e \in Executions,
               Quarantine(r, e) \/ CancelRest(r, e) \/ ClaimEvaluation(r, e) \/ ClaimAction(r, e)
        PROVE  row'[p] = row[p]
    <2>1. OnlyRow(e) /\ Turn(r, e)
      BY <1>0, <1>3, QuarantineEffect, CancelRestEffect, ClaimEvaluationEffect, ClaimActionEffect
    <2> QED
      BY <1>1, <1>2, <2>1 DEF Turn
  <1>4. ASSUME NEW r \in Runners, Record(r) PROVE row'[p] = row[p]
    <2>0. PICK e \in Executions : \E i \in Steps(e) :
            /\ runner[r].pc = "record" /\ runner[r].command = <<e, i>>
            /\ row' = row \/ RecordWrites(r, e, i)
      BY <1>0, <1>4, RecordEffect
    <2>1. PICK i \in Steps(e) :
            /\ runner[r].pc = "record" /\ runner[r].command = <<e, i>>
            /\ row' = row \/ RecordWrites(r, e, i)
      BY <2>0
    <2>2. ASSUME RecordWrites(r, e, i), e = p PROVE FALSE
      <3> DEFINE y == row'[p]
      <3>1. HolderFine(p, i, row[p])
        BY <1>0, <2>1, <2>2 DEF HoldersFine, RecordWrites
      <3>2. Kind(<<p, i>>) = "invalid" /\ row[p].cancel
        BY <1>1, <3>1 DEF HolderFine
      <3>3. runner[r].answer = "refused" /\ ~runner[r].reconciling
        BY <1>0, <2>1, <2>2, <3>2 DEF InvalidUnsent
      <3>4. HasFailed(row[p], p, i, y) /\ (y.status \in FinalStatus => Active(p))
        BY <2>2, <3>3 DEF RecordWrites, Confirms, Refutes
      <3>5. PICK f, n : GoesOn(row[p], p, f, n, y)
        BY <3>4 DEF HasFailed
      <3>6. n \in Int /\ Len(Plan[p]) \in Int
        <4>1. PICK g : GoesOn(row[p], p, g, i + 1 + Cardinality(Rest(p, i)), y)
          BY <3>4 DEF HasFailed
        <4>2. y.next = n /\ y.next = i + 1 + Cardinality(Rest(p, i))
          BY <3>5, <4>1 DEF GoesOn
        <4> DEFINE m == Cardinality(Rest(p, i))
        <4>3. m \in Nat /\ i \in Nat /\ Len(Plan[p]) \in Nat
          BY <2>1, <2>2, RestFollows, PlanSteps
        <4>4. n = i + 1 + m
          BY <4>2
        <4> HIDE DEF m
        <4> QED
          BY <4>3, <4>4
      <3>7. y.status = "cancelled" \/ y.status = CompletedStatus(f)
        BY <3>2, <3>5, <3>6 DEF GoesOn
      <3>8. y.status \in FinalStatus
        BY <3>7, CompletedStatusValues DEF FinalStatus
      <3> QED
        BY <1>1, <3>4, <3>8
    <2>3. RecordWrites(r, e, i) => OnlyRow(e)
      BY DEF RecordWrites
    <2> QED
      BY <1>2, <2>1, <2>2, <2>3
  <1>5. ASSUME NEW r \in Runners, Decide(r) PROVE row'[p] = row[p]
    <2>1. \E e \in Executions : row' = row \/ (row[e].status = "evaluating" /\ OnlyRow(e))
      BY <1>0, <1>5, DecideEffect
    <2> QED
      BY <1>1, <1>2, <2>1
  <1>6. ASSUME NEW e \in Executions, Cancel(e) \/ LeaseExpires(e) PROVE row'[p] = row[p]
    <2>1. OnlyRow(e) /\ (Active(e) \/ row[e].live)
      BY <1>0, <1>6, CancelEffect, LeaseExpiresEffect
    <2>2. ~row[p].live
      BY <1>0, <1>1 DEF RowFine
    <2> QED
      BY <1>1, <1>2, <2>1, <2>2
  <1>7. ASSUME NEW r \in Runners, Send(r) \/ Evaluate(r) \/ Crash(r) PROVE row' = row
    BY <1>7 DEF Send, Evaluate, Crash
  <1>8. ASSUME NEW q \in flight, Owner(q) PROVE row' = row
    BY <1>8, OwnerStep DEF OwnerEffect
  <1>9. CASE HumanChange \/ Elsewhere \/ UNCHANGED vars
    BY <1>9 DEF HumanChange, Elsewhere, vars
  <1> QED
    BY <1>3, <1>4, <1>5, <1>6, <1>7, <1>8, <1>9 DEF Next, Step, Claim

\* So what an execution depends on stays.
LEMMA PrecededStays ==
  ASSUME Shape, Truthful, Fenced, [Next]_vars, NEW e \in Executions, Preceded(e)
  PROVE  /\ \A p \in 1..(e - 1) : p \in Executions /\ row'[p] = row[p]
         /\ Preceded(e)'
  <1>1. \A p \in 1..(e - 1) : p \in Executions
    BY ExecutionNumbers
  <1>2. \A p \in 1..(e - 1) : row'[p] = row[p]
    BY <1>1, EndedStays DEF Preceded
  <1> QED
    BY <1>1, <1>2 DEF Preceded, Ended, FinalStatus

\* Receipts are issued for requests, and kept.
LEMMA ReceiptsGrow ==
  ASSUME Shape, [Next]_vars
  PROVE  \A c \in Commands :
            \/ receipt'[c] = receipt[c]
            \/ receipt[c] = NoReceipt /\ receipt'[c] # NoReceipt /\ \E q \in flight : q.command = c
  <1>0. /\ RowsType /\ RunnersShape /\ FlightShape /\ ChangesShape /\ faults \in 0..MaxFaults
    BY DEF Shape
  <1>1. ASSUME NEW q \in flight, Owner(q), NEW c \in Commands
        PROVE  \/ receipt'[c] = receipt[c]
               \/ receipt[c] = NoReceipt /\ receipt'[c] # NoReceipt /\ q.command = c
    <2>1. Performs(q) \/ NothingDone
      BY <1>1, OwnerStep DEF OwnerEffect
    <2>2. CASE NothingDone
      BY <2>2 DEF NothingDone
    <2>3. CASE Performs(q)
      <3>1. PICK z \in ReceiptType : receipt' = [receipt EXCEPT ![q.command] = z]
        BY <2>3 DEF Performs
      <3>2. z # NoReceipt /\ q.command \in Commands /\ receipt[q.command] = NoReceipt
        BY <1>0, <2>3, ReceiptIsOne, RequestFields DEF Performs
      <3> QED
        BY <1>0, <3>1, <3>2 DEF ChangesShape
    <2> QED
      BY <2>1, <2>2, <2>3
  <1>2. ASSUME NEW r \in Runners, Step(r) \/ Crash(r) PROVE receipt' = receipt
    BY <1>2 DEF Step, Claim, Quarantine, CancelRest, ClaimEvaluation, ClaimAction, Send, Evaluate,
                Record, Decide, Crash
  <1>3. ASSUME NEW e \in Executions, Cancel(e) \/ LeaseExpires(e) PROVE receipt' = receipt
    BY <1>3 DEF Cancel, LeaseExpires
  <1>4. CASE HumanChange \/ Elsewhere \/ UNCHANGED vars
    BY <1>4 DEF HumanChange, Elsewhere, vars
  <1> QED
    BY <1>1, <1>2, <1>3, <1>4 DEF Next

\* No change is made any more before a command that is frozen.
LEMMA MadeKept ==
  ASSUME Shape, Truthful, Fenced, [Next]_vars, NEW e \in Executions, NEW i \in Steps(e),
         row[e].dispatch[i] # 0
  PROVE  {d \in Commands : Before(d, <<e, i>>) /\ Kind(d) = "change" /\ receipt'[d] # NoReceipt}
            = Made(<<e, i>>)
  <1>0. RowsType /\ StepsTold /\ RowsFine /\ Ordered
    BY DEF Shape, Fenced
  <1>1. Preceded(e) /\ i <= row[e].next
    BY <1>0 DEF Ordered, Started, StepsTold, StepTold
  <1>2. i \in Nat /\ row[e].next \in Nat
    BY <1>0, PlanSteps, RowColumns DEF RowsType
  <1>3. ASSUME NEW d \in Commands, Before(d, <<e, i>>)
        PROVE  receipt'[d] # NoReceipt <=> receipt[d] # NoReceipt
    <2>1. \A q \in flight : q.command = d => receipt[d] # NoReceipt
      BY <1>0, <1>1, <1>2, <1>3, Settled
    <2> QED
      BY <2>1, ReceiptsGrow
  <1> QED
    BY <1>3 DEF Made

\* One result, once the conditions on its own row hold.
LEMMA StepToldNext ==
  ASSUME Shape, Truthful, Fenced, [Next]_vars, NEW e \in Executions, NEW i \in Steps(e),
         i < row'[e].next <=> row'[e].results[i].status \in Completed,
         row'[e].results[i].status = "succeeded" => receipt'[<<e, i>>] # NoReceipt,
         row'[e].results[i].status \notin NotSent => row'[e].dispatch[i] # 0,
         row'[e].dispatch[i] # 0 =>
            /\ i <= row'[e].next /\ Kind(<<e, i>>) # "invalid"
            /\ \/ row[e].dispatch[i] # 0 /\ row'[e].dispatch[i] = row[e].dispatch[i]
               \/ /\ receipt' = receipt
                  /\ row'[e].dispatch[i] = FactVersion + Cardinality(Made(<<e, i>>))
  PROVE  StepTold(e, i)'
  <1> DEFINE M == {d \in Commands : Before(d, <<e, i>>) /\ Kind(d) = "change" /\ receipt'[d] # NoReceipt}
  <1>1. Made(<<e, i>>)' = M
    BY DEF Made, Before, Commands, Steps, Kind
  <1>2. ASSUME row'[e].dispatch[i] # 0
        PROVE  row'[e].dispatch[i] = FactVersion + Cardinality(M)
    <2>1. CASE row[e].dispatch[i] # 0 /\ row'[e].dispatch[i] = row[e].dispatch[i]
      <3>1. M = Made(<<e, i>>)
        BY <2>1, MadeKept
      <3>2. row[e].dispatch[i] = FactVersion + Cardinality(Made(<<e, i>>))
        BY <2>1 DEF Fenced, StepsTold, StepTold
      <3> QED
        BY <2>1, <3>1, <3>2
    <2>2. CASE /\ receipt' = receipt
               /\ row'[e].dispatch[i] = FactVersion + Cardinality(Made(<<e, i>>))
      <3>1. M = Made(<<e, i>>)
        BY <2>2 DEF Made
      <3> QED
        BY <2>2, <3>1
    <2> QED
      BY <1>2, <2>1, <2>2
  <1> HIDE DEF M
  <1>3. row'[e].dispatch[i] # 0 => row'[e].dispatch[i] = FactVersion + Cardinality(Made(<<e, i>>)')
    BY <1>1, <1>2
  <1> QED
    BY <1>3 DEF StepTold, Completed, NotSent, Kind

\* Executions are worked on one after the other.
LEMMA OrderedNext ==
  ASSUME Shape, Truthful, Fenced, [Next]_vars,
         \A e \in Executions :
            \/ row'[e].next # 1 \/ row'[e].version # FactVersion \/ row'[e].evaluated # 0
            \/ \E i \in Steps(e) : row'[e].dispatch[i] # 0
            \/ \E r \in Runners : \E i \in Steps(e) \cup {0} : runner'[r].command = <<e, i>>
            => Started(e) \/ Preceded(e)
  PROVE  Ordered'
  <1> SUFFICES ASSUME NEW e \in Executions, Started(e)' PROVE Preceded(e)'
    BY DEF Ordered
  <1>1. \/ row'[e].next # 1 \/ row'[e].version # FactVersion \/ row'[e].evaluated # 0
        \/ \E i \in Steps(e) : row'[e].dispatch[i] # 0
        \/ \E r \in Runners : \E i \in Steps(e) \cup {0} : runner'[r].command = <<e, i>>
    BY DEF Started, Steps
  <1>2. Preceded(e)
    BY <1>1 DEF Fenced, Ordered
  <1> QED
    BY <1>2, PrecededStays

\* Rows keep their place, and results at most become cancelled.
ResultsQuiet ==
    \A e \in Executions :
        /\ row'[e].next = row[e].next /\ row'[e].dispatch = row[e].dispatch
        /\ row'[e].version = row[e].version \/ row'[e].version = FactVersion
        /\ row'[e].evaluated = row[e].evaluated \/ Preceded(e)
        /\ \A i \in Steps(e) :
              \/ row'[e].results[i] = row[e].results[i]
              \/ row[e].results[i].status \in {"pending", "cancelled"}
                 /\ row'[e].results[i].status = "cancelled"

CommandsFrom ==
    \A s \in Runners :
        \/ runner'[s].command = runner[s].command /\ runner'[s].version = runner[s].version
        \/ runner'[s].command = Edit
        \/ \E e \in Executions : Preceded(e) /\ runner'[s].command = <<e, 0>>

RequestsFrom ==
    \A p \in flight' :
        \/ \E q \in flight : q.command = p.command /\ q.version = p.version
        \/ \E s \in Runners : /\ runner[s].command = p.command /\ runner[s].version = p.version
                              /\ Kind(p.command) # "invalid"

\* Steps that neither start nor record an action keep the order of the batch.
LEMMA FencedQuiet ==
  ASSUME Shape, Truthful, Fenced, [Next]_vars, ResultsQuiet, CommandsFrom, RequestsFrom,
         \A e \in Executions : RowFine(e, row'[e]),
         \A r \in Runners : \A e \in Executions : \A i \in Steps(e) :
            runner'[r].command = <<e, i>> /\ row'[e].lease = r => HolderFine(e, i, row'[e])
  PROVE  Fenced'
  <1>0. Ordered /\ StepsTold /\ RowsFine /\ SentFrozen /\ HoldersFine
    BY DEF Fenced
  <1>1. /\ \A e \in Executions : \A i \in Steps(e) : <<e, i>> \in Commands /\ <<e, i>> # Edit
        /\ \A e \in Executions : <<e, 0>> # Edit
        /\ \A e, p \in Executions : \A i \in Steps(e) : <<e, i>> # <<p, 0>>
    <2>1. \A e \in Executions : e # 0
      BY ExecutionNumbers
    <2>2. \A e \in Executions : \A i \in Steps(e) : i # 0
      BY PlanSteps
    <2> QED
      BY <2>1, <2>2, CommandPairs DEF Edit
  <1>2. StepsTold'
    <2>1. ASSUME NEW e \in Executions, NEW i \in Steps(e) PROVE StepTold(e, i)'
      <3> DEFINE x == row[e].results[i].status
                 y == row'[e].results[i].status
      <3>1. StepTold(e, i)
        BY <1>0 DEF StepsTold
      <3>2. /\ row'[e].next = row[e].next /\ row'[e].dispatch = row[e].dispatch
            /\ y = x \/ (x \in {"pending", "cancelled"} /\ y = "cancelled")
        BY DEF ResultsQuiet
      <3> HIDE DEF x, y
      <3>3. i < row[e].next <=> y \in Completed
        BY <3>1, <3>2 DEF StepTold, Completed, x
      <3>4. y = "succeeded" => receipt'[<<e, i>>] # NoReceipt
        BY <1>1, <3>1, <3>2, ReceiptsGrow DEF StepTold, x
      <3>5. y \notin NotSent => row'[e].dispatch[i] # 0
        BY <3>1, <3>2 DEF StepTold, NotSent, x
      <3>6. row'[e].dispatch[i] # 0 =>
              /\ i <= row'[e].next /\ Kind(<<e, i>>) # "invalid"
              /\ row[e].dispatch[i] # 0 /\ row'[e].dispatch[i] = row[e].dispatch[i]
        BY <3>1, <3>2 DEF StepTold
      <3> QED
        BY <3>2, <3>3, <3>4, <3>5, <3>6, StepToldNext DEF y
    <2> QED
      BY <2>1 DEF StepsTold, Steps
  <1>3. Ordered'
    <2>1. ASSUME NEW e \in Executions,
                 \/ row'[e].next # 1 \/ row'[e].version # FactVersion \/ row'[e].evaluated # 0
                 \/ \E i \in Steps(e) : row'[e].dispatch[i] # 0
                 \/ \E r \in Runners : \E i \in Steps(e) \cup {0} : runner'[r].command = <<e, i>>
          PROVE  Started(e) \/ Preceded(e)
      <3>1. CASE \E r \in Runners : \E i \in Steps(e) \cup {0} : runner'[r].command = <<e, i>>
        <4>1. PICK r \in Runners, i \in Nat : i \in Steps(e) \cup {0} /\ runner'[r].command = <<e, i>>
          BY <3>1, PlanSteps
        <4>2. CASE runner'[r].command = runner[r].command
          BY <4>1, <4>2 DEF Started
        <4>3. CASE runner'[r].command # runner[r].command
          <5>1. runner'[r].command = Edit \/ \E p \in Executions : Preceded(p) /\ runner'[r].command = <<p, 0>>
            BY <4>3 DEF CommandsFrom
          <5>2. runner'[r].command # Edit
            BY <1>1, <4>1
          <5>3. PICK p \in Executions : Preceded(p) /\ runner'[r].command = <<p, 0>>
            BY <5>1, <5>2
          <5>4. p = e
            BY <4>1, <5>3
          <5> QED
            BY <5>3, <5>4
        <4> QED
          BY <4>2, <4>3
      <3>2. CASE ~(\E r \in Runners : \E i \in Steps(e) \cup {0} : runner'[r].command = <<e, i>>)
        BY <2>1, <3>2 DEF ResultsQuiet, Started
      <3> QED
        BY <3>1, <3>2
    <2> QED
      BY <2>1, OrderedNext
  <1>4. RowsFine'
    BY DEF RowsFine, RowFine, NotSent, FinalStatus, Steps
  <1>5. SentFrozen'
    <2>1. ASSUME NEW r \in Runners, NEW e \in Executions, NEW i \in Steps(e),
                 runner'[r].command = <<e, i>>, Kind(<<e, i>>) # "invalid"
          PROVE  runner'[r].version = row'[e].dispatch[i]
      <3>1. runner'[r].command = runner[r].command /\ runner'[r].version = runner[r].version
        <4>1. runner'[r].command # Edit /\ \A p \in Executions : runner'[r].command # <<p, 0>>
          BY <1>1, <2>1
        <4> QED
          BY <4>1 DEF CommandsFrom
      <3>2. runner[r].version = row[e].dispatch[i]
        BY <1>0, <2>1, <3>1 DEF SentFrozen
      <3> QED
        BY <3>1, <3>2 DEF ResultsQuiet
    <2>2. ASSUME NEW p \in flight', NEW e \in Executions, NEW i \in Steps(e), p.command = <<e, i>>
          PROVE  p.version = row'[e].dispatch[i]
      <3> DEFINE v == p.version
      <3>1. \/ \E q \in flight : q.command = <<e, i>> /\ q.version = v
            \/ /\ Kind(<<e, i>>) # "invalid"
               /\ \E s \in Runners : runner[s].command = <<e, i>> /\ runner[s].version = v
        BY <2>2 DEF RequestsFrom
      <3> HIDE DEF v
      <3>2. v = row[e].dispatch[i]
        BY <1>0, <3>1 DEF SentFrozen
      <3> QED
        BY <3>2 DEF ResultsQuiet, v
    <2> QED
      BY <2>1, <2>2 DEF SentFrozen, Steps, Kind
  <1>6. HoldersFine'
    BY DEF HoldersFine, HolderFine, Steps, Kind
  <1> QED
    BY <1>2, <1>3, <1>4, <1>5, <1>6 DEF Fenced

\* A process that hears of a success hears what the receipt says.
HeardTrue ==
    \A r \in Runners : \A e \in Executions : \A i \in Steps(e) :
        runner[r].command = <<e, i>> /\ runner[r].pc = "record" /\ runner[r].answer = "ok" =>
            /\ receipt[<<e, i>>] # NoReceipt
            /\ receipt[<<e, i>>].input = runner[r].version
            /\ receipt[<<e, i>>].output = runner[r].output

\* Processes hear of successes from receipts, and receipts stay.
LEMMA HeardStep == Shape /\ HeardTrue /\ [Next]_vars => HeardTrue'
  <1> SUFFICES ASSUME Shape, HeardTrue, [Next]_vars,
                      NEW r \in Runners, NEW e \in Executions, NEW i \in Steps(e),
                      runner'[r].command = <<e, i>>, runner'[r].pc = "record", runner'[r].answer = "ok"
               PROVE  /\ receipt'[<<e, i>>] # NoReceipt
                      /\ receipt'[<<e, i>>].input = runner'[r].version
                      /\ receipt'[<<e, i>>].output = runner'[r].output
    BY DEF HeardTrue, Steps
  <1>0. /\ RowsType /\ RunnersShape /\ FlightShape /\ faults \in 0..MaxFaults
        /\ <<e, i>> \in Commands
    BY CommandPairs DEF Shape
  <1>1. ASSUME runner'[r] = runner[r]
        PROVE  /\ receipt'[<<e, i>>] # NoReceipt
               /\ receipt'[<<e, i>>].input = runner'[r].version
               /\ receipt'[<<e, i>>].output = runner'[r].output
    BY <1>0, <1>1, ReceiptsGrow DEF HeardTrue
  <1>2. ASSUME NEW s \in Runners, NEW p \in Executions,
               Quarantine(s, p) \/ CancelRest(s, p) \/ ClaimEvaluation(s, p) \/ ClaimAction(s, p)
        PROVE  runner'[r] = runner[r]
    <2>1. CASE Quarantine(s, p) \/ CancelRest(s, p)
      BY <2>1 DEF Quarantine, CancelRest
    <2>2. CASE ClaimEvaluation(s, p)
      <3>1. runner'[s].pc = "evaluate" /\ \A t \in Runners : t # s => runner'[t] = runner[t]
        BY <1>0, <2>2, ClaimEvaluationEffect
      <3> QED
        BY <3>1
    <2>3. CASE ClaimAction(s, p)
      <3>1. runner'[s].pc = "send" /\ \A t \in Runners : t # s => runner'[t] = runner[t]
        BY <1>0, <2>3, ClaimActionEffect
      <3> QED
        BY <3>1
    <2> QED
      BY <1>2, <2>1, <2>2, <2>3
  <1>3. ASSUME NEW s \in Runners, Send(s) PROVE runner'[r] = runner[r]
    <2>1. /\ \A t \in Runners : t # s => runner'[t] = runner[t]
          /\ runner'[s].pc = "wait" \/ runner'[s].answer = "refused"
      BY <1>0, <1>3, SendEffect
    <2> QED
      BY <2>1
  <1>4. ASSUME NEW s \in Runners, Evaluate(s) PROVE runner'[r] = runner[r]
    <2>1. /\ \A t \in Runners : t # s => runner'[t] = runner[t]
          /\ runner'[s].command \in Executions \X {0}
      BY <1>0, <1>4, EvaluateEffect
    <2>2. s # r
      BY <1>0, <2>1, NotACommand
    <2> QED
      BY <2>1, <2>2
  <1>5. ASSUME NEW s \in Runners, Record(s) \/ Decide(s) \/ Crash(s) PROVE runner'[r] = runner[r]
    <2>1. runner'[s] = Idle /\ \A t \in Runners : t # s => runner'[t] = runner[t]
      BY <1>0, <1>5, RecordEffect, DecideEffect, CrashEffect
    <2> QED
      BY <2>1, IdleShape
  <1>6. ASSUME NEW q \in flight, Owner(q)
        PROVE  /\ receipt'[<<e, i>>] # NoReceipt
               /\ receipt'[<<e, i>>].input = runner'[r].version
               /\ receipt'[<<e, i>>].output = runner'[r].output
    <2>1. OwnerEffect(q)
      BY <1>6, OwnerStep
    <2>2. CASE r = q.by /\ Hearing(q)
      <3>1. r # NoRunner
        BY AbsentAssumption
      <3>2. runner[r].command = q.command /\ runner[r].version = q.version
        BY <1>0, <2>2, <3>1, RequestFields
      <3>3. runner'[r].command = runner[r].command /\ runner'[r].version = runner[r].version
        BY <2>1 DEF OwnerEffect
      <3> QED
        BY <2>2, <3>2, <3>3 DEF Hearing
    <2>3. CASE ~(r = q.by /\ Hearing(q))
      BY <1>1, <2>1, <2>3 DEF OwnerEffect
    <2> QED
      BY <2>2, <2>3
  <1>7. ASSUME NEW p \in Executions, Cancel(p) \/ LeaseExpires(p) PROVE runner'[r] = runner[r]
    BY <1>7 DEF Cancel, LeaseExpires
  <1>8. CASE HumanChange \/ Elsewhere \/ UNCHANGED vars
    BY <1>1, <1>8 DEF HumanChange, Elsewhere, vars
  <1> QED
    BY <1>1, <1>2, <1>3, <1>4, <1>5, <1>6, <1>7, <1>8 DEF Next, Step, Claim

\* The writer of an action writes the results of its source action, and what a
\* cancellation sets aside.
RecordedSteps(r, e, i) ==
    LET x == row[e]
        y == row'[e]
    IN  /\ i = x.next /\ x.next <= y.next
        /\ Released(x, y)
        /\ y.version \in {x.version, runner[r].output}
        /\ \A j \in Steps(e) : j < y.next <=> y.results[j].status \in Completed
        /\ \A j \in Steps(e) : y.results[j].status = "succeeded" =>
              x.results[j].status = "succeeded" \/ (j = i /\ runner[r].answer = "ok")
        /\ \A j \in Steps(e) : y.results[j].status \notin NotSent => x.results[j].status \notin NotSent
        /\ y.status # "waiting" => \A j \in Steps(e) : y.next <= j => i < j

\* What a record writes, as far as the order of the batch rests on it.
LEMMA RecordedStepsHold ==
  ASSUME Shape, Truthful, StepsTold, NEW r \in Runners, NEW e \in Executions, NEW i \in Steps(e),
         runner[r].pc = "record", runner[r].command = <<e, i>>, RecordWrites(r, e, i)
  PROVE  RecordedSteps(r, e, i)
  <1> DEFINE x == row[e]
             y == row'[e]
             c == <<e, i>>
  <1>0. RowsType /\ InvalidUnsent /\ LaterUnsent /\ HolderSends
    BY DEF Shape, Truthful
  <1>1. /\ x \in RowType(e) /\ x.lease = r
        /\ i = x.next
        /\ Kind(c) # "invalid" => x.results[i].status \notin NotSent
    BY <1>0 DEF RecordWrites, RowsType, HolderSends
  <1>2. Kind(c) = "invalid" => runner[r].answer = "refused" /\ ~runner[r].reconciling
    BY <1>0 DEF InvalidUnsent
  <1>3. Len(Plan[e]) \in Nat /\ i \in Nat /\ 1 <= i /\ i <= Len(Plan[e])
        /\ \A j \in Steps(e) : j \in Nat
    BY PlanSteps
  <1>4. \A j \in Steps(e) : /\ j < i <=> x.results[j].status \in Completed
                            /\ j > i => x.results[j].status \in NotSent
    BY <1>0, <1>1 DEF StepsTold, StepTold, LaterUnsent
  <1>5. ASSUME NEW f \in [Steps(e) -> ResultType], NEW n \in Nat, i < n, GoesOn(x, e, f, n, y)
        PROVE  /\ y.next = n /\ y.status # "waiting"
               /\ \A j \in Steps(e) : y.results[j] = f[j] \/ (n <= j /\ y.results[j].status = "cancelled")
    <2>1. CASE ~(x.cancel /\ n <= Len(Plan[e]))
      BY <1>5, <2>1, CompletedStatusValues DEF GoesOn
    <2>2. CASE x.cancel /\ n <= Len(Plan[e])
      <3> DEFINE S == n..Len(Plan[e])
      <3>1. y.results = Mark(f, S, "cancelled") /\ y.next = n /\ y.status = "cancelled"
        BY <1>5, <2>2 DEF GoesOn
      <3>2. "cancelled" \in ResultStatus
        BY DEF ResultStatus
      <3>3. \A j \in Steps(e) : j \in S => n <= j
        OBVIOUS
      <3> HIDE DEF S
      <3>4. \A j \in Steps(e) :
              /\ j \in S => y.results[j] = [status |-> "cancelled", version |-> 0]
              /\ j \notin S => y.results[j] = f[j]
        BY <1>5, <3>1, <3>2, MarkResults
      <3> QED
        BY <3>1, <3>3, <3>4
    <2> QED
      BY <2>1, <2>2
  <1>6. CASE Confirms(runner[r]) /\ HasSucceeded(x, e, i, runner[r].output, y)
    <2>1. Kind(c) # "invalid" /\ runner[r].answer = "ok"
      BY <1>2, <1>6 DEF Confirms
    <2>2. PICK f : SuccessAt(x, e, i, runner[r].output, f) /\ GoesOn(x, e, f, i + 1, y)
      BY <1>6 DEF HasSucceeded
    <2>3. /\ y.next = i + 1 /\ y.status # "waiting"
          /\ \A j \in Steps(e) : y.results[j] = f[j] \/ (i + 1 <= j /\ y.results[j].status = "cancelled")
      BY <1>3, <1>5, <2>2 DEF SuccessAt
    <2>4. Released(x, y) /\ y.version = runner[r].output
      BY <1>6 DEF HasSucceeded
    <2>5. f[i].status = "succeeded" /\ \A j \in Steps(e) : j # i => f[j] = x.results[j]
      BY <2>2 DEF SuccessAt
    <2>6. ASSUME NEW j \in Steps(e)
          PROVE  /\ j < i + 1 <=> y.results[j].status \in Completed
                 /\ y.results[j].status = "succeeded" => x.results[j].status = "succeeded" \/ j = i
                 /\ y.results[j].status \notin NotSent => x.results[j].status \notin NotSent
      <3>1. j \in Nat
        BY <1>3
      <3>2. CASE j = i
        <4>1. y.results[j].status = "succeeded"
          BY <1>3, <2>3, <2>5, <3>2
        <4> QED
          BY <1>1, <1>3, <2>1, <3>2, <4>1 DEF Completed, NotSent
      <3>3. CASE j # i
        <4>1. y.results[j] = x.results[j] \/ (i + 1 <= j /\ y.results[j].status = "cancelled")
          BY <2>3, <2>5, <3>3
        <4>2. j < i + 1 <=> j < i
          BY <1>3, <3>1, <3>3
        <4> QED
          BY <1>3, <1>4, <3>1, <3>3, <4>1, <4>2 DEF Completed, NotSent
      <3> QED
        BY <3>2, <3>3
    <2> QED
      BY <1>1, <1>3, <2>1, <2>3, <2>4, <2>6 DEF RecordedSteps
  <1>7. CASE ~Confirms(runner[r]) /\ Refutes(runner[r]) /\ HasFailed(x, e, i, y)
    <2> DEFINE m == Cardinality(Rest(e, i))
    <2>1. m \in Nat /\ \A j \in Steps(e) : j \in Rest(e, i) <=> i + 1 <= j /\ j <= i + m
      <3>1. m \in Nat /\ Rest(e, i) = (i + 1)..(i + m)
        BY RestFollows
      <3> HIDE DEF m
      <3>2. ASSUME NEW j \in Steps(e)
            PROVE  j \in Rest(e, i) <=> i + 1 <= j /\ j <= i + m
        <4>1. j \in Int /\ i + 1 \in Int /\ i + m \in Int
          BY <1>3, <3>1
        <4>2. j \in (i + 1)..(i + m) <=> i + 1 <= j /\ j <= i + m
          BY <4>1
        <4> QED
          BY <3>1, <4>2
      <3> QED
        BY <3>1, <3>2
    <2>2. PICK f : FailureAt(x, e, i, f) /\ GoesOn(x, e, f, i + 1 + m, y)
      BY <1>7 DEF HasFailed
    <2> HIDE DEF m
    <2>3. /\ y.next = i + 1 + m /\ y.status # "waiting"
          /\ \A j \in Steps(e) : y.results[j] = f[j] \/ (i + 1 + m <= j /\ y.results[j].status = "cancelled")
      <3>1. i + 1 + m \in Nat /\ i < i + 1 + m /\ f \in [Steps(e) -> ResultType]
        BY <1>3, <2>1, <2>2 DEF FailureAt
      <3> QED
        BY <1>5, <2>2, <3>1
    <2>4. Released(x, y) /\ y.version = x.version
      BY <1>7 DEF HasFailed
    <2>5. /\ f[i].status = "failed"
          /\ \A j \in Steps(e) : j \in Rest(e, i) => f[j].status = "dependent"
          /\ \A j \in Steps(e) : j # i /\ j \notin Rest(e, i) => f[j] = x.results[j]
      BY <2>2 DEF FailureAt
    <2>6. ASSUME NEW j \in Steps(e)
          PROVE  /\ j < i + 1 + m <=> y.results[j].status \in Completed
                 /\ y.results[j].status = "succeeded" => x.results[j].status = "succeeded"
                 /\ y.results[j].status \notin NotSent => x.results[j].status \notin NotSent
      <3>1. j \in Nat
        BY <1>3
      <3>2. CASE j = i
        <4>1. y.results[j].status = "failed"
          BY <1>3, <2>1, <2>3, <2>5, <3>2
        <4> QED
          BY <1>3, <2>1, <3>2, <4>1 DEF Completed, NotSent
      <3>3. CASE j \in Rest(e, i)
        <4>1. y.results[j].status = "dependent" /\ j < i + 1 + m
          BY <1>3, <2>1, <2>3, <2>5, <3>1, <3>3
        <4> QED
          BY <4>1 DEF Completed, NotSent
      <3>4. CASE j # i /\ j \notin Rest(e, i)
        <4>1. y.results[j] = x.results[j] \/ (i + 1 <= j /\ y.results[j].status = "cancelled")
          BY <1>3, <2>1, <2>3, <2>5, <3>1, <3>4
        <4>2. j < i + 1 + m <=> j < i
          BY <1>3, <2>1, <3>1, <3>4
        <4> QED
          BY <1>3, <1>4, <3>1, <3>4, <4>1, <4>2 DEF Completed, NotSent
      <3> QED
        BY <3>2, <3>3, <3>4
    <2>7. i <= i + 1 + m /\ \A j \in Steps(e) : i + 1 + m <= j => i < j
      BY <1>3, <2>1
    <2> QED
      BY <1>1, <2>3, <2>4, <2>6, <2>7 DEF RecordedSteps
  <1>8. CASE ~Confirms(runner[r]) /\ ~Refutes(runner[r]) /\ IsUnknown(x, e, i, y)
    <2>1. Kind(c) # "invalid"
      BY <1>2, <1>8 DEF Refutes
    <2>2. /\ Released(x, y) /\ y.version = x.version /\ y.status = "waiting" /\ y.next = x.next
          /\ y.results[i].status = "unknown"
          /\ \A j \in Steps(e) : j # i => y.results[j] = x.results[j]
      BY <1>8 DEF IsUnknown
    <2>3. ASSUME NEW j \in Steps(e)
          PROVE  /\ j < i <=> y.results[j].status \in Completed
                 /\ y.results[j].status = "succeeded" => x.results[j].status = "succeeded"
                 /\ y.results[j].status \notin NotSent => x.results[j].status \notin NotSent
      <3>1. CASE j = i
        BY <1>1, <1>3, <2>1, <2>2, <3>1 DEF Completed
      <3>2. CASE j # i
        BY <1>4, <2>2, <3>2
      <3> QED
        BY <3>1, <3>2
    <2> QED
      BY <1>1, <1>3, <2>2, <2>3 DEF RecordedSteps
  <1> QED
    BY <1>6, <1>7, <1>8 DEF RecordWrites

\* A process that is at a command of an execution has been at it before.
LEMMA CommandsStay ==
  ASSUME CommandsFrom, NEW r \in Runners, NEW e \in Executions, NEW i \in Steps(e),
         runner'[r].command = <<e, i>>
  PROVE  runner'[r].command = runner[r].command /\ runner'[r].version = runner[r].version
  <1>1. runner'[r].command # Edit /\ \A p \in Executions : runner'[r].command # <<p, 0>>
    BY CommandPairs, NotACommand
  <1> QED
    BY <1>1 DEF CommandsFrom

\* A step that leaves the rows alone.
LEMMA FencedNoRow ==
  ASSUME Shape, Truthful, Fenced, [Next]_vars, row' = row, CommandsFrom, RequestsFrom
  PROVE  Fenced'
  <1>1. ResultsQuiet
    BY DEF ResultsQuiet
  <1>2. \A e \in Executions : RowFine(e, row'[e])
    BY DEF Fenced, RowsFine
  <1>3. ASSUME NEW r \in Runners, NEW e \in Executions, NEW i \in Steps(e),
               runner'[r].command = <<e, i>>, row'[e].lease = r
        PROVE  HolderFine(e, i, row'[e])
    <2>1. runner[r].command = <<e, i>>
      BY <1>3, CommandsStay
    <2> QED
      BY <1>3, <2>1 DEF Fenced, HoldersFine
  <1> QED
    BY <1>1, <1>2, <1>3, FencedQuiet

\* A step that writes one row and neither starts nor records an action.
LEMMA FencedOneRow ==
  ASSUME Shape, Truthful, Fenced, [Next]_vars, NEW e \in Executions, OnlyRow(e),
         row'[e].next = row[e].next, row'[e].dispatch = row[e].dispatch,
         row'[e].version = row[e].version \/ row'[e].version = FactVersion,
         row'[e].evaluated = row[e].evaluated \/ Preceded(e),
         \A i \in Steps(e) :
            \/ row'[e].results[i] = row[e].results[i]
            \/ row[e].results[i].status \in {"pending", "cancelled"}
               /\ row'[e].results[i].status = "cancelled",
         RowFine(e, row'[e]),
         \A r \in Runners : \A i \in Steps(e) :
            runner[r].command = <<e, i>> /\ row'[e].lease = r => HolderFine(e, i, row'[e]),
         CommandsFrom, RequestsFrom
  PROVE  Fenced'
  <1>1. \A p \in Executions : p # e => row'[p] = row[p]
    BY DEF OnlyRow
  <1>2. ResultsQuiet
    BY <1>1 DEF ResultsQuiet
  <1>3. \A p \in Executions : RowFine(p, row'[p])
    BY <1>1 DEF Fenced, RowsFine
  <1>4. ASSUME NEW r \in Runners, NEW p \in Executions, NEW i \in Steps(p),
               runner'[r].command = <<p, i>>, row'[p].lease = r
        PROVE  HolderFine(p, i, row'[p])
    <2>1. runner[r].command = <<p, i>>
      BY <1>4, CommandsStay
    <2>2. CASE p = e
      BY <1>4, <2>1, <2>2
    <2>3. CASE p # e
      BY <1>1, <1>4, <2>1, <2>3 DEF Fenced, HoldersFine
    <2> QED
      BY <2>2, <2>3
  <1> QED
    BY <1>2, <1>3, <1>4, FencedQuiet

\* Nothing new is asked, and nothing new is sent.
LEMMA NothingNew ==
  /\ runner' = runner => CommandsFrom
  /\ flight' = flight => RequestsFrom
  BY DEF CommandsFrom, RequestsFrom

\* A process that is done drops its command.
LEMMA DroppedCommand ==
  ASSUME NEW r \in Runners, runner'[r] = Idle, \A s \in Runners : s # r => runner'[s] = runner[s]
  PROVE  CommandsFrom
  BY IdleShape DEF CommandsFrom

\* Nothing has been started at admission.
LEMMA FencedInit == Init => Fenced
  <1> SUFFICES ASSUME Init PROVE Fenced
    OBVIOUS
  <1>1. ASSUME NEW e \in Executions
        PROVE  /\ row[e].next = 1 /\ row[e].version = FactVersion /\ row[e].evaluated = 0
               /\ row[e].live = FALSE
               /\ \A i \in Steps(e) : row[e].results[i].status = "pending" /\ row[e].dispatch[i] = 0
               /\ \/ row[e].status = "received" /\ row[e].context = TRUE
                  \/ row[e].status = "evaluating" /\ row[e].context = FALSE
                  \/ row[e].status = "failed" /\ row[e].context = FALSE
    <2>1. PICK f \in [Executions -> {Queued, Deferred, Rejected, Unreadable}] :
            row = [p \in Executions |-> Admitted(p, f[p])]
      BY DEF Init
    <2> DEFINE a == f[e]
    <2>2. a \in {Queued, Deferred, Rejected, Unreadable} /\ row[e] = Admitted(e, a)
      BY <2>1
    <2>3. \/ a.status = "received" /\ a.context = TRUE
          \/ a.status = "evaluating" /\ a.context = FALSE
          \/ a.status = "failed" /\ a.context = FALSE
      BY <2>2 DEF Queued, Deferred, Rejected, Unreadable
    <2> HIDE DEF a
    <2>4. /\ row[e].next = 1 /\ row[e].version = FactVersion /\ row[e].evaluated = 0
          /\ row[e].live = FALSE /\ row[e].status = a.status /\ row[e].context = a.context
      BY <2>2 DEF Admitted
    <2>5. row[e].results = [i \in Steps(e) |-> Pending] /\ row[e].dispatch = [i \in Steps(e) |-> 0]
      BY <2>2 DEF Admitted
    <2>6. \A i \in Steps(e) : row[e].results[i].status = "pending" /\ row[e].dispatch[i] = 0
      BY <2>5 DEF Pending
    <2> QED
      BY <2>3, <2>4, <2>6
  <1>2. \A r \in Runners : \A e \in Executions : \A i \in Nat : runner[r].command # <<e, i>>
    <2>1. ASSUME NEW r \in Runners, NEW e \in Executions, NEW i \in Nat PROVE runner[r].command # <<e, i>>
      <3>1. runner[r] = Idle
        BY DEF Init
      <3>2. runner[r].command = Edit
        BY <3>1, IdleShape
      <3>3. e # 0
        BY ExecutionNumbers
      <3> QED
        BY <3>2, <3>3 DEF Edit
    <2> QED
      BY <2>1
  <1>3. \A e \in Executions : \A i \in Steps(e) : i \in Nat /\ 1 <= i
    BY PlanSteps
  <1>4. Ordered
    <2>1. ASSUME NEW e \in Executions PROVE ~Started(e)
      <3>1. ~(row[e].next # 1 \/ row[e].version # FactVersion \/ row[e].evaluated # 0)
        BY <1>1
      <3>2. \A i \in Steps(e) : row[e].dispatch[i] = 0
        BY <1>1
      <3>3. \A r \in Runners : \A i \in Steps(e) \cup {0} : runner[r].command # <<e, i>>
        <4>1. \A i \in Steps(e) \cup {0} : i \in Nat
          BY <1>3
        <4> QED
          BY <1>2, <4>1
      <3> QED
        BY <3>1, <3>2, <3>3 DEF Started
    <2> QED
      BY <2>1 DEF Ordered
  <1>5. StepsTold
    <2>1. ASSUME NEW e \in Executions, NEW i \in Steps(e) PROVE StepTold(e, i)
      <3>1. row[e].results[i].status = "pending" /\ row[e].dispatch[i] = 0 /\ ~(i < row[e].next)
        <4>1. i \in Nat /\ 1 <= i
          BY <1>3
        <4>2. ~(i < 1)
          BY <4>1
        <4> QED
          BY <1>1, <4>2
      <3> QED
        BY <3>1 DEF StepTold, Completed, NotSent
    <2> QED
      BY <2>1 DEF StepsTold
  <1>6. RowsFine
    BY <1>1 DEF RowsFine, RowFine, NotSent, FinalStatus
  <1>7. SentFrozen
    BY <1>2, <1>3 DEF SentFrozen, Init
  <1>8. HoldersFine
    BY <1>2, <1>3 DEF HoldersFine
  <1> QED
    BY <1>4, <1>5, <1>6, <1>7, <1>8 DEF Fenced

\* Whoever is given a version to go on from comes after executions that have ended.
LEMMA ProvedPreceded ==
  ASSUME NEW e \in Executions, PredecessorVersion(e) # 0
  PROVE  Preceded(e) /\ PredecessorVersion(e) = Base(e)
  <1>1. \A p \in 1..(e - 1) : Proves(p)
    BY BaseVersion
  <1> QED
    BY <1>1, BaseVersion DEF Preceded, Ended, Proves

\* Setting a checkpoint aside keeps the order of the batch.
LEMMA QuarantineFenced ==
  ASSUME Shape, Truthful, Fenced, [Next]_vars, NEW r \in Runners, NEW e \in Executions, Quarantine(r, e)
  PROVE  Fenced'
  <1> DEFINE x == row[e]
             y == row'[e]
  <1>1. OnlyRow(e) /\ IsQuarantined(x, y) /\ ElseKept /\ Turn(r, e)
    BY QuarantineEffect DEF Shape
  <1>2. /\ y.next = x.next /\ y.version = x.version /\ y.results = x.results /\ y.dispatch = x.dispatch
        /\ y.context = x.context /\ y.evaluated = x.evaluated /\ y.lease = x.lease
        /\ y.live = x.live /\ y.cancel = x.cancel /\ y.status = "manual_action_required"
    BY <1>1 DEF IsQuarantined, SameProgress, SameOrigin, SameLease
  <1>3. RowFine(e, y)
    BY <1>1, <1>2 DEF RowFine, Turn, FinalStatus
  <1>4. ASSUME NEW s \in Runners, NEW i \in Steps(e), runner[s].command = <<e, i>>, y.lease = s
        PROVE  HolderFine(e, i, y)
    <2>1. HolderFine(e, i, x)
      BY <1>2, <1>4 DEF Fenced, HoldersFine
    <2> QED
      BY <1>2, <2>1 DEF HolderFine
  <1>5. CommandsFrom /\ RequestsFrom
    BY <1>1, NothingNew DEF ElseKept, OwnersKept
  <1> HIDE DEF x, y
  <1> QED
    BY <1>1, <1>2, <1>3, <1>4, <1>5, FencedOneRow DEF x, y

\* So does ending a cancelled execution,
LEMMA CancelRestFenced ==
  ASSUME Shape, Truthful, Fenced, [Next]_vars, NEW r \in Runners, NEW e \in Executions, CancelRest(r, e)
  PROVE  Fenced'
  <1> DEFINE x == row[e]
             y == row'[e]
             S == x.next..Len(Plan[e])
  <1>1. /\ OnlyRow(e) /\ IsCancelled(x, e, S, y) /\ ElseKept /\ Turn(r, e)
        /\ x.context /\ Trusted(e) /\ x.cancel /\ x.results[x.next].status = "pending"
    BY CancelRestEffect DEF Shape
  <1>2. /\ y.next = x.next /\ y.version = x.version /\ y.dispatch = x.dispatch
        /\ y.context = x.context /\ y.evaluated = x.evaluated /\ y.lease = x.lease
        /\ y.live = x.live /\ y.cancel = x.cancel /\ y.status = "cancelled"
    BY <1>1 DEF IsCancelled, SameOrigin, SameLease
  <1>3. x.next \in Steps(e) /\ x.next \in Nat /\ Len(Plan[e]) \in Nat
    BY <1>1, TrustedNext, PlanSteps
  <1>4. \A i \in Steps(e) : i \in Nat /\ i <= Len(Plan[e])
    BY PlanSteps
  <1>5. \A i \in Steps(e) : i \in S <=> x.next <= i
    BY <1>3, <1>4
  <1>6. ASSUME NEW i \in Steps(e), i \in S
        PROVE  x.results[i].status = "pending" /\ y.results[i].status = "cancelled"
    <2>1. y.results[i].status = "cancelled"
      BY <1>1, <1>6 DEF IsCancelled
    <2>2. CASE i = x.next
      BY <1>1, <2>1, <2>2
    <2>3. CASE i # x.next
      <3>1. x.next < i
        BY <1>3, <1>4, <1>5, <1>6, <2>3
      <3>2. x.results[i] = Pending
        BY <1>1, <3>1, TrustedNext
      <3> QED
        BY <2>1, <3>2 DEF Pending
    <2> QED
      BY <2>2, <2>3
  <1>7. \A i \in Steps(e) : i \notin S => y.results[i] = x.results[i]
    BY <1>1 DEF IsCancelled
  <1> HIDE DEF S
  <1>8. RowFine(e, y)
    <2>1. ~y.live
      BY <1>1, <1>2 DEF Turn
    <2>2. \A i \in Steps(e) : y.next <= i => y.results[i].status \in NotSent
      BY <1>2, <1>5, <1>6 DEF NotSent
    <2> QED
      BY <1>1, <1>2, <2>1, <2>2 DEF RowFine
  <1>9. ASSUME NEW s \in Runners, NEW i \in Steps(e), runner[s].command = <<e, i>>, y.lease = s
        PROVE  HolderFine(e, i, y)
    <2>1. i = x.next /\ (Kind(<<e, i>>) # "invalid" => x.results[i].status \notin NotSent)
      BY <1>2, <1>9 DEF Truthful, HolderSends
    <2>2. Kind(<<e, i>>) = "invalid"
      BY <1>1, <2>1 DEF NotSent
    <2> QED
      BY <1>1, <1>2, <2>2 DEF HolderFine
  <1>10. CommandsFrom /\ RequestsFrom
    BY <1>1, NothingNew DEF ElseKept, OwnersKept
  <1>11. \A i \in Steps(e) :
            \/ y.results[i] = x.results[i]
            \/ x.results[i].status \in {"pending", "cancelled"} /\ y.results[i].status = "cancelled"
    BY <1>6, <1>7
  <1> HIDE DEF x, y
  <1> QED
    BY <1>1, <1>2, <1>8, <1>9, <1>10, <1>11, FencedOneRow DEF x, y

\* claiming an evaluation, which comes after executions that have ended,
LEMMA ClaimEvaluationFenced ==
  ASSUME Shape, Truthful, Fenced, [Next]_vars, NEW r \in Runners, NEW e \in Executions, ClaimEvaluation(r, e)
  PROVE  Fenced'
  <1> DEFINE x == row[e]
             y == row'[e]
  <1>1. /\ OnlyRow(e) /\ IsLeased(x, r, y) /\ OwnersKept
        /\ Turn(r, e) /\ ~x.context /\ PredecessorVersion(e) # 0
        /\ runner'[r].command = <<e, 0>>
        /\ \A s \in Runners : s # r => runner'[s] = runner[s]
    BY ClaimEvaluationEffect DEF Shape
  <1>2. /\ y.next = x.next /\ y.version = x.version /\ y.results = x.results /\ y.dispatch = x.dispatch
        /\ y.context = x.context /\ y.evaluated = x.evaluated /\ y.lease = r /\ y.status = x.status
    BY <1>1 DEF IsLeased, SameProgress, SameOrigin
  <1>3. RowFine(e, x) /\ Active(e) /\ runner[r].pc = "idle"
    BY <1>1 DEF Fenced, RowsFine, Turn
  <1>4. x.status = "evaluating"
    BY <1>1, <1>3 DEF RowFine, Active, ActiveStatus, FinalStatus
  <1>5. RowFine(e, y)
    BY <1>1, <1>2, <1>3, <1>4 DEF RowFine
  <1>6. runner[r].command = Edit
    BY <1>3 DEF Shape, RunnersShape, RunnerShape
  <1>7. \A i \in Steps(e) : runner[r].command # <<e, i>>
    BY <1>6, CommandPairs, NotACommand
  <1>8. CommandsFrom
    BY <1>1, ProvedPreceded DEF CommandsFrom
  <1>9. RequestsFrom
    BY <1>1, NothingNew DEF OwnersKept
  <1>10. \A s \in Runners : \A i \in Steps(e) :
            runner[s].command = <<e, i>> /\ y.lease = s => HolderFine(e, i, y)
    BY <1>2, <1>7
  <1> HIDE DEF x, y
  <1> QED
    BY <1>1, <1>2, <1>5, <1>8, <1>9, <1>10, FencedOneRow DEF x, y

\* deciding it,
LEMMA DecideFenced ==
  ASSUME Shape, Truthful, Fenced, [Next]_vars, NEW r \in Runners, Decide(r)
  PROVE  Fenced'
  <1>1. PICK e \in Executions :
          /\ runner[r].command = <<e, 0>>
          /\ \/ row' = row
             \/ /\ row[e].lease = r /\ row[e].status = "evaluating"
                /\ PredecessorVersion(e) = runner[r].version
                /\ OnlyRow(e)
                /\ IsDecided(row[e], runner[r].answer, runner[r].version, row'[e])
    BY DecideEffect DEF Shape
  <1>2. /\ OwnersKept /\ runner'[r] = Idle /\ \A s \in Runners : s # r => runner'[s] = runner[s]
        /\ runner[r].pc = "record" /\ runner[r].version \in Versions
    BY DecideEffect DEF Shape
  <1>3. CommandsFrom /\ RequestsFrom
    BY <1>2, DroppedCommand, NothingNew DEF OwnersKept
  <1>4. CASE row' = row
    BY <1>3, <1>4, FencedNoRow
  <1>5. CASE row' # row
    <2> DEFINE x == row[e]
               y == row'[e]
               answer == runner[r].answer
    <2>1. /\ OnlyRow(e) /\ x.status = "evaluating" /\ PredecessorVersion(e) # 0
          /\ IsDecided(x, answer, runner[r].version, y)
      BY <1>1, <1>2, <1>5, VersionNumbers
    <2>2. /\ y.next = x.next /\ y.results = x.results /\ y.dispatch = x.dispatch
          /\ y.lease = NoRunner /\ ~y.live
          /\ y.version = x.version \/ y.version = FactVersion
      BY <2>1 DEF IsDecided, NoLease
    <2>3. Preceded(e)
      BY <2>1, ProvedPreceded
    <2>4. answer \in {"matched", "no_match", "failed", "unknown"}
      <3>1. runner[r].command \notin Commands
        BY <1>1, NotACommand
      <3> QED
        BY <1>2, <3>1 DEF Shape, RunnersShape, RunnerShape
    <2>5. RowFine(e, x)
      BY DEF Fenced, RowsFine
    <2>6. \A i \in Steps(e) : y.next <= i => y.results[i].status \in NotSent
      BY <2>1, <2>2, <2>5 DEF RowFine
    <2>7. (y.status = "evaluating" => ~y.context) /\ (~y.context => y.status \in {"evaluating"} \cup FinalStatus)
      <3>1. ~x.context
        BY <2>1, <2>5 DEF RowFine
      <3>2. CASE answer = "unknown"
        BY <2>1, <3>1, <3>2 DEF IsDecided, SameOrigin
      <3>3. CASE answer = "matched"
        BY <2>1, <3>1, <3>3 DEF IsDecided, FinalStatus
      <3>4. CASE answer \in {"no_match", "failed"}
        BY <2>1, <3>1, <3>4 DEF IsDecided, FinalStatus
      <3> QED
        BY <2>4, <3>2, <3>3, <3>4
    <2>8. RowFine(e, y)
      BY <2>2, <2>6, <2>7 DEF RowFine
    <2>9. \A s \in Runners : y.lease # s
      BY <2>2, AbsentAssumption
    <2> HIDE DEF x, y
    <2> QED
      BY <1>3, <2>1, <2>2, <2>3, <2>8, <2>9, FencedOneRow DEF x, y
  <1> QED
    BY <1>4, <1>5

\* asking for a cancellation,
LEMMA CancelFenced ==
  ASSUME Shape, Truthful, Fenced, [Next]_vars, NEW e \in Executions, Cancel(e)
  PROVE  Fenced'
  <1> DEFINE x == row[e]
             y == row'[e]
  <1>1. OnlyRow(e) /\ ElseKept /\ Active(e)
    BY CancelEffect DEF Shape
  <1>2. CommandsFrom /\ RequestsFrom
    BY <1>1, NothingNew DEF ElseKept, OwnersKept
  <1>3. /\ RowFine(e, x)
        /\ \A s \in Runners : \A i \in Steps(e) :
              runner[s].command = <<e, i>> /\ x.lease = s => HolderFine(e, i, x)
    BY DEF Fenced, RowsFine, HoldersFine
  <1>4. CASE x.status \in {"running", "waiting"} /\ IsAsked(x, y)
    <2>1. /\ y.next = x.next /\ y.version = x.version /\ y.results = x.results /\ y.dispatch = x.dispatch
          /\ y.context = x.context /\ y.evaluated = x.evaluated /\ y.lease = x.lease
          /\ y.live = x.live /\ y.status = x.status
      BY <1>4 DEF IsAsked, SameProgress, SameOrigin
    <2>2. RowFine(e, y)
      BY <1>3, <2>1 DEF RowFine
    <2>3. ASSUME NEW s \in Runners, NEW i \in Steps(e), runner[s].command = <<e, i>>, y.lease = s
          PROVE  HolderFine(e, i, y)
      <3>1. HolderFine(e, i, x)
        BY <1>3, <2>1, <2>3
      <3> QED
        BY <1>4, <2>1, <3>1 DEF HolderFine
    <2> HIDE DEF x, y
    <2> QED
      BY <1>1, <1>2, <2>1, <2>2, <2>3, FencedOneRow DEF x, y
  <1>5. CASE x.status \notin {"running", "waiting"} /\ x.context /\ IsCancelled(x, e, PendingSteps(x), y)
    <2> DEFINE S == PendingSteps(x)
    <2>1. /\ y.next = x.next /\ y.version = x.version /\ y.dispatch = x.dispatch
          /\ y.context = x.context /\ y.evaluated = x.evaluated /\ y.lease = x.lease
          /\ y.live = x.live /\ y.status = "cancelled"
      BY <1>5 DEF IsCancelled, SameOrigin, SameLease
    <2>2. x.status = "received"
      BY <1>1, <1>3, <1>5 DEF RowFine, Active, ActiveStatus
    <2>3. \A i \in Steps(e) : i \in S => x.results[i].status = "pending"
      BY DEF PendingSteps
    <2> HIDE DEF S
    <2>4. \A i \in Steps(e) :
            \/ y.results[i] = x.results[i]
            \/ x.results[i].status = "pending" /\ y.results[i].status = "cancelled"
      BY <1>5, <2>3 DEF IsCancelled, S
    <2>5. RowFine(e, y)
      <3>1. ~y.live
        BY <1>3, <2>1, <2>2 DEF RowFine
      <3>2. \A i \in Steps(e) : x.next <= i => x.results[i].status \in NotSent
        BY <1>3, <2>2 DEF RowFine
      <3>3. \A i \in Steps(e) : y.next <= i => y.results[i].status \in NotSent
        BY <2>1, <2>4, <3>2 DEF NotSent
      <3> QED
        BY <1>5, <2>1, <3>1, <3>3 DEF RowFine
    <2>6. ASSUME NEW s \in Runners, NEW i \in Steps(e), runner[s].command = <<e, i>>, y.lease = s
          PROVE  HolderFine(e, i, y)
      <3>1. HolderFine(e, i, x)
        BY <1>3, <2>1, <2>6
      <3> QED
        BY <2>2, <3>1 DEF HolderFine
    <2>7. \A i \in Steps(e) :
            \/ y.results[i] = x.results[i]
            \/ x.results[i].status \in {"pending", "cancelled"} /\ y.results[i].status = "cancelled"
      BY <2>4
    <2> HIDE DEF x, y
    <2> QED
      BY <1>1, <1>2, <2>1, <2>5, <2>6, <2>7, FencedOneRow DEF x, y
  <1>6. CASE x.status \notin {"running", "waiting"} /\ ~x.context /\ IsDropped(x, y)
    <2>1. /\ y.next = x.next /\ y.version = x.version /\ y.results = x.results /\ y.dispatch = x.dispatch
          /\ y.context = x.context /\ y.evaluated = x.evaluated /\ y.lease = NoRunner
          /\ ~y.live /\ y.status = "cancelled"
      BY <1>6 DEF IsDropped, SameProgress, SameOrigin, NoLease
    <2>2. x.status \in {"received", "evaluating"}
      BY <1>1, <1>6 DEF Active, ActiveStatus
    <2>3. \A i \in Steps(e) : y.next <= i => y.results[i].status \in NotSent
      BY <1>3, <2>1, <2>2 DEF RowFine
    <2>4. RowFine(e, y)
      BY <2>1, <2>3 DEF RowFine, FinalStatus
    <2>5. \A s \in Runners : y.lease # s
      BY <2>1, AbsentAssumption
    <2> HIDE DEF x, y
    <2> QED
      BY <1>1, <1>2, <2>1, <2>4, <2>5, FencedOneRow DEF x, y
  <1> QED
    BY <1>4, <1>5, <1>6, CancelEffect DEF Shape

\* and the end of a lease.
LEMMA LeaseExpiresFenced ==
  ASSUME Shape, Truthful, Fenced, [Next]_vars, NEW e \in Executions, LeaseExpires(e)
  PROVE  Fenced'
  <1> DEFINE x == row[e]
             y == row'[e]
  <1>1. OnlyRow(e) /\ ElseKept /\ IsExpired(x, y)
    BY LeaseExpiresEffect DEF Shape
  <1>2. /\ y.next = x.next /\ y.version = x.version /\ y.results = x.results /\ y.dispatch = x.dispatch
        /\ y.context = x.context /\ y.evaluated = x.evaluated /\ y.lease = x.lease
        /\ ~y.live /\ y.status = x.status /\ y.cancel = x.cancel
    BY <1>1 DEF IsExpired, SameProgress, SameOrigin
  <1>3. /\ RowFine(e, x)
        /\ \A s \in Runners : \A i \in Steps(e) :
              runner[s].command = <<e, i>> /\ x.lease = s => HolderFine(e, i, x)
    BY DEF Fenced, RowsFine, HoldersFine
  <1>4. RowFine(e, y)
    BY <1>2, <1>3 DEF RowFine
  <1>5. ASSUME NEW s \in Runners, NEW i \in Steps(e), runner[s].command = <<e, i>>, y.lease = s
        PROVE  HolderFine(e, i, y)
    <2>1. HolderFine(e, i, x)
      BY <1>2, <1>3, <1>5
    <2> QED
      BY <1>2, <2>1 DEF HolderFine
  <1>6. CommandsFrom /\ RequestsFrom
    BY <1>1, NothingNew DEF ElseKept, OwnersKept
  <1> HIDE DEF x, y
  <1> QED
    BY <1>1, <1>2, <1>4, <1>5, <1>6, FencedOneRow DEF x, y

\* Steps that write no row: requests, answers, deaths and edits.
LEMMA OtherFenced ==
  ASSUME Shape, Truthful, Fenced, [Next]_vars,
         \/ \E r \in Runners : Send(r) \/ Evaluate(r) \/ Crash(r)
         \/ \E q \in flight : Owner(q)
         \/ HumanChange \/ Elsewhere \/ UNCHANGED vars
  PROVE  Fenced'
  <1>0. RunnersShape /\ FlightShape /\ faults \in 0..MaxFaults
    BY DEF Shape
  <1>1. ASSUME NEW r \in Runners, Send(r)
        PROVE  row' = row /\ CommandsFrom /\ RequestsFrom
    <2>1. row' = row /\ CommandsFrom
      BY <1>0, <1>1, SendEffect DEF CommandsFrom
    <2>2. \A p \in flight' : p \in flight \/
             (p.command = runner[r].command /\ p.version = runner[r].version
              /\ Kind(runner[r].command) # "invalid")
      BY <1>0, <1>1, SendEffect
    <2>3. RequestsFrom
      BY <2>2 DEF RequestsFrom
    <2> QED
      BY <2>1, <2>3
  <1>2. ASSUME NEW r \in Runners, Evaluate(r)
        PROVE  row' = row /\ CommandsFrom /\ RequestsFrom
    <2>1. row' = row /\ CommandsFrom
      BY <1>0, <1>2, EvaluateEffect DEF CommandsFrom
    <2>2. RequestsFrom
      BY <1>0, <1>2, EvaluateEffect, NothingNew DEF OwnersKept
    <2> QED
      BY <2>1, <2>2
  <1>3. ASSUME NEW r \in Runners, Crash(r)
        PROVE  row' = row /\ CommandsFrom /\ RequestsFrom
    <2>1. row' = row /\ CommandsFrom
      BY <1>0, <1>3, CrashEffect, DroppedCommand
    <2>2. RequestsFrom
      BY <1>0, <1>3, CrashEffect DEF RequestsFrom
    <2> QED
      BY <2>1, <2>2
  <1>4. ASSUME NEW q \in flight, Owner(q)
        PROVE  row' = row /\ CommandsFrom /\ RequestsFrom
    <2>1. OwnerEffect(q)
      BY <1>4, OwnerStep
    <2>2. row' = row /\ CommandsFrom
      BY <2>1 DEF OwnerEffect, CommandsFrom
    <2>3. RequestsFrom
      BY <2>1 DEF OwnerEffect, RequestsFrom
    <2> QED
      BY <2>2, <2>3
  <1>5. CASE HumanChange \/ Elsewhere \/ UNCHANGED vars
    <2>1. row' = row /\ runner' = runner /\ flight' = flight
      BY <1>5 DEF HumanChange, Elsewhere, vars
    <2> QED
      BY <2>1, NothingNew, FencedNoRow
  <1> QED
    BY <1>1, <1>2, <1>3, <1>4, <1>5, FencedNoRow

\* An action starts from the version its predecessors left.
LEMMA StartIsMade ==
  ASSUME Shape, Truthful, Fenced, NEW e \in Executions, Trusted(e)
  PROVE  /\ Preceded(e)
         /\ StartVersion(e) = FactVersion + Cardinality(Made(<<e, row[e].next>>))
  <1> DEFINE n == row[e].next
  <1>1. n \in Steps(e) /\ n \in Nat
    BY TrustedNext, PlanSteps
  <1>2. Preceded(e) /\ PredecessorVersion(e) = Base(e)
    BY TrustedNext, ProvedPreceded
  <1>3. After(row[e], e, n - 1, Base(e)) = FactVersion + Cardinality(Made(<<e, n>>))
    BY <1>1, <1>2, AfterIsMade DEF Shape, Fenced
  <1>4. CASE n = 1 /\ row[e].results[1].status = "pending"
    <2>1. StartVersion(e) = Base(e)
      BY <1>2, <1>4 DEF StartVersion, Result
    <2>2. Cardinality(Confirmed(row[e], e, 0)) = 0
      BY ConfirmedFinite
    <2>3. After(row[e], e, n - 1, Base(e)) = Base(e)
      <3>1. n - 1 = 0 /\ Base(e) \in Nat
        BY <1>4, BaseVersion, VersionNumbers
      <3> QED
        BY <2>2, <3>1 DEF After
    <2> QED
      BY <1>2, <1>3, <2>1, <2>3
  <1>5. CASE ~(n = 1 /\ row[e].results[1].status = "pending")
    <2>1. row[e].version = After(row[e], e, n - 1, Base(e))
      BY <1>5, TrustedNext
    <2>2. StartVersion(e) = row[e].version
      BY <1>5 DEF StartVersion, Result
    <2> QED
      BY <1>2, <1>3, <2>1, <2>2
  <1> QED
    BY <1>4, <1>5

\* An action is claimed after executions that have ended, and frozen with the
\* version they left.
LEMMA ClaimActionFenced ==
  ASSUME Shape, Truthful, Fenced, [Next]_vars, NEW r \in Runners, NEW e \in Executions, ClaimAction(r, e)
  PROVE  Fenced'
  <1> DEFINE x == row[e]
             y == row'[e]
             n == x.next
             v == Frozen(e)
  <1>0. Ordered /\ StepsTold /\ RowsFine /\ SentFrozen /\ HoldersFine /\ RunnersShape /\ FlightShape
    BY DEF Shape, Fenced
  <1>1. /\ OnlyRow(e) /\ OwnersKept /\ n \in Steps(e) /\ v \in Versions
        /\ IsAccepted(x, e, r, StartVersion(e), v, y)
        /\ x.context /\ Trusted(e)
        /\ runner'[r].command = <<e, n>> /\ runner'[r].version = v
        /\ \A s \in Runners : s # r => runner'[s] = runner[s]
    BY ClaimActionEffect DEF Shape
  <1>2. /\ y.next = n /\ y.context = x.context /\ y.lease = r /\ y.live /\ y.status = "running"
        /\ \A i \in Steps(e) : i # n => y.results[i] = x.results[i] /\ y.dispatch[i] = x.dispatch[i]
        /\ Kind(<<e, n>>) = "invalid" => y.results = x.results /\ y.dispatch = x.dispatch
        /\ Kind(<<e, n>>) # "invalid" => y.results[n].status = "accepted" /\ y.dispatch[n] = v
    BY <1>1 DEF IsAccepted, SameOrigin
  <1>3. /\ receipt' = receipt /\ flight' = flight
        /\ \A p \in Executions : p # e => row'[p] = row[p]
    BY <1>1 DEF OwnersKept, OnlyRow
  <1>4. /\ Preceded(e)
        /\ v = x.dispatch[n] \/ (x.dispatch[n] = 0 /\ v = FactVersion + Cardinality(Made(<<e, n>>)))
    BY <1>1, StartIsMade DEF Frozen
  <1>5. v # 0 /\ n \in Nat /\ ~(n < n) /\ n <= n
    BY <1>1, VersionNumbers, PlanSteps
  <1>6. \A s \in Runners : \A p \in Executions : \A i \in Steps(p) :
          runner'[s].command = <<p, i>> =>
             (s = r /\ p = e /\ i = n) \/ (runner[s].command = <<p, i>> /\ runner'[s] = runner[s])
    BY <1>1
  <1>7. Ordered'
    <2>1. ASSUME NEW p \in Executions,
                 \/ row'[p].next # 1 \/ row'[p].version # FactVersion \/ row'[p].evaluated # 0
                 \/ \E i \in Steps(p) : row'[p].dispatch[i] # 0
                 \/ \E s \in Runners : \E i \in Steps(p) \cup {0} : runner'[s].command = <<p, i>>
          PROVE  Started(p) \/ Preceded(p)
      <3>1. CASE p = e
        BY <1>4, <3>1
      <3>2. CASE p # e
        <4>1. \A s \in Runners : \A i \in Steps(p) \cup {0} :
                runner'[s].command = <<p, i>> => runner[s].command = <<p, i>>
          BY <1>1, <3>2
        <4> QED
          BY <1>3, <2>1, <3>2, <4>1 DEF Started
      <3> QED
        BY <3>1, <3>2
    <2> QED
      BY <2>1, OrderedNext
  <1>8. StepsTold'
    <2>1. ASSUME NEW p \in Executions, NEW i \in Steps(p) PROVE StepTold(p, i)'
      <3>1. StepTold(p, i)
        BY <1>0 DEF StepsTold
      <3>2. CASE p # e \/ i # n
        <4>1. row'[p].next = row[p].next /\ row'[p].results[i] = row[p].results[i]
              /\ row'[p].dispatch[i] = row[p].dispatch[i]
          BY <1>2, <1>3, <3>2
        <4> QED
          BY <1>3, <3>1, <4>1, StepToldNext DEF StepTold
      <3>3. CASE p = e /\ i = n /\ Kind(<<e, n>>) = "invalid"
        <4>1. row'[p].next = row[p].next /\ row'[p].results[i] = row[p].results[i]
              /\ row'[p].dispatch[i] = row[p].dispatch[i]
          BY <1>2, <3>3
        <4> QED
          BY <1>3, <3>1, <4>1, StepToldNext DEF StepTold
      <3>4. CASE p = e /\ i = n /\ Kind(<<e, n>>) # "invalid"
        <4>1. row'[p].next = i /\ row'[p].results[i].status = "accepted" /\ row'[p].dispatch[i] = v
          BY <1>2, <3>4
        <4>2. \/ row[p].dispatch[i] # 0 /\ row'[p].dispatch[i] = row[p].dispatch[i]
              \/ receipt' = receipt /\ row'[p].dispatch[i] = FactVersion + Cardinality(Made(<<p, i>>))
          BY <1>3, <1>4, <1>5, <3>4, <4>1
        <4>3. /\ i < row'[p].next <=> row'[p].results[i].status \in Completed
              /\ row'[p].results[i].status # "succeeded"
              /\ row'[p].dispatch[i] # 0 /\ i <= row'[p].next /\ Kind(<<p, i>>) # "invalid"
          <5>1. v # 0 /\ ~(i < i) /\ i <= i
            BY <1>5, <3>4
          <5> QED
            BY <3>4, <4>1, <5>1 DEF Completed
        <4> QED
          BY <4>2, <4>3, StepToldNext
      <3> QED
        BY <3>2, <3>3, <3>4
    <2> QED
      BY <2>1 DEF StepsTold, Steps
  <1>9. RowsFine'
    <2>1. RowFine(e, y)
      BY <1>1, <1>2 DEF RowFine
    <2>2. \A p \in Executions : RowFine(p, row'[p])
      BY <1>0, <1>3, <2>1 DEF RowsFine
    <2> QED
      BY <2>2 DEF RowsFine, RowFine, NotSent, FinalStatus, Steps
  <1>10. SentFrozen'
    <2>1. ASSUME NEW u \in Versions, u = x.dispatch[n], Kind(<<e, n>>) # "invalid" PROVE u = y.dispatch[n]
      BY <1>2, <1>4, <2>1, VersionNumbers
    <2>2. ASSUME NEW s \in Runners, NEW p \in Executions, NEW i \in Steps(p),
                 runner'[s].command = <<p, i>>, Kind(<<p, i>>) # "invalid"
          PROVE  runner'[s].version = row'[p].dispatch[i]
      <3>1. CASE s = r /\ p = e /\ i = n
        BY <1>1, <1>2, <2>2, <3>1
      <3>2. CASE runner[s].command = <<p, i>> /\ runner'[s] = runner[s]
        <4>1. runner[s].version = row[p].dispatch[i]
          BY <1>0, <2>2, <3>2 DEF SentFrozen
        <4>2. runner[s].version \in Versions
          <5>1. runner[s].command # Edit
            BY <3>2, CommandPairs, NotACommand
          <5> QED
            BY <1>0, <5>1 DEF RunnersShape, RunnerShape
        <4>3. CASE p = e /\ i = n
          BY <2>1, <2>2, <3>2, <4>1, <4>2, <4>3
        <4>4. CASE p # e \/ i # n
          BY <1>2, <1>3, <3>2, <4>1, <4>4
        <4> QED
          BY <4>3, <4>4
      <3> QED
        BY <1>6, <2>2, <3>1, <3>2
    <2>3. ASSUME NEW q \in flight', NEW p \in Executions, NEW i \in Steps(p), q.command = <<p, i>>
          PROVE  q.version = row'[p].dispatch[i]
      <3>1. q \in flight
        BY <1>3
      <3>2. q.version = row[p].dispatch[i]
        BY <1>0, <2>3, <3>1 DEF SentFrozen
      <3>3. q.version \in Versions /\ Kind(<<p, i>>) # "invalid"
        BY <1>0, <2>3, <3>1, RequestFields
      <3>4. CASE p = e /\ i = n
        BY <2>1, <3>2, <3>3, <3>4
      <3>5. CASE p # e \/ i # n
        BY <1>2, <1>3, <3>2, <3>5
      <3> QED
        BY <3>4, <3>5
    <2> QED
      BY <2>2, <2>3 DEF SentFrozen, Steps, Kind
  <1>11. HoldersFine'
    <2>1. ASSUME NEW s \in Runners, NEW p \in Executions, NEW i \in Steps(p),
                 runner'[s].command = <<p, i>>, row'[p].lease = s
          PROVE  HolderFine(p, i, row'[p])
      <3>1. CASE p = e
        BY <1>1, <1>2, <3>1 DEF HolderFine
      <3>2. CASE p # e
        BY <1>0, <1>3, <1>6, <2>1, <3>2 DEF HoldersFine
      <3> QED
        BY <3>1, <3>2
    <2> QED
      BY <2>1 DEF HoldersFine, HolderFine, Steps, Kind
  <1> QED
    BY <1>7, <1>8, <1>9, <1>10, <1>11 DEF Fenced

\* How an execution stands after a record.
LEMMA RecordedStatus ==
  ASSUME NEW r \in Runners, NEW e \in Executions, NEW i \in Steps(e), RecordWrites(r, e, i)
  PROVE  row'[e].status \in {"waiting", "cancelled", "received", "succeeded", "partially_succeeded", "failed"}
  <1>1. ASSUME NEW f, NEW n, GoesOn(row[e], e, f, n, row'[e])
        PROVE  row'[e].status \in {"cancelled", "received", "succeeded", "partially_succeeded", "failed"}
    BY <1>1, CompletedStatusValues DEF GoesOn
  <1> QED
    BY <1>1 DEF RecordWrites, HasSucceeded, HasFailed, IsUnknown

\* A record moves its execution on past actions that are settled.
LEMMA RecordFenced ==
  ASSUME Shape, Truthful, Fenced, HeardTrue, [Next]_vars, NEW r \in Runners, Record(r)
  PROVE  Fenced'
  <1>0. /\ Ordered /\ StepsTold /\ RowsFine /\ SentFrozen /\ HoldersFine
        /\ RowsType /\ RunnersShape /\ FlightShape /\ LaterUnsent
    BY DEF Shape, Fenced, Truthful
  <1>1. PICK e \in Executions : \E i \in Steps(e) :
          runner[r].command = <<e, i>> /\ (row' = row \/ RecordWrites(r, e, i))
    BY <1>0, RecordEffect
  <1>2. PICK i \in Steps(e) :
          runner[r].command = <<e, i>> /\ (row' = row \/ RecordWrites(r, e, i))
    BY <1>1
  <1>3. /\ OwnersKept /\ runner'[r] = Idle /\ \A s \in Runners : s # r => runner'[s] = runner[s]
        /\ runner[r].pc = "record"
    BY <1>0, RecordEffect
  <1>4. CASE row' = row
    BY <1>3, <1>4, DroppedCommand, NothingNew, FencedNoRow DEF OwnersKept
  <1>5. CASE RecordWrites(r, e, i)
    <2> DEFINE x == row[e]
               y == row'[e]
    <2>1. RecordedSteps(r, e, i) /\ RecordedResults(r, e, i)
      BY <1>2, <1>3, <1>5, RecordedStepsHold, RecordedResultsHold DEF Fenced
    <2>2. /\ \A p \in Executions : p # e => row'[p] = row[p]
          /\ receipt' = receipt /\ flight' = flight
          /\ x.lease = r
      BY <1>3, <1>5 DEF RecordWrites, OnlyRow, OwnersKept
    <2>3. /\ y.dispatch = x.dispatch /\ y.context = x.context /\ y.lease = NoRunner /\ ~y.live
          /\ x.next <= y.next /\ i = x.next
      BY <2>1 DEF RecordedSteps, Released
    <2>4. HolderFine(e, i, x)
      BY <1>0, <1>2, <2>2 DEF HoldersFine
    <2>5. \A s \in Runners : \A p \in Executions : \A j \in Steps(p) \cup {0} :
            runner'[s].command = <<p, j>> => s # r /\ runner'[s] = runner[s]
      <3>1. runner'[r].command = Edit
        BY <1>3, IdleShape
      <3>2. \A p \in Executions : \A j : <<p, j>> # Edit
        BY ExecutionNumbers DEF Edit
      <3> QED
        BY <1>3, <3>1, <3>2
    <2>6. Ordered'
      <3>1. ASSUME NEW p \in Executions,
                   \/ row'[p].next # 1 \/ row'[p].version # FactVersion \/ row'[p].evaluated # 0
                   \/ \E j \in Steps(p) : row'[p].dispatch[j] # 0
                   \/ \E s \in Runners : \E j \in Steps(p) \cup {0} : runner'[s].command = <<p, j>>
            PROVE  Started(p) \/ Preceded(p)
        <4>1. CASE p = e
          BY <1>2, <4>1 DEF Started
        <4>2. CASE p # e
          BY <2>2, <2>5, <3>1, <4>2 DEF Started
        <4> QED
          BY <4>1, <4>2
      <3> QED
        BY <3>1, OrderedNext
    <2>7. StepsTold'
      <3>1. ASSUME NEW p \in Executions, NEW j \in Steps(p) PROVE StepTold(p, j)'
        <4>1. StepTold(p, j)
          BY <1>0 DEF StepsTold
        <4>2. CASE p # e
          BY <2>2, <4>1, <4>2, StepToldNext DEF StepTold
        <4>3. CASE p = e
          <5>1. j < row'[p].next <=> row'[p].results[j].status \in Completed
            BY <2>1, <4>3 DEF RecordedSteps
          <5>2. row'[p].results[j].status = "succeeded" => receipt'[<<p, j>>] # NoReceipt
            <6>1. row'[p].results[j].status = "succeeded" =>
                    row[p].results[j].status = "succeeded" \/ (j = i /\ runner[r].answer = "ok")
              BY <2>1, <4>3 DEF RecordedSteps
            <6>2. runner[r].answer = "ok" => receipt[<<e, i>>] # NoReceipt
              BY <1>2, <1>3 DEF HeardTrue
            <6> QED
              BY <2>2, <4>1, <4>3, <6>1, <6>2 DEF StepTold
          <5>3. row'[p].results[j].status \notin NotSent => row[p].results[j].status \notin NotSent
            BY <2>1, <4>3 DEF RecordedSteps
          <5>4. row'[p].dispatch = row[p].dispatch
            BY <2>3, <4>3
          <5>5. row'[p].dispatch[j] # 0 => j <= row'[p].next
            <6>1. row[p].next \in Nat /\ row'[p].next \in Nat /\ j \in Nat /\ row[p].next <= row'[p].next
              <7>1. y \in RowType(e)
                BY <1>5 DEF RecordWrites, OnlyRow
              <7> QED
                BY <1>0, <2>3, <4>3, <7>1, RowColumns, PlanSteps DEF RowsType
            <6>2. row[p].dispatch[j] # 0 => j <= row[p].next
              BY <4>1 DEF StepTold
            <6> QED
              BY <5>4, <6>1, <6>2
          <5> QED
            BY <4>1, <5>1, <5>2, <5>3, <5>4, <5>5, StepToldNext DEF StepTold
        <4> QED
          BY <4>2, <4>3
      <3> QED
        BY <3>1 DEF StepsTold, Steps
    <2>8. RowsFine'
      <3>1. RowFine(e, y)
        <4>1. y.status \in {"waiting", "cancelled", "received", "succeeded", "partially_succeeded", "failed"}
          BY <1>5, RecordedStatus
        <4>2. ASSUME y.status # "waiting", NEW j \in Steps(e), y.next <= j
              PROVE  y.results[j].status \in NotSent
          <5>1. i < j
            BY <2>1, <4>2 DEF RecordedSteps
          <5>2. j # i
            BY <5>1, PlanSteps
          <5>3. x.results[j].status \in NotSent
            BY <1>0, <2>3, <5>1 DEF LaterUnsent
          <5> QED
            BY <2>1, <5>2, <5>3 DEF RecordedResults
        <4>3. y.context
          BY <2>3, <2>4 DEF HolderFine
        <4> QED
          BY <2>3, <4>1, <4>2, <4>3 DEF RowFine
      <3>2. \A p \in Executions : RowFine(p, row'[p])
        BY <1>0, <2>2, <3>1 DEF RowsFine
      <3> QED
        BY <3>2 DEF RowsFine, RowFine, NotSent, FinalStatus, Steps
    <2>9. \A p \in Executions : row'[p].dispatch = row[p].dispatch
      BY <2>2, <2>3
    <2>10. SentFrozen'
      <3>1. ASSUME NEW s \in Runners, NEW p \in Executions, NEW j \in Steps(p),
                   runner'[s].command = <<p, j>>, Kind(<<p, j>>) # "invalid"
            PROVE  runner'[s].version = row'[p].dispatch[j]
        <4>1. runner'[s] = runner[s]
          BY <2>5, <3>1
        <4> QED
          BY <1>0, <2>9, <3>1, <4>1 DEF SentFrozen
      <3>2. ASSUME NEW q \in flight', NEW p \in Executions, NEW j \in Steps(p), q.command = <<p, j>>
            PROVE  q.version = row'[p].dispatch[j]
        BY <1>0, <2>2, <2>9, <3>2 DEF SentFrozen
      <3> QED
        BY <3>1, <3>2 DEF SentFrozen, Steps, Kind
    <2>11. HoldersFine'
      <3>1. ASSUME NEW s \in Runners, NEW p \in Executions, NEW j \in Steps(p),
                   runner'[s].command = <<p, j>>, row'[p].lease = s
            PROVE  HolderFine(p, j, row'[p])
        <4>1. p # e
          BY <2>3, <3>1, AbsentAssumption
        <4>2. runner'[s] = runner[s] /\ row'[p] = row[p]
          BY <2>2, <2>5, <3>1, <4>1
        <4> QED
          BY <1>0, <3>1, <4>2 DEF HoldersFine
      <3> QED
        BY <3>1 DEF HoldersFine, HolderFine, Steps, Kind
    <2> QED
      BY <2>6, <2>7, <2>8, <2>10, <2>11 DEF Fenced
  <1> QED
    BY <1>2, <1>4, <1>5

\* Every step keeps the order of the batch.
LEMMA FencedStep == Shape /\ Truthful /\ Fenced /\ HeardTrue /\ [Next]_vars => Fenced'
  <1> SUFFICES ASSUME Shape, Truthful, Fenced, HeardTrue, [Next]_vars PROVE Fenced'
    OBVIOUS
  <1>1. ASSUME NEW r \in Runners, Step(r) \/ Crash(r) PROVE Fenced'
    BY <1>1, QuarantineFenced, CancelRestFenced, ClaimEvaluationFenced, ClaimActionFenced,
       RecordFenced, DecideFenced, OtherFenced DEF Step, Claim
  <1>2. ASSUME NEW e \in Executions, Cancel(e) \/ LeaseExpires(e) PROVE Fenced'
    BY <1>2, CancelFenced, LeaseExpiresFenced
  <1> QED
    BY <1>1, <1>2, OtherFenced DEF Next

\* A command that still finds the version it was frozen with finds all that changed the
\* conversation to be changes made by the commands before it.
LEMMA OnlyMade ==
  ASSUME ChangesShape, NEW c \in Commands, Version = FactVersion + Cardinality(Made(c)),
         NEW k \in DOMAIN changes
  PROVE  changes[k] \in Made(c)
  <1> DEFINE M == Made(c)
             D == DOMAIN changes
             f == [d \in M |-> CHOOSE j \in D : changes[j] = d]
  <1>1. Len(changes) \in Nat /\ D = 1..Len(changes)
    BY DEF ChangesShape
  <1>2. IsFiniteSet(D) /\ Cardinality(D) = Len(changes)
    BY <1>1, UpTo
  <1>3. IsFiniteSet(M) /\ Cardinality(M) \in Nat
    <2>1. M \in SUBSET Commands
      BY DEF Made
    <2> HIDE DEF M
    <2> QED
      BY <2>1, VersionNumbers
  <1>4. Cardinality(M) = Cardinality(D)
    <2>1. FactVersion \in Nat
      BY VersionAssumption
    <2> HIDE DEF M, D
    <2>2. FactVersion + Len(changes) = FactVersion + Cardinality(M)
      BY DEF Version, M
    <2> QED
      BY <1>1, <1>2, <1>3, <2>1, <2>2
  <1>5. \A d \in M : f[d] \in D /\ changes[f[d]] = d
    <2>1. \A d \in M : \E j \in D : changes[j] = d
      BY DEF Made, ChangesShape
    <2> QED
      BY <2>1
  <1>6. f \in [M -> D]
    BY <1>5
  <1> HIDE DEF M, D, f
  <1>7. f \in Injection(M, D)
    BY <1>5, <1>6 DEF Injection, IsInjective
  <1>8. f \in Surjection(M, D)
    BY <1>2, <1>4, <1>7, FS_Injection
  <1>9. PICK d \in M : f[d] = k
    BY <1>8 DEF Surjection, D
  <1>10. changes[k] = d
    BY <1>5, <1>9
  <1> QED
    BY <1>9, <1>10 DEF M

\* A change that finds its version comes after changes of the commands before it
\* only.
LEMMA FactFencedStep ==
  ASSUME Shape, Fenced, FactFenced, [Next]_vars
  PROVE  FactFenced'
  <1>0. ChangesShape /\ changes \in Seq(Commands \cup {Edit})
    BY DEF Shape, ChangesShape
  <1>1. Len(changes) \in Nat /\ DOMAIN changes = 1..Len(changes)
    BY <1>0
  <1>2. ASSUME NEW c \in Commands \cup {Edit}, changes' = Append(changes, c),
               c # Edit => \A k \in DOMAIN changes : changes[k] \in Made(c)
        PROVE  FactFenced'
    <2>1. /\ DOMAIN changes' = 1..(Len(changes) + 1) /\ changes'[Len(changes) + 1] = c
          /\ \A k \in 1..Len(changes) : changes'[k] = changes[k]
      BY <1>0, <1>2
    <2>2. ASSUME NEW k \in DOMAIN changes', NEW m \in DOMAIN changes', k < m, changes'[m] # Edit
          PROVE  changes'[k] # Edit /\ Before(changes'[k], changes'[m])
      <3>1. k \in DOMAIN changes /\ changes'[k] = changes[k]
        BY <1>1, <2>1, <2>2
      <3>2. CASE m \in DOMAIN changes
        BY <1>1, <2>1, <2>2, <3>1, <3>2 DEF FactFenced
      <3>3. CASE m \notin DOMAIN changes
        <4>1. m = Len(changes) + 1
          BY <1>1, <2>1, <3>3
        <4>2. changes'[m] = c
          BY <2>1, <4>1
        <4>3. changes[k] \in Made(c)
          BY <1>2, <2>2, <3>1, <4>2
        <4>4. changes[k] # Edit /\ Before(changes[k], c)
          BY <4>3, NotACommand DEF Made
        <4> QED
          BY <3>1, <4>2, <4>4
      <3> QED
        BY <3>2, <3>3
    <2> QED
      BY <2>2 DEF FactFenced, Before, Edit
  <1>3. CASE changes' = changes
    BY <1>3 DEF FactFenced, Before, Edit
  <1>4. ASSUME NEW q \in flight, Owner(q), changes' # changes PROVE FactFenced'
    <2>1. /\ Performs(q) /\ Kind(q.command) = "change" /\ changes' = Append(changes, q.command)
          /\ q.version = Version
      BY <1>4, OwnerStep DEF OwnerEffect, NothingDone, Performs
    <2>2. q.command \in Commands /\ q.version \in Versions
      BY RequestFields DEF Shape
    <2>3. PICK e \in Executions : \E i \in Steps(e) : q.command = <<e, i>>
      BY <2>2, CommandPairs
    <2>4. PICK i \in Steps(e) : q.command = <<e, i>>
      BY <2>3
    <2>5. q.version = row[e].dispatch[i] /\ StepTold(e, i)
      BY <2>4 DEF Fenced, SentFrozen, StepsTold
    <2>6. Version = FactVersion + Cardinality(Made(q.command))
      BY <2>1, <2>2, <2>4, <2>5, VersionNumbers DEF StepTold
    <2>7. \A k \in DOMAIN changes : changes[k] \in Made(q.command)
      BY <1>0, <2>2, <2>6, OnlyMade
    <2> QED
      BY <1>2, <2>1, <2>2, <2>7
  <1>5. CASE HumanChange
    BY <1>2, <1>5 DEF HumanChange
  <1>6. ASSUME NEW r \in Runners, Step(r) \/ Crash(r) PROVE changes' = changes
    BY <1>6 DEF Step, Claim, Quarantine, CancelRest, ClaimEvaluation, ClaimAction, Send, Evaluate,
                Record, Decide, Crash
  <1>7. ASSUME NEW e \in Executions, Cancel(e) \/ LeaseExpires(e) PROVE changes' = changes
    BY <1>7 DEF Cancel, LeaseExpires
  <1>8. CASE Elsewhere \/ UNCHANGED vars
    BY <1>3, <1>8 DEF Elsewhere, vars
  <1> QED
    BY <1>3, <1>4, <1>5, <1>6, <1>7, <1>8 DEF Next

\* What the proofs of the batch rest on: the types, the truth of failures, the order of
\* the executions with the versions their commands were frozen with, and what the
\* processes have heard.
Invariant == Shape /\ Truthful /\ Fenced /\ HeardTrue

\* The strengthened invariant holds in every reachable state.
LEMMA Invariance == Spec => []Invariant
  <1>1. Init => Invariant
    <2> SUFFICES ASSUME Init PROVE Invariant
      OBVIOUS
    <2>1. HeardTrue
      BY DEF Init, Idle, HeardTrue
    <2> QED
      BY <2>1, ShapeInit, TruthfulInit, FencedInit DEF Invariant
  <1>2. Invariant /\ [Next]_vars => Invariant'
    BY ShapeStep, TruthfulStep, FencedStep, HeardStep DEF Invariant
  <1> QED
    BY <1>1, <1>2, PTL DEF Spec

\* Once somebody else has changed the conversation no rule of the batch changes it
\* again, and the rules before that changed it in their order (aut_causality.go).
THEOREM RulesAreFenced == Spec => []FactFenced
  <1>1. Init => FactFenced
    BY DEF Init, FactFenced
  <1>2. Invariant /\ FactFenced /\ [Next]_vars => FactFenced'
    BY FactFencedStep DEF Invariant
  <1> QED
    BY <1>1, <1>2, Invariance, PTL DEF Spec

=============================================================================
