----------------------- MODULE AutomationRunnerProofs -----------------------
(***************************************************************************)
(* Theorems about the durable runner of automation rules                   *)
(* (modruntime/aut_runner.go), for every batch, every compiled plan, any   *)
(* number of processes, edits and faults: its types (TypeCorrect), and     *)
(* that a result never tells of a failure that was none (FailuresAreTrue). *)
(*                                                                         *)
(* Every handler is first described by what it reads and writes (the       *)
(* lemmas whose names end in Effect); the invariants are then kept by      *)
(* those descriptions.  Shape has the types and what bounds the versions;  *)
(* Truthful says who may still have a command on its way.                  *)
(***************************************************************************)
EXTENDS AutomationRunner, FiniteSetTheorems, TLAPS

(***************************************************************************)
(* Executions, plans and commands.                                         *)
(***************************************************************************)

\* The executions are numbered from one, without a gap.
LEMMA ExecutionNumbers ==
  /\ Cardinality(Executions) \in Nat
  /\ \A e : e \in Executions <=> e \in Nat /\ 1 <= e /\ e <= Cardinality(Executions)
  <1>1. Cardinality(Executions) \in Nat
    BY BatchAssumption, FS_CardinalityType
  <1> QED
    BY <1>1, BatchAssumption

\* Every execution has a plan with at least one step.
LEMMA PlanSteps ==
  ASSUME NEW e \in Executions
  PROVE  /\ Len(Plan[e]) \in Nat \ {0}
         /\ \A i \in Steps(e) : Plan[e][i].kind \in ActionKinds /\ Plan[e][i].group \in Nat
         /\ \A i, j \in Steps(e) : i < j => Plan[e][i].group <= Plan[e][j].group
         /\ \A i \in Steps(e) : i \in Nat /\ 1 <= i /\ i <= Len(Plan[e])
  <1>1. Plan[e] \in Seq([kind : ActionKinds, group : Nat]) /\ Plan[e] # <<>>
    BY PlanAssumption
  <1>2. Len(Plan[e]) \in Nat /\ Len(Plan[e]) # 0 /\ DOMAIN Plan[e] = Steps(e)
    BY <1>1 DEF Steps
  <1>3. \A i \in Steps(e) : Plan[e][i] \in [kind : ActionKinds, group : Nat]
    <2>1. ASSUME NEW T, NEW s \in Seq(T), NEW i \in 1..Len(s) PROVE s[i] \in T
      BY <2>1
    <2> QED
      BY <1>1, <2>1 DEF Steps
  <1>4. \A i, j \in Steps(e) : i < j => Plan[e][i].group <= Plan[e][j].group
    BY <1>2, PlanAssumption
  <1> QED
    BY <1>2, <1>3, <1>4 DEF Steps

\* A command is an execution and one of its steps.
LEMMA CommandPairs ==
  /\ \A e \in Executions : \A i \in Steps(e) : <<e, i>> \in Commands
  /\ \A c \in Commands : c[1] \in Executions /\ c[2] \in Steps(c[1]) /\ c = <<c[1], c[2]>>
  BY DEF Commands

\* Neither an edit nor an evaluation is a command.
LEMMA NotACommand ==
  /\ Edit \notin Commands
  /\ \A e : <<e, 0>> \notin Commands
  <1>1. \A e \in Executions : 0 \notin Steps(e)
    BY DEF Steps
  <1> QED
    BY <1>1, CommandPairs DEF Edit

\* A batch has finitely many commands.
LEMMA CommandsFinite == IsFiniteSet(Commands) /\ Cardinality(Commands) \in Nat
  <1> DEFINE of == [e \in Executions |-> {e} \X Steps(e)]
             T == {{e} \X Steps(e) : e \in Executions}
  <1>1. of \in Surjection(Executions, T)
    BY DEF Surjection
  <1>2. IsFiniteSet(T)
    <2> HIDE DEF of, T
    <2> QED
      BY <1>1, BatchAssumption, FS_Surjection
  <1>3. \A S \in T : IsFiniteSet(S)
    <2> SUFFICES ASSUME NEW e \in Executions PROVE IsFiniteSet({e} \X Steps(e))
      OBVIOUS
    <2>1. Len(Plan[e]) \in Int /\ 1 \in Int
      BY PlanSteps
    <2>2. IsFiniteSet(Steps(e))
      BY <2>1, FS_Interval DEF Steps
    <2>3. IsFiniteSet({e})
      BY FS_Singleton
    <2> QED
      BY <2>2, <2>3, FS_Product
  <1>4. Commands = UNION T
    BY DEF Commands
  <1>5. IsFiniteSet(UNION T)
    <2> HIDE DEF T
    <2> QED
      BY <1>2, <1>3, FS_UNION
  <1> QED
    BY <1>4, <1>5, FS_CardinalityType

\* Versions are positive, and there are enough of them for every command.
LEMMA VersionNumbers ==
  /\ Versions \subseteq Nat
  /\ 0 \notin Versions
  /\ FactVersion \in Versions
  /\ \A S \in SUBSET Commands : /\ IsFiniteSet(S) /\ Cardinality(S) \in Nat
                                /\ FactVersion + Cardinality(S) \in Versions
  /\ \A v : v \in Versions <=> v \in Nat /\ FactVersion <= v
                               /\ v <= FactVersion + (MaxEdits + Cardinality(Commands))
  <1>1. /\ FactVersion \in Nat /\ FactVersion > 0 /\ MaxEdits \in Nat
        /\ Cardinality(Commands) \in Nat
    BY VersionAssumption, BoundsAssumption, CommandsFinite
  <1>2. ASSUME NEW S \in SUBSET Commands
        PROVE  /\ IsFiniteSet(S) /\ Cardinality(S) \in Nat
               /\ Cardinality(S) <= Cardinality(Commands)
    BY CommandsFinite, FS_Subset, FS_CardinalityType
  <1> QED
    BY <1>1, <1>2 DEF Versions

(***************************************************************************)
(* The rows of a batch.                                                    *)
(***************************************************************************)
ResultType == [status : ResultStatus, version : Versions \cup {0}]

RowsType ==
    /\ row = [e \in Executions |-> row[e]]
    /\ \A e \in Executions : row[e] \in RowType(e)

\* A step that writes one row leaves the others as they are.
LEMMA RowWritten ==
  ASSUME RowsType, NEW e \in Executions, NEW y, row' = [row EXCEPT ![e] = y]
  PROVE  /\ row'[e] = y
         /\ \A p : p # e => row'[p] = row[p]
         /\ row' = [p \in Executions |-> row'[p]]
         /\ y \in RowType(e) => RowsType'
  <1>1. row = [p \in Executions |-> row[p]]
    BY DEF RowsType
  <1>2. /\ row'[e] = y
        /\ \A p \in Executions : p # e => row'[p] = row[p]
        /\ row' = [p \in Executions |-> row'[p]]
    BY <1>1
  <1>3. \A p : p # e => row'[p] = row[p]
    BY <1>1
  <1>4. ASSUME y \in RowType(e) PROVE RowsType'
    <2>1. \A p \in Executions : row'[p] \in RowType(p)
      BY <1>2, <1>4 DEF RowsType
    <2>2. \A p \in Executions : RowType(p)' = RowType(p)
      BY DEF RowType, Steps, Versions, Commands
    <2> QED
      BY <1>2, <2>1, <2>2 DEF RowsType
  <1> QED
    BY <1>2, <1>3, <1>4

\* The columns of a row.
LEMMA RowColumns ==
  ASSUME NEW e \in Executions, NEW x \in RowType(e)
  PROVE  /\ x.status \in ActiveStatus \cup FinalStatus
         /\ x.next \in Nat /\ 1 <= x.next /\ x.next <= Len(Plan[e]) + 1
         /\ x.next \in 1..(Len(Plan[e]) + 1)
         /\ x.version \in Versions
         /\ x.results \in [Steps(e) -> ResultType]
         /\ x.dispatch \in [Steps(e) -> Versions \cup {0}]
         /\ DOMAIN x.results = Steps(e)
         /\ x.cancel \in BOOLEAN /\ x.context \in BOOLEAN /\ x.live \in BOOLEAN
         /\ x.lease \in Runners \cup {NoRunner}
         /\ x.evaluation \in {"none", "pending", "matched", "no_match", "failed", "unreadable"}
         /\ x.evaluated \in Versions \cup {0}
  BY PlanSteps DEF RowType, ResultType

\* Results that are set aside.
LEMMA MarkResults ==
  ASSUME NEW e \in Executions, NEW f \in [Steps(e) -> ResultType], NEW S, NEW s \in ResultStatus
  PROVE  /\ Mark(f, S, s) \in [Steps(e) -> ResultType]
         /\ DOMAIN Mark(f, S, s) = Steps(e)
         /\ \A i \in Steps(e) : i \in S => Mark(f, S, s)[i] = [status |-> s, version |-> 0]
         /\ \A i \in Steps(e) : i \notin S => Mark(f, S, s)[i] = f[i]
  BY DEF Mark, ResultType

\* A completed execution has ended, and needs nobody.
LEMMA CompletedStatusValues ==
  ASSUME NEW f
  PROVE  CompletedStatus(f) \in {"succeeded", "partially_succeeded", "failed"}
  BY DEF CompletedStatus

\* Where an execution goes on: what it leaves alone, what it writes.
GoesOn(x, e, f, n, y) ==
    /\ y.results = IF x.cancel /\ n <= Len(Plan[e]) THEN Mark(f, n..Len(Plan[e]), "cancelled") ELSE f
    /\ y.next = n
    /\ y.status = IF x.cancel /\ n <= Len(Plan[e]) THEN "cancelled"
                  ELSE IF n > Len(Plan[e]) THEN CompletedStatus(f) ELSE "received"

\* What an execution keeps while it goes on.
Kept(x, y) ==
    /\ y.context = x.context
    /\ y.evaluation = x.evaluation /\ y.evaluated = x.evaluated
    /\ y.cancel = x.cancel
    /\ y.lease = x.lease /\ y.live = x.live
    /\ y.dispatch = x.dispatch

\* Going on writes the results, the place and the status, and keeps the rest (GoOn).
LEMMA GoOnRow ==
  ASSUME NEW e \in Executions, NEW x \in RowType(e),
         NEW f \in [Steps(e) -> ResultType], NEW n \in 1..(Len(Plan[e]) + 1)
  PROVE  /\ GoOn(x, e, f, n) \in RowType(e)
         /\ GoesOn(x, e, f, n, GoOn(x, e, f, n))
         /\ Kept(x, GoOn(x, e, f, n))
         /\ GoOn(x, e, f, n).version = x.version
  <1> DEFINE y == GoOn(x, e, f, n)
             done == IF x.cancel /\ n <= Len(Plan[e]) THEN Mark(f, n..Len(Plan[e]), "cancelled") ELSE f
             stat == IF x.cancel /\ n <= Len(Plan[e]) THEN "cancelled"
                     ELSE IF n > Len(Plan[e]) THEN CompletedStatus(f) ELSE "received"
  <1>1. y = [x EXCEPT !.results = done, !.next = n, !.status = stat]
    BY DEF GoOn
  <1>2. done \in [Steps(e) -> ResultType]
    <2>1. "cancelled" \in ResultStatus
      BY DEF ResultStatus
    <2> QED
      BY <2>1, MarkResults
  <1>3. stat \in ActiveStatus \cup FinalStatus
    BY CompletedStatusValues DEF ActiveStatus, FinalStatus
  <1>4. x = [status |-> x.status, context |-> x.context, evaluation |-> x.evaluation,
             evaluated |-> x.evaluated, next |-> x.next, version |-> x.version,
             cancel |-> x.cancel, lease |-> x.lease, live |-> x.live,
             results |-> x.results, dispatch |-> x.dispatch]
    BY DEF RowType
  <1>5. /\ y.results = done /\ y.next = n /\ y.status = stat /\ y.version = x.version
        /\ y.context = x.context /\ y.evaluation = x.evaluation /\ y.evaluated = x.evaluated
        /\ y.lease = x.lease /\ y.live = x.live /\ y.dispatch = x.dispatch
        /\ y.cancel = x.cancel
    BY <1>1, <1>4
  <1>6. y \in RowType(e)
    BY <1>1, <1>2, <1>3 DEF RowType, ResultType
  <1> QED
    BY <1>5, <1>6 DEF GoesOn, Kept

\* The lease is given back.
LEMMA UnleaseRow ==
  ASSUME NEW e \in Executions, NEW x \in RowType(e)
  PROVE  /\ Unlease(x) \in RowType(e)
         /\ Unlease(x).lease = NoRunner /\ ~Unlease(x).live
         /\ Unlease(x).status = x.status /\ Unlease(x).next = x.next
         /\ Unlease(x).results = x.results /\ Unlease(x).dispatch = x.dispatch
         /\ Unlease(x).version = x.version /\ Unlease(x).cancel = x.cancel
         /\ Unlease(x).context = x.context
         /\ Unlease(x).evaluation = x.evaluation /\ Unlease(x).evaluated = x.evaluated
  BY DEF Unlease, RowType

\* The steps of a source action after its step i.
Rest(e, i) == {j \in (i + 1)..Len(Plan[e]) : SameGroup(e, i, j)}

\* They follow it directly.
LEMMA RestFollows ==
  ASSUME NEW e \in Executions, NEW i \in Steps(e)
  PROVE  /\ IsFiniteSet(Rest(e, i)) /\ Cardinality(Rest(e, i)) \in Nat
         /\ Rest(e, i) = (i + 1)..(i + Cardinality(Rest(e, i)))
         /\ i + Cardinality(Rest(e, i)) <= Len(Plan[e])
  <1> DEFINE R == Rest(e, i)
             L == Len(Plan[e])
  <1>1. /\ L \in Nat /\ i \in Nat /\ 1 <= i /\ i <= L
    BY PlanSteps
  <1>2. R \subseteq (i + 1)..L
    BY DEF Rest
  <1>3. IsFiniteSet((i + 1)..L) /\ IsFiniteSet(R) /\ Cardinality(R) \in Nat
    <2>1. IsFiniteSet((i + 1)..L)
      BY <1>1, FS_Interval
    <2> QED
      BY <1>2, <2>1, FS_Subset, FS_CardinalityType
  <1>4. ASSUME NEW j \in R, NEW k \in (i + 1)..j PROVE k \in R
    <2>1. /\ j \in Steps(e) /\ k \in Steps(e) /\ i \in Steps(e) /\ i < k /\ k <= j /\ k <= L
          /\ j \in Nat /\ k \in Nat
      BY <1>1, <1>2 DEF Steps
    <2>2. Plan[e][i].group = Plan[e][j].group
      BY DEF Rest, SameGroup
    <2>3. Plan[e][i].group <= Plan[e][k].group
      BY <2>1, PlanSteps
    <2>4. Plan[e][k].group <= Plan[e][j].group
      <3>1. CASE k = j
        <4>1. Plan[e][j].group \in Nat
          BY <2>1, PlanSteps
        <4> QED
          BY <4>1, <3>1
      <3>2. CASE k < j
        BY <2>1, <3>2, PlanSteps
      <3>3. k = j \/ k < j
        BY <2>1
      <3> QED
        BY <3>1, <3>2, <3>3
    <2>5. Plan[e][i].group \in Nat /\ Plan[e][j].group \in Nat /\ Plan[e][k].group \in Nat
      BY <2>1, PlanSteps
    <2>6. Plan[e][i].group = Plan[e][k].group
      BY <2>2, <2>3, <2>4, <2>5
    <2> QED
      BY <2>1, <2>6, <1>1 DEF Rest, SameGroup
  <1>5. ASSUME NEW j \in R PROVE j - i <= Cardinality(R)
    <2>1. (i + 1)..j \subseteq R /\ j \in Nat /\ i < j
      BY <1>1, <1>2, <1>4
    <2>2. Cardinality((i + 1)..j) = j - i
      BY <2>1, <1>1, FS_Interval
    <2> QED
      BY <2>1, <2>2, <1>3, FS_Subset
  <1>6. R \subseteq (i + 1)..(i + Cardinality(R))
    BY <1>1, <1>2, <1>3, <1>5
  <1>7. R = (i + 1)..(i + Cardinality(R))
    <2>1. /\ IsFiniteSet((i + 1)..(i + Cardinality(R)))
          /\ Cardinality((i + 1)..(i + Cardinality(R))) = Cardinality(R)
      <3> DEFINE a == i + 1
                 b == i + Cardinality(R)
      <3>1. a \in Int /\ b \in Int /\ (IF a > b THEN 0 ELSE b - a + 1) = Cardinality(R)
        BY <1>1, <1>3
      <3>2. IsFiniteSet(a..b) /\ Cardinality(a..b) = IF a > b THEN 0 ELSE b - a + 1
        <4> HIDE DEF a, b
        <4> QED
          BY <3>1, FS_Interval
      <3> QED
        BY <3>1, <3>2
    <2> QED
      BY <2>1, <1>6, FS_Subset
  <1>8. i + Cardinality(R) <= L
    <2>1. CASE Cardinality(R) = 0
      BY <1>1, <2>1
    <2>2. CASE Cardinality(R) # 0
      <3>1. i + Cardinality(R) \in (i + 1)..(i + Cardinality(R))
        BY <1>1, <1>3, <2>2
      <3>2. i + Cardinality(R) \in (i + 1)..L
        BY <3>1, <1>2, <1>7
      <3> QED
        BY <3>2, <1>1
    <2> QED
      BY <2>1, <2>2
  <1> QED
    BY <1>3, <1>7, <1>8

\* A row whose lease was given back, otherwise as it was outside its progress.
Released(x, y) ==
    /\ y.context = x.context
    /\ y.evaluation = x.evaluation /\ y.evaluated = x.evaluated
    /\ y.cancel = x.cancel
    /\ y.lease = NoRunner /\ ~y.live
    /\ y.dispatch = x.dispatch

\* The results f of a row x once its action i succeeded at the version v, failed, or
\* has an unknown outcome.
SuccessAt(x, e, i, v, f) ==
    /\ f \in [Steps(e) -> ResultType]
    /\ f[i] = [status |-> "succeeded", version |-> v]
    /\ \A j \in Steps(e) : j # i => f[j] = x.results[j]

FailureAt(x, e, i, f) ==
    /\ f \in [Steps(e) -> ResultType]
    /\ f[i] = [status |-> "failed", version |-> 0]
    /\ \A j \in Rest(e, i) : f[j] = [status |-> "dependent", version |-> 0]
    /\ \A j \in Steps(e) : j # i /\ j \notin Rest(e, i) => f[j] = x.results[j]

\* What Record makes of a row.
HasSucceeded(x, e, i, v, y) ==
    /\ Released(x, y) /\ y.version = v
    /\ \E f : SuccessAt(x, e, i, v, f) /\ GoesOn(x, e, f, i + 1, y)

HasFailed(x, e, i, y) ==
    /\ Released(x, y) /\ y.version = x.version
    /\ \E f : FailureAt(x, e, i, f) /\ GoesOn(x, e, f, i + 1 + Cardinality(Rest(e, i)), y)

IsUnknown(x, e, i, y) ==
    /\ Released(x, y) /\ y.version = x.version
    /\ y.status = "waiting" /\ y.next = x.next
    /\ y.results[i].status = "unknown" /\ y.results[i].version = x.results[i].version
    /\ \A j \in Steps(e) : j # i => y.results[j] = x.results[j]

\* A confirmed action (checkpoint of a success): its result, the version it left,
\* the next action.
LEMMA SucceededRow ==
  ASSUME NEW e \in Executions, NEW x \in RowType(e), NEW i \in Steps(e), NEW v \in Versions
  PROVE  /\ Succeeded(Unlease(x), e, i, v) \in RowType(e)
         /\ HasSucceeded(x, e, i, v, Succeeded(Unlease(x), e, i, v))
  <1> DEFINE u == Unlease(x)
             f == [u.results EXCEPT ![i] = [status |-> "succeeded", version |-> v]]
             g == GoOn(u, e, f, i + 1)
             y == Succeeded(u, e, i, v)
  <1>1. /\ u \in RowType(e) /\ u.results = x.results /\ u.cancel = x.cancel /\ u.lease = NoRunner /\ ~u.live
        /\ u.context = x.context /\ u.evaluation = x.evaluation /\ u.evaluated = x.evaluated
        /\ u.dispatch = x.dispatch
    BY UnleaseRow
  <1>2. x.results \in [Steps(e) -> ResultType]
    BY RowColumns
  <1>3. SuccessAt(x, e, i, v, f)
    BY <1>1, <1>2 DEF SuccessAt, ResultType, ResultStatus
  <1>4. i + 1 \in 1..(Len(Plan[e]) + 1)
    BY PlanSteps
  <1>5. g \in RowType(e) /\ GoesOn(u, e, f, i + 1, g) /\ Kept(u, g)
    <2>1. f \in [Steps(e) -> ResultType]
      BY <1>3 DEF SuccessAt
    <2> HIDE DEF f, u
    <2> QED
      BY <1>1, <1>4, <2>1, GoOnRow
  <1>6. GoesOn(x, e, f, i + 1, g)
    BY <1>1, <1>5 DEF GoesOn
  <1>7. y = [g EXCEPT !.version = v]
    BY DEF Succeeded
  <1>8. y \in RowType(e)
    BY <1>5, <1>7 DEF RowType
  <1>9. /\ y.version = v /\ y.results = g.results /\ y.next = g.next /\ y.status = g.status
        /\ y.context = g.context /\ y.evaluation = g.evaluation /\ y.evaluated = g.evaluated
        /\ y.cancel = g.cancel /\ y.lease = g.lease /\ y.live = g.live /\ y.dispatch = g.dispatch
    BY <1>5, <1>7 DEF RowType
  <1>10. GoesOn(x, e, f, i + 1, y)
    BY <1>6, <1>9 DEF GoesOn
  <1>11. Released(x, y)
    <2> HIDE DEF y, g, u
    <2> QED
      BY <1>1, <1>5, <1>9 DEF Released, Kept
  <1> QED
    BY <1>3, <1>8, <1>9, <1>10, <1>11 DEF HasSucceeded

\* A refused action: its result and those of the steps that depend on it
\* (aut_failure_policy.go).
LEMMA FailedRow ==
  ASSUME NEW e \in Executions, NEW x \in RowType(e), NEW i \in Steps(e)
  PROVE  /\ Failed(Unlease(x), e, i) \in RowType(e)
         /\ HasFailed(x, e, i, Failed(Unlease(x), e, i))
  <1> DEFINE u == Unlease(x)
             h == Mark(u.results, {i}, "failed")
             f == Mark(h, Rest(e, i), "dependent")
             n == i + 1 + Cardinality(Rest(e, i))
             y == Failed(u, e, i)
  <1>1. /\ u \in RowType(e) /\ u.results = x.results /\ u.cancel = x.cancel /\ u.lease = NoRunner /\ ~u.live
        /\ u.context = x.context /\ u.evaluation = x.evaluation /\ u.evaluated = x.evaluated
        /\ u.dispatch = x.dispatch /\ u.version = x.version
    BY UnleaseRow
  <1>2. x.results \in [Steps(e) -> ResultType]
    BY RowColumns
  <1>3. "failed" \in ResultStatus /\ "dependent" \in ResultStatus
    BY DEF ResultStatus
  <1>4. /\ h \in [Steps(e) -> ResultType]
        /\ h[i] = [status |-> "failed", version |-> 0]
        /\ \A j \in Steps(e) : j # i => h[j] = x.results[j]
    BY <1>1, <1>2, <1>3, MarkResults
  <1>5. Rest(e, i) \subseteq Steps(e) /\ i \notin Rest(e, i)
    BY PlanSteps DEF Rest, Steps
  <1>6. FailureAt(x, e, i, f)
    <2>1. /\ f \in [Steps(e) -> ResultType]
          /\ \A j \in Steps(e) : j \in Rest(e, i) => f[j] = [status |-> "dependent", version |-> 0]
          /\ \A j \in Steps(e) : j \notin Rest(e, i) => f[j] = h[j]
      <3> HIDE DEF h
      <3> QED
        BY <1>3, <1>4, MarkResults
    <2> HIDE DEF f, h
    <2> QED
      BY <2>1, <1>4, <1>5 DEF FailureAt
  <1>7. n \in 1..(Len(Plan[e]) + 1)
    BY PlanSteps, RestFollows
  <1>8. y = GoOn(u, e, f, n)
    BY DEF Failed, Rest
  <1>9. y \in RowType(e) /\ GoesOn(u, e, f, n, y) /\ Kept(u, y) /\ y.version = u.version
    <2>1. f \in [Steps(e) -> ResultType]
      BY <1>6 DEF FailureAt
    <2> HIDE DEF f, u, n, y
    <2> QED
      BY <1>1, <1>7, <1>8, <2>1, GoOnRow
  <1>10. GoesOn(x, e, f, n, y)
    BY <1>1, <1>9 DEF GoesOn
  <1>11. Released(x, y) /\ y.version = x.version
    <2> HIDE DEF y, u
    <2> QED
      BY <1>1, <1>9 DEF Released, Kept
  <1> QED
    BY <1>6, <1>9, <1>10, <1>11 DEF HasFailed

\* An action nobody knows the outcome of: it is repeated later.
LEMMA UnknownRow ==
  ASSUME NEW e \in Executions, NEW x \in RowType(e), NEW i \in Steps(e)
  PROVE  /\ Unknown(Unlease(x), i) \in RowType(e)
         /\ IsUnknown(x, e, i, Unknown(Unlease(x), i))
  <1> DEFINE u == Unlease(x)
             y == Unknown(u, i)
  <1>1. /\ u \in RowType(e) /\ u.results = x.results /\ u.cancel = x.cancel /\ u.lease = NoRunner /\ ~u.live
        /\ u.context = x.context /\ u.evaluation = x.evaluation /\ u.evaluated = x.evaluated
        /\ u.dispatch = x.dispatch
    BY UnleaseRow
  <1>0. u.version = x.version /\ u.next = x.next
    BY UnleaseRow
  <1>2. x.results \in [Steps(e) -> ResultType] /\ u.results \in [Steps(e) -> ResultType]
    BY <1>1, RowColumns
  <1> HIDE DEF u
  <1>3. y = [u EXCEPT !.results = [u.results EXCEPT ![i].status = "unknown"], !.status = "waiting"]
    BY DEF Unknown
  <1>4. [u.results EXCEPT ![i].status = "unknown"] \in [Steps(e) -> ResultType]
    <2> DEFINE old == u.results[i]
               new == [u.results[i] EXCEPT !.status = "unknown"]
    <2>1. old \in [status : ResultStatus, version : Versions \cup {0}]
      BY <1>2 DEF ResultType
    <2>2. new \in [status : ResultStatus, version : Versions \cup {0}]
      BY <2>1 DEF ResultStatus
    <2>3. [u.results EXCEPT ![i] = new] \in [Steps(e) -> ResultType]
      BY <1>2, <2>2 DEF ResultType
    <2> QED
      BY <2>3
  <1>5. y \in RowType(e)
    BY <1>1, <1>3, <1>4 DEF RowType, ResultType, ActiveStatus
  <1>12. y.version = u.version /\ y.next = u.next /\ y.status = "waiting"
    BY <1>1, <1>3 DEF RowType
  <1>6. /\ y.results = [u.results EXCEPT ![i].status = "unknown"]
        /\ y.context = u.context /\ y.evaluation = u.evaluation /\ y.evaluated = u.evaluated
        /\ y.cancel = u.cancel /\ y.lease = u.lease /\ y.live = u.live /\ y.dispatch = u.dispatch
    BY <1>1, <1>3 DEF RowType
  <1>7. Released(x, y)
    <2> HIDE DEF y
    <2> QED
      BY <1>1, <1>6 DEF Released
  <1>8. y.results[i].status = "unknown" /\ y.results[i].version = x.results[i].version
    BY <1>1, <1>2, <1>6 DEF ResultType
  <1>9. \A j \in Steps(e) : j # i => y.results[j] = x.results[j]
    BY <1>1, <1>2, <1>6
  <1>10. y.version = x.version /\ y.status = "waiting" /\ y.next = x.next
    BY <1>0, <1>12
  <1>11. IsUnknown(x, e, i, y)
    <2> HIDE DEF y
    <2> QED
      BY <1>7, <1>8, <1>9, <1>10 DEF IsUnknown
  <1> QED
    BY <1>5, <1>11 DEF u

(***************************************************************************)
(* Processes and requests.                                                 *)
(***************************************************************************)
RunnerType ==
    [pc : {"idle", "send", "wait", "record", "evaluate"},
     command : Commands \cup (Executions \X {0}) \cup {Edit},
     version : Versions \cup {0}, reconciling : BOOLEAN,
     answer : {"", "ok", "refused", "unknown", "matched", "no_match", "failed"},
     output : Versions \cup {0}]

RequestType ==
    [command : Commands, version : Versions, by : Runners \cup {NoRunner}, checked : BOOLEAN]

\* What a process that is at work holds: the command or the evaluation of a claim.
RunnerShape(w) ==
    /\ w.pc = "idle" => w.command = Edit
    /\ w.pc # "idle" => w.version \in Versions
    /\ w.pc \in {"send", "wait"} => w.command \in Commands
    /\ w.pc = "evaluate" => w.command \in Executions \X {0}
    /\ w.pc = "record" =>
          \/ w.command \in Commands /\ w.answer \in {"ok", "refused", "unknown"}
          \/ w.command \in Executions \X {0}
             /\ w.answer \in {"matched", "no_match", "failed", "unknown"}

RunnersShape ==
    /\ runner \in [Runners -> RunnerType]
    /\ \A r \in Runners : RunnerShape(runner[r])

\* A request somebody waits for is the only one, and the one that was sent; what could
\* not be compiled is not sent.
FlightShape ==
    /\ flight \subseteq RequestType
    /\ \A q \in flight : Kind(q.command) # "invalid"
    /\ \A q \in flight : q.by # NoRunner =>
          /\ runner[q.by].pc = "wait"
          /\ runner[q.by].command = q.command
          /\ runner[q.by].version = q.version
    /\ \A q, p \in flight : q.by = p.by /\ q.by # NoRunner => q = p

\* A process that hears an answer keeps its command.
LEMMA HearsAnswer ==
  ASSUME RunnersShape, NEW r \in Runners, runner[r].command \in Commands, runner[r].pc # "idle",
         NEW answer \in {"ok", "refused", "unknown"}, NEW output \in Versions \cup {0},
         Hear(r, answer, output)
  PROVE  /\ RunnersShape'
         /\ \A s \in Runners : s # r => runner'[s] = runner[s]
         /\ runner'[r].pc = "record" /\ runner'[r].answer = answer /\ runner'[r].output = output
         /\ \A s \in Runners : /\ runner'[s].command = runner[s].command
                               /\ runner'[s].version = runner[s].version
                               /\ runner'[s].reconciling = runner[s].reconciling
  <1> DEFINE w == runner[r]
             v == [w EXCEPT !.pc = "record", !.answer = answer, !.output = output]
  <1>1. w \in RunnerType /\ w.version \in Versions
    BY DEF RunnersShape, RunnerShape
  <1>2. runner' = [runner EXCEPT ![r] = v]
    BY DEF Hear
  <1>3. v \in RunnerType
    BY <1>1 DEF RunnerType
  <1>4. /\ v.pc = "record" /\ v.answer = answer /\ v.output = output
        /\ v.command = w.command /\ v.version = w.version /\ v.reconciling = w.reconciling
    BY <1>1 DEF RunnerType
  <1>5. RunnerShape(v)
    <2> HIDE DEF v
    <2> QED
      BY <1>1, <1>4 DEF RunnerShape
  <1>6. runner'[r] = v /\ \A s \in Runners : s # r => runner'[s] = runner[s]
    BY <1>2 DEF RunnersShape
  <1>7. runner' \in [Runners -> RunnerType]
    BY <1>2, <1>3 DEF RunnersShape
  <1>8. \A s \in Runners : RunnerShape(runner'[s])
    BY <1>5, <1>6 DEF RunnersShape
  <1>9. RunnersShape'
    BY <1>7, <1>8 DEF RunnersShape, RunnerShape, RunnerType, Commands, Versions, Steps, Edit
  <1> HIDE DEF v
  <1> QED
    BY <1>4, <1>6, <1>9

\* A process that takes up or drops work leaves the others alone.
LEMMA RunnerWritten ==
  ASSUME RunnersShape, NEW r \in Runners, NEW v \in RunnerType, RunnerShape(v),
         runner' = [runner EXCEPT ![r] = v]
  PROVE  /\ RunnersShape'
         /\ runner'[r] = v
         /\ \A s \in Runners : s # r => runner'[s] = runner[s]
  <1>1. runner'[r] = v /\ \A s \in Runners : s # r => runner'[s] = runner[s]
    BY DEF RunnersShape
  <1>2. runner' \in [Runners -> RunnerType]
    BY DEF RunnersShape
  <1>3. \A s \in Runners : RunnerShape(runner'[s])
    BY <1>1 DEF RunnersShape
  <1>4. RunnersShape'
    BY <1>2, <1>3 DEF RunnersShape, RunnerShape, RunnerType, Commands, Versions, Steps, Edit
  <1> QED
    BY <1>1, <1>4

\* An idle process.
LEMMA IdleShape == Idle \in RunnerType /\ RunnerShape(Idle) /\ Idle.command = Edit /\ Idle.pc = "idle"
  BY DEF Idle, RunnerType, RunnerShape

\* The request q, when nobody waits for it any more.
Orphan(p, q) ==
    p \in RequestType /\ p.by = NoRunner /\ p.command = q.command /\ p.version = q.version

\* The way of a request to its end.  A process that waits for one waits for no other.
LEMMA RequestEnds ==
  ASSUME RunnersShape, FlightShape, NEW q \in flight,
         \A p \in flight' : (p \in flight /\ p # q) \/ Orphan(p, q),
         NEW answer \in {"ok", "refused", "unknown"}, NEW output \in Versions \cup {0},
         \/ q.by # NoRunner /\ Hear(q.by, answer, output)
         \/ q.by = NoRunner /\ runner' = runner
  PROVE  /\ RunnersShape' /\ FlightShape'
         /\ \A s \in Runners : /\ runner'[s].command = runner[s].command
                               /\ runner'[s].version = runner[s].version
                               /\ runner'[s].reconciling = runner[s].reconciling
         /\ \A s \in Runners : s # q.by => runner'[s] = runner[s]
         /\ q.by # NoRunner =>
               /\ q.by \in Runners
               /\ runner'[q.by].pc = "record" /\ runner'[q.by].answer = answer
               /\ runner'[q.by].output = output
         /\ \A p \in flight' : \E o \in flight :
               /\ o.command = p.command /\ o.version = p.version
               /\ p.by # NoRunner => o = p
  <1>1. q \in RequestType /\ q.by \in Runners \cup {NoRunner}
    BY DEF FlightShape, RequestType
  <1>2. q.by # NoRunner =>
          q.by \in Runners /\ runner[q.by].pc = "wait" /\ runner[q.by].command = q.command
    BY <1>1 DEF FlightShape
  <1>3. q.command \in Commands
    BY <1>1 DEF RequestType
  <1>4. /\ RunnersShape'
        /\ \A s \in Runners : /\ runner'[s].command = runner[s].command
                              /\ runner'[s].version = runner[s].version
                              /\ runner'[s].reconciling = runner[s].reconciling
        /\ \A s \in Runners : s # q.by => runner'[s] = runner[s]
        /\ q.by # NoRunner =>
              /\ q.by \in Runners
              /\ runner'[q.by].pc = "record" /\ runner'[q.by].answer = answer
              /\ runner'[q.by].output = output
    <2>1. CASE q.by # NoRunner
      BY <2>1, <1>2, <1>3, HearsAnswer
    <2>2. CASE q.by = NoRunner
      BY <2>2 DEF RunnersShape, RunnerShape, RunnerType, Commands, Versions, Steps, Edit
    <2> QED
      BY <2>1, <2>2
  <1>5. \A p \in flight' : \E o \in flight :
          /\ o.command = p.command /\ o.version = p.version
          /\ p.by # NoRunner => o = p
    BY DEF Orphan
  <1>6. \A p \in flight' : p.by # NoRunner => p \in flight /\ p # q
    BY DEF Orphan
  <1>7. \A p \in flight' : p.by # NoRunner => p.by # q.by /\ p.by \in Runners
    BY <1>6 DEF FlightShape, RequestType
  <1>8. flight' \subseteq RequestType
    BY DEF FlightShape, Orphan
  <1>9. FlightShape'
    <2>1. \A p \in flight' : Kind(p.command) # "invalid"
      BY <1>5 DEF FlightShape
    <2>2. \A p \in flight' : p.by # NoRunner =>
            /\ runner'[p.by].pc = "wait"
            /\ runner'[p.by].command = p.command
            /\ runner'[p.by].version = p.version
      BY <1>4, <1>6, <1>7 DEF FlightShape
    <2>3. \A o, p \in flight' : o.by = p.by /\ o.by # NoRunner => o = p
      BY <1>6 DEF FlightShape
    <2> QED
      BY <1>8, <2>1, <2>2, <2>3 DEF FlightShape, RequestType, Commands, Versions, Steps, Kind
  <1> QED
    BY <1>4, <1>5, <1>9

\* The numbers up to n.
LEMMA UpTo ==
  ASSUME NEW n \in Nat
  PROVE  IsFiniteSet(1..n) /\ Cardinality(1..n) = n
  BY FS_Interval

(***************************************************************************)
(* Receipts and the versions of the conversation.                          *)
(***************************************************************************)
ReceiptType == [input : Versions, output : Versions]

\* Every change of the conversation is an edit or has its receipt, and no command
\* changes it twice.
ChangesShape ==
    /\ receipt \in [Commands -> ReceiptType \cup {NoReceipt}]
    /\ changes \in Seq(Commands \cup {Edit})
    /\ \A k \in DOMAIN changes : changes[k] # Edit =>
          changes[k] \in Commands /\ Kind(changes[k]) = "change" /\ receipt[changes[k]] # NoReceipt
    /\ \A c \in Commands : Kind(c) = "change" /\ receipt[c] # NoReceipt =>
          \E k \in DOMAIN changes : changes[k] = c
    /\ \A k, m \in DOMAIN changes : changes[k] = changes[m] /\ changes[k] # Edit => k = m
    /\ Cardinality({k \in DOMAIN changes : changes[k] = Edit}) <= MaxEdits

\* A receipt is not the absence of one.
LEMMA ReceiptIsOne == \A z \in ReceiptType : z # NoReceipt
  BY AbsentAssumption DEF ReceiptType

\* There are no more versions than edits and receipts.
LEMMA ChangesBound ==
  ASSUME ChangesShape
  PROVE  /\ Len(changes) \in Nat
         /\ IsFiniteSet({c \in Commands : receipt[c] # NoReceipt})
         /\ Cardinality({c \in Commands : receipt[c] # NoReceipt}) \in Nat
         /\ Len(changes) <= MaxEdits + Cardinality({c \in Commands : receipt[c] # NoReceipt})
  <1> DEFINE D == DOMAIN changes
             E == {k \in D : changes[k] = Edit}
             N == D \ E
             R == {c \in Commands : receipt[c] # NoReceipt}
             f == [k \in N |-> changes[k]]
  <1>1. Len(changes) \in Nat /\ D = 1..Len(changes)
    BY DEF ChangesShape
  <1>2. IsFiniteSet(D) /\ Cardinality(D) = Len(changes)
    BY <1>1, UpTo
  <1>3. IsFiniteSet(R) /\ Cardinality(R) \in Nat
    <2>1. R \in SUBSET Commands
      OBVIOUS
    <2> QED
      BY <2>1, VersionNumbers
  <1>4. IsFiniteSet(E) /\ Cardinality(E) \in Nat /\ Cardinality(E) <= MaxEdits
    <2>1. E \in SUBSET D /\ Cardinality(E) <= MaxEdits
      BY DEF ChangesShape
    <2> HIDE DEF D, E
    <2> QED
      BY <1>2, <2>1, FS_Subset, FS_CardinalityType
  <1>5. IsFiniteSet(N) /\ Cardinality(N) \in Nat /\ Cardinality(N) = Len(changes) - Cardinality(E)
    <2>1. D \cap E = E
      OBVIOUS
    <2>2. IsFiniteSet(D \ E) /\ Cardinality(D \ E) = Cardinality(D) - Cardinality(D \cap E)
      <3> HIDE DEF D, E
      <3> QED
        BY <1>2, FS_Difference
    <2> HIDE DEF E, D
    <2> QED
      BY <1>2, <2>1, <2>2, FS_CardinalityType
  <1>6. Cardinality(N) <= Cardinality(R)
    <2>1. f \in [N -> R]
      BY DEF ChangesShape
    <2>2. \A x, y \in N : x # y => f[x] # f[y]
      BY DEF ChangesShape
    <2>3. ASSUME Cardinality(R) < Cardinality(N) PROVE FALSE
      <3> HIDE DEF N, R, f
      <3> QED
        BY <1>3, <1>5, <2>1, <2>2, <2>3, FS_PigeonHole
    <2> HIDE DEF N, R
    <2> QED
      BY <1>3, <1>5, <2>3
  <1> HIDE DEF N, R, E, D
  <1>7. Len(changes) <= MaxEdits + Cardinality(R)
    BY <1>1, <1>3, <1>4, <1>5, <1>6, BoundsAssumption
  <1> QED
    BY <1>1, <1>3, <1>7 DEF R

\* The version of the conversation, and the next one as long as a command is left.
LEMMA VersionBound ==
  ASSUME ChangesShape
  PROVE  /\ Version \in Versions
         /\ \A c \in Commands : receipt[c] = NoReceipt => Version + 1 \in Versions
  <1> DEFINE R == {c \in Commands : receipt[c] # NoReceipt}
  <1>1. /\ Len(changes) \in Nat /\ Cardinality(R) \in Nat
        /\ Len(changes) <= MaxEdits + Cardinality(R)
    BY ChangesBound
  <1>2. /\ FactVersion \in Nat /\ MaxEdits \in Nat /\ Cardinality(Commands) \in Nat
    BY VersionAssumption, BoundsAssumption, CommandsFinite
  <1>3. Cardinality(R) <= Cardinality(Commands)
    <2>1. R \in SUBSET Commands
      OBVIOUS
    <2> HIDE DEF R
    <2> QED
      BY <2>1, CommandsFinite, FS_Subset
  <1>4. Version \in Versions
    <2> HIDE DEF R
    <2>1. Version \in Nat /\ FactVersion <= Version /\ Version <= FactVersion + (MaxEdits + Cardinality(Commands))
      BY <1>1, <1>2, <1>3 DEF Version
    <2> QED
      BY <2>1, VersionNumbers
  <1>5. ASSUME NEW c \in Commands, receipt[c] = NoReceipt PROVE Version + 1 \in Versions
    <2>1. R \in SUBSET (Commands \ {c})
      BY <1>5
    <2>2. /\ IsFiniteSet(Commands \ {c})
          /\ Cardinality(Commands \ {c}) = Cardinality(Commands) - 1
      BY CommandsFinite, FS_RemoveElement
    <2> HIDE DEF R
    <2>3. Cardinality(R) <= Cardinality(Commands) - 1
      BY <2>1, <2>2, FS_Subset
    <2>4. Version + 1 \in Nat /\ FactVersion <= Version + 1 /\ Version + 1 <= FactVersion + (MaxEdits + Cardinality(Commands))
      BY <1>1, <1>2, <2>3 DEF Version
    <2> QED
      BY <2>4, VersionNumbers
  <1> QED
    BY <1>4, <1>5

\* A command takes effect.
LEMMA PerformedChanges ==
  ASSUME ChangesShape, NEW c \in Commands, receipt[c] = NoReceipt, NEW z \in ReceiptType,
         receipt' = [receipt EXCEPT ![c] = z],
         changes' = IF Kind(c) = "change" THEN Append(changes, c) ELSE changes
  PROVE  ChangesShape'
  <1>1. z # NoReceipt
    BY ReceiptIsOne
  <1>2. /\ receipt' \in [Commands -> ReceiptType \cup {NoReceipt}]
        /\ receipt'[c] = z
        /\ \A d \in Commands : d # c => receipt'[d] = receipt[d]
    BY DEF ChangesShape
  <1>3. CASE Kind(c) # "change"
    <2>1. changes' = changes
      BY <1>3
    <2>2. \A k \in DOMAIN changes : changes[k] # Edit => changes[k] # c
      BY <1>3 DEF ChangesShape
    <2>3. \A k \in DOMAIN changes : changes[k] # Edit =>
            changes[k] \in Commands /\ Kind(changes[k]) = "change" /\ receipt'[changes[k]] # NoReceipt
      BY <1>2, <2>2 DEF ChangesShape
    <2>4. \A d \in Commands : Kind(d) = "change" /\ receipt'[d] # NoReceipt =>
            \E k \in DOMAIN changes : changes[k] = d
      BY <1>2, <1>3 DEF ChangesShape
    <2>5. /\ changes \in Seq(Commands \cup {Edit})
          /\ \A k, m \in DOMAIN changes : changes[k] = changes[m] /\ changes[k] # Edit => k = m
          /\ Cardinality({k \in DOMAIN changes : changes[k] = Edit}) <= MaxEdits
      BY DEF ChangesShape
    <2>6. receipt' \in [Commands -> ReceiptType \cup {NoReceipt}]
      BY <1>2
    <2>7. {k \in DOMAIN changes' : changes'[k] = Edit} = {k \in DOMAIN changes : changes[k] = Edit}
      BY <2>1
    <2>8. Cardinality({k \in DOMAIN changes' : changes'[k] = Edit}) <= MaxEdits
      BY <2>5, <2>7
    <2>9. /\ changes' \in Seq(Commands \cup {Edit})
          /\ \A k, m \in DOMAIN changes' : changes'[k] = changes'[m] /\ changes'[k] # Edit => k = m
          /\ \A k \in DOMAIN changes' : changes'[k] # Edit =>
               changes'[k] \in Commands /\ Kind(changes'[k]) = "change" /\ receipt'[changes'[k]] # NoReceipt
          /\ \A d \in Commands : Kind(d) = "change" /\ receipt'[d] # NoReceipt =>
               \E k \in DOMAIN changes' : changes'[k] = d
      BY <2>1, <2>3, <2>4, <2>5
    <2> QED
      BY <2>6, <2>8, <2>9 DEF ChangesShape
  <1>4. CASE Kind(c) = "change"
    <2> DEFINE n == Len(changes) + 1
    <2>1. /\ changes' = Append(changes, c) /\ Len(changes) \in Nat
          /\ changes \in Seq(Commands \cup {Edit})
          /\ DOMAIN changes = 1..Len(changes)
      BY <1>4 DEF ChangesShape
    <2>2. /\ changes' \in Seq(Commands \cup {Edit})
          /\ DOMAIN changes' = 1..n
          /\ changes'[n] = c
          /\ \A k \in DOMAIN changes : changes'[k] = changes[k]
      BY <2>1
    <2>3. \A k \in DOMAIN changes' : k = n \/ k \in DOMAIN changes
      BY <2>1, <2>2
    <2>4. \A k \in DOMAIN changes : changes[k] # c
      BY NotACommand DEF ChangesShape
    <2>5. \A k \in DOMAIN changes' : changes'[k] # Edit =>
            changes'[k] \in Commands /\ Kind(changes'[k]) = "change" /\ receipt'[changes'[k]] # NoReceipt
      BY <1>1, <1>2, <1>4, <2>2, <2>3, <2>4 DEF ChangesShape
    <2>6. \A d \in Commands : Kind(d) = "change" /\ receipt'[d] # NoReceipt =>
            \E k \in DOMAIN changes' : changes'[k] = d
      <3> SUFFICES ASSUME NEW d \in Commands, Kind(d) = "change", receipt'[d] # NoReceipt
                   PROVE  \E k \in DOMAIN changes' : changes'[k] = d
        OBVIOUS
      <3>1. CASE d = c
        BY <3>1, <2>1, <2>2
      <3>2. CASE d # c
        <4>1. PICK k \in DOMAIN changes : changes[k] = d
          BY <3>2, <1>2 DEF ChangesShape
        <4> QED
          BY <4>1, <2>1, <2>2
      <3> QED
        BY <3>1, <3>2
    <2>7. \A k, m \in DOMAIN changes' : changes'[k] = changes'[m] /\ changes'[k] # Edit => k = m
      BY <2>2, <2>3, <2>4 DEF ChangesShape
    <2>8. {k \in DOMAIN changes' : changes'[k] = Edit} = {k \in DOMAIN changes : changes[k] = Edit}
      <3>1. changes'[n] # Edit
        BY <2>2, NotACommand
      <3>2. \A k \in DOMAIN changes : k \in DOMAIN changes'
        BY <2>1, <2>2
      <3> QED
        BY <2>2, <2>3, <3>1, <3>2
    <2>9. Cardinality({k \in DOMAIN changes' : changes'[k] = Edit}) <= MaxEdits
      BY <2>8 DEF ChangesShape
    <2> HIDE DEF n
    <2> QED
      BY <1>2, <2>2, <2>5, <2>6, <2>7, <2>9 DEF ChangesShape, Commands, Steps, ReceiptType, Versions, Kind
  <1> QED
    BY <1>3, <1>4

\* Somebody edits the conversation.
LEMMA EditedChanges ==
  ASSUME ChangesShape, HumanChange
  PROVE  ChangesShape'
  <1> DEFINE n == Len(changes) + 1
             E == {k \in DOMAIN changes : changes[k] = Edit}
  <1>1. /\ changes' = Append(changes, Edit) /\ receipt' = receipt
        /\ Cardinality(E) < MaxEdits
    BY DEF HumanChange, Edits
  <1>2. /\ Len(changes) \in Nat
        /\ changes \in Seq(Commands \cup {Edit})
        /\ DOMAIN changes = 1..Len(changes)
    BY DEF ChangesShape
  <1>3. /\ changes' \in Seq(Commands \cup {Edit})
        /\ DOMAIN changes' = 1..n
        /\ changes'[n] = Edit
        /\ \A k \in DOMAIN changes : changes'[k] = changes[k] /\ k \in DOMAIN changes'
        /\ \A k \in DOMAIN changes' : k = n \/ k \in DOMAIN changes
    BY <1>1, <1>2
  <1>4. {k \in DOMAIN changes' : changes'[k] = Edit} = E \cup {n}
    BY <1>2, <1>3
  <1>5. IsFiniteSet(E) /\ Cardinality(E) \in Nat
    <2>1. E \in SUBSET (1..Len(changes)) /\ IsFiniteSet(1..Len(changes))
      BY <1>2, UpTo
    <2> HIDE DEF E
    <2> QED
      BY <2>1, FS_Subset, FS_CardinalityType
  <1>6. Cardinality(E \cup {n}) <= MaxEdits
    <2>1. Cardinality(E \cup {n}) = IF n \in E THEN Cardinality(E) ELSE Cardinality(E) + 1
      <3> HIDE DEF E, n
      <3> QED
        BY <1>5, FS_AddElement
    <2> HIDE DEF E, n
    <2> QED
      BY <1>1, <1>5, <2>1, BoundsAssumption DEF E
  <1>7. Cardinality({k \in DOMAIN changes' : changes'[k] = Edit}) <= MaxEdits
    BY <1>4, <1>6
  <1>8. \A k \in DOMAIN changes' : changes'[k] # Edit =>
          changes'[k] \in Commands /\ Kind(changes'[k]) = "change" /\ receipt[changes'[k]] # NoReceipt
    BY <1>3 DEF ChangesShape
  <1>9. \A d \in Commands : Kind(d) = "change" /\ receipt[d] # NoReceipt =>
          \E k \in DOMAIN changes' : changes'[k] = d
    BY <1>3 DEF ChangesShape
  <1>10. \A k, m \in DOMAIN changes' : changes'[k] = changes'[m] /\ changes'[k] # Edit => k = m
    BY <1>3 DEF ChangesShape
  <1>11. receipt' \in [Commands -> ReceiptType \cup {NoReceipt}]
    BY <1>1 DEF ChangesShape
  <1> HIDE DEF n, E
  <1> QED
    BY <1>1, <1>3, <1>7, <1>8, <1>9, <1>10, <1>11
    DEF ChangesShape, Commands, Steps, ReceiptType, Versions, Kind

(***************************************************************************)
(* The steps of the owners.                                                *)
(***************************************************************************)
Shape ==
    /\ RowsType
    /\ RunnersShape
    /\ FlightShape
    /\ ChangesShape
    /\ faults \in 0..MaxFaults

\* The request takes effect: its receipt says what it expected and what it left.
Performs(q) ==
    /\ receipt[q.command] = NoReceipt
    /\ Kind(q.command) = "change" => q.version = Version
    /\ \E z \in ReceiptType :
          /\ z.input = q.version
          /\ z.output = IF Kind(q.command) = "change" THEN q.version + 1 ELSE q.version
          /\ receipt' = [receipt EXCEPT ![q.command] = z]
    /\ changes' = IF Kind(q.command) = "change" THEN Append(changes, q.command) ELSE changes

NothingDone == receipt' = receipt /\ changes' = changes

\* What the process that waits for the request hears.
Hearing(q) ==
    /\ runner'[q.by].pc = "record"
    /\ runner'[q.by].answer \in {"ok", "refused", "unknown"}
    /\ runner'[q.by].answer = "ok" =>
          /\ receipt'[q.command] # NoReceipt
          /\ receipt'[q.command].input = q.version
          /\ receipt'[q.command].output = runner'[q.by].output
    /\ runner'[q.by].answer # "unknown" => \A p \in flight' : p \in flight /\ p # q

\* A step of an owner: who hears what, which requests are left, what is done.
OwnerEffect(q) ==
    /\ row' = row
    /\ \A s \in Runners : /\ runner'[s].command = runner[s].command
                          /\ runner'[s].version = runner[s].version
                          /\ runner'[s].reconciling = runner[s].reconciling
    /\ \A s \in Runners : s # q.by => runner'[s] = runner[s]
    /\ runner' = runner \/ (q.by \in Runners /\ Hearing(q))
    /\ \A p \in flight' : \E o \in flight :
          /\ o.command = p.command /\ o.version = p.version
          /\ o.by = p.by \/ (o = q /\ q.by \in Runners /\ p.by = NoRunner /\ Hearing(q))
    /\ \/ Performs(q) /\ (q.by # NoRunner => Hearing(q) /\ runner'[q.by].answer # "refused")
       \/ NothingDone

\* A request, and what the process that waits for it holds.
LEMMA RequestFields ==
  ASSUME FlightShape, NEW q \in flight
  PROVE  /\ q \in RequestType /\ q.command \in Commands /\ q.version \in Versions
         /\ q.by \in Runners \cup {NoRunner}
         /\ Kind(q.command) # "invalid"
         /\ q.by # NoRunner => /\ runner[q.by].pc = "wait" /\ runner[q.by].command = q.command
                               /\ runner[q.by].version = q.version
  BY DEF FlightShape, RequestType

\* An answer ends the request.
LEMMA AnswerEnds ==
  ASSUME Shape, NEW q \in flight, row' = row,
         NEW answer \in {"ok", "refused"}, NEW output \in Versions \cup {0},
         Answer(q, answer, output),
         answer = "ok" => /\ receipt'[q.command] # NoReceipt
                          /\ receipt'[q.command].input = q.version
                          /\ receipt'[q.command].output = output,
         \/ Performs(q) /\ answer = "ok"
         \/ NothingDone
  PROVE  OwnerEffect(q) /\ RunnersShape' /\ FlightShape' /\ faults' \in 0..MaxFaults
  <1>1. RunnersShape /\ FlightShape /\ faults \in 0..MaxFaults
    BY DEF Shape
  <1>2. \A p \in flight' : p \in flight /\ p # q
    BY DEF Answer
  <1>3. faults' \in 0..MaxFaults
    BY <1>1, BoundsAssumption DEF Answer
  <1>4. \E a \in {answer, "unknown"}, o \in {output, 0} :
          /\ a = answer => o = output
          /\ \/ q.by # NoRunner /\ Hear(q.by, a, o)
             \/ q.by = NoRunner /\ runner' = runner
    BY DEF Answer
  <1>5. PICK a \in {answer, "unknown"}, o \in {output, 0} :
          /\ a = answer => o = output
          /\ \/ q.by # NoRunner /\ Hear(q.by, a, o)
             \/ q.by = NoRunner /\ runner' = runner
    BY <1>4
  <1>6. a \in {"ok", "refused", "unknown"} /\ o \in Versions \cup {0}
    BY <1>5
  <1>7. /\ RunnersShape' /\ FlightShape'
        /\ \A s \in Runners : /\ runner'[s].command = runner[s].command
                              /\ runner'[s].version = runner[s].version
                              /\ runner'[s].reconciling = runner[s].reconciling
        /\ \A s \in Runners : s # q.by => runner'[s] = runner[s]
        /\ q.by # NoRunner =>
              /\ q.by \in Runners
              /\ runner'[q.by].pc = "record" /\ runner'[q.by].answer = a
              /\ runner'[q.by].output = o
        /\ \A p \in flight' : \E b \in flight :
              /\ b.command = p.command /\ b.version = p.version
              /\ p.by # NoRunner => b = p
    BY <1>1, <1>2, <1>5, <1>6, RequestEnds
  <1>8. /\ runner' = runner \/ (q.by \in Runners /\ Hearing(q))
        /\ q.by # NoRunner => Hearing(q)
    BY <1>2, <1>5, <1>7 DEF Hearing
  <1>9. \/ Performs(q) /\ (q.by # NoRunner => Hearing(q) /\ runner'[q.by].answer # "refused")
        \/ NothingDone
    BY <1>5, <1>7, <1>8
  <1>10. OwnerEffect(q)
    BY <1>2, <1>7, <1>8, <1>9 DEF OwnerEffect
  <1> QED
    BY <1>3, <1>7, <1>10

\* What each step of an owner does.
LEMMA OwnerStep ==
  ASSUME Shape, NEW q \in flight, Owner(q)
  PROVE  OwnerEffect(q) /\ Shape'
  <1>1. /\ RowsType /\ RunnersShape /\ FlightShape /\ ChangesShape
        /\ faults \in 0..MaxFaults
    BY DEF Shape
  <1>2. /\ q \in RequestType /\ q.command \in Commands /\ q.version \in Versions
        /\ q.by \in Runners \cup {NoRunner}
    BY <1>1, RequestFields
  <1>3. ASSUME OwnerEffect(q) PROVE RowsType'
    BY <1>1, <1>3 DEF OwnerEffect, RowsType, RowType, Steps, Versions, Commands
  <1>4. ASSUME receipt' = receipt, changes' = changes PROVE ChangesShape'
    BY <1>1, <1>4 DEF ChangesShape
  <1>5. CASE Ask(q)
    <2> DEFINE p == [q EXCEPT !.checked = TRUE]
    <2>1. /\ flight' = (flight \ {q}) \cup {p}
          /\ row' = row /\ runner' = runner /\ receipt' = receipt /\ changes' = changes
          /\ faults' = faults
      BY <1>5 DEF Ask
    <2>2. p \in RequestType /\ p.command = q.command /\ p.version = q.version /\ p.by = q.by
      BY <1>2 DEF RequestType
    <2>3. \A o \in flight' : \E b \in flight :
            b.command = o.command /\ b.version = o.version /\ b.by = o.by /\ (o # p => o = b)
      <3> HIDE DEF p
      <3> QED
        BY <2>1, <2>2
    <2>4. OwnerEffect(q)
      BY <2>1, <2>3 DEF OwnerEffect, NothingDone
    <2>5. FlightShape'
      <3>1. \A o \in flight' : Kind(o.command) # "invalid"
        BY <2>3, <1>1 DEF FlightShape
      <3>2. \A o \in flight' : o.by # NoRunner =>
              /\ runner[o.by].pc = "wait"
              /\ runner[o.by].command = o.command
              /\ runner[o.by].version = o.version
        BY <2>3, <1>1 DEF FlightShape
      <3>3. flight' \subseteq RequestType
        <4> HIDE DEF p
        <4> QED
          BY <2>1, <2>2, <1>1 DEF FlightShape
      <3>4. \A o, b \in flight' : o.by = b.by /\ o.by # NoRunner => o = b
        <4> SUFFICES ASSUME NEW o \in flight', NEW b \in flight', o.by = b.by, o.by # NoRunner
                     PROVE  o = b
          OBVIOUS
        <4>1. o \in flight \ {q} \/ o = p
          BY <2>1
        <4>2. b \in flight \ {q} \/ b = p
          BY <2>1
        <4> HIDE DEF p
        <4> QED
          BY <4>1, <4>2, <2>2, <1>1 DEF FlightShape
      <3> QED
        BY <2>1, <3>1, <3>2, <3>3, <3>4 DEF FlightShape
    <2>6. RunnersShape'
      BY <1>1, <2>1 DEF RunnersShape
    <2> QED
      BY <1>1, <1>3, <1>4, <2>1, <2>4, <2>5, <2>6 DEF Shape
  <1>6. CASE Perform(q)
    <2> DEFINE out == IF Kind(q.command) = "change" THEN Version + 1 ELSE q.version
               z == [input |-> q.version, output |-> out]
    <2>1. /\ receipt[q.command] = NoReceipt /\ Permitted(q)
          /\ receipt' = [receipt EXCEPT ![q.command] = z]
          /\ changes' = IF Kind(q.command) = "change" THEN Append(changes, q.command) ELSE changes
          /\ Answer(q, "ok", out)
          /\ row' = row
      BY <1>6 DEF Perform
    <2>2. Kind(q.command) = "change" => q.version = Version
      BY <2>1 DEF Permitted
    <2>3. out \in Versions
      BY <1>1, <1>2, <2>1, VersionBound
    <2>4. z \in ReceiptType /\ z.input = q.version /\ z.output = out
      BY <1>2, <2>3 DEF ReceiptType
    <2>5. z # NoReceipt /\ receipt'[q.command] = z
      BY <1>1, <1>2, <2>1, <2>4, ReceiptIsOne DEF ChangesShape
    <2>6. Performs(q)
      BY <2>1, <2>2, <2>4 DEF Performs
    <2>7. OwnerEffect(q) /\ RunnersShape' /\ FlightShape' /\ faults' \in 0..MaxFaults
      <3> HIDE DEF out, z
      <3> QED
        BY <2>1, <2>3, <2>4, <2>5, <2>6, AnswerEnds
    <2>8. ChangesShape'
      <3> HIDE DEF z
      <3> QED
        BY <1>1, <1>2, <2>1, <2>4, PerformedChanges
    <2> QED
      BY <1>3, <2>7, <2>8 DEF Shape
  <1>7. CASE Replay(q)
    <2>1. /\ receipt[q.command] # NoReceipt /\ row' = row /\ NothingDone
          /\ IF receipt[q.command].input = q.version
             THEN Answer(q, "ok", receipt[q.command].output) ELSE Answer(q, "refused", 0)
      BY <1>7 DEF Replay, NothingDone
    <2>2. receipt[q.command] \in ReceiptType /\ receipt[q.command].output \in Versions
      BY <1>1, <1>2, <2>1 DEF ChangesShape, ReceiptType
    <2>3. OwnerEffect(q) /\ RunnersShape' /\ FlightShape' /\ faults' \in 0..MaxFaults
      <3>1. CASE receipt[q.command].input = q.version
        <4> DEFINE out == receipt[q.command].output
        <4>1. /\ receipt'[q.command] # NoReceipt /\ receipt'[q.command].input = q.version
              /\ receipt'[q.command].output = out
          BY <2>1, <3>1 DEF NothingDone
        <4>2. Answer(q, "ok", out) /\ out \in Versions \cup {0}
          BY <2>1, <2>2, <3>1
        <4> HIDE DEF out
        <4> QED
          BY <2>1, <4>1, <4>2, AnswerEnds
      <3>2. CASE receipt[q.command].input # q.version
        BY <2>1, <3>2, AnswerEnds
      <3> QED
        BY <3>1, <3>2
    <2> QED
      BY <1>3, <1>4, <2>1, <2>3 DEF Shape, NothingDone
  <1>8. CASE Refuse(q)
    <2>1. row' = row /\ NothingDone /\ Answer(q, "refused", 0)
      BY <1>8 DEF Refuse, NothingDone
    <2>2. OwnerEffect(q) /\ RunnersShape' /\ FlightShape' /\ faults' \in 0..MaxFaults
      BY <2>1, AnswerEnds
    <2> QED
      BY <1>3, <1>4, <2>1, <2>2 DEF Shape, NothingDone
  <1>9. ASSUME q.by # NoRunner, faults < MaxFaults, faults' = faults + 1,
               row' = row, NothingDone,
               \A p \in flight' : (p \in flight /\ p # q) \/ Orphan(p, q),
               Hear(q.by, "unknown", 0)
        PROVE  OwnerEffect(q) /\ Shape'
    <2>1. /\ RunnersShape' /\ FlightShape'
          /\ \A s \in Runners : /\ runner'[s].command = runner[s].command
                                /\ runner'[s].version = runner[s].version
                                /\ runner'[s].reconciling = runner[s].reconciling
          /\ \A s \in Runners : s # q.by => runner'[s] = runner[s]
          /\ q.by # NoRunner =>
                /\ q.by \in Runners
                /\ runner'[q.by].pc = "record" /\ runner'[q.by].answer = "unknown"
                /\ runner'[q.by].output = 0
          /\ \A p \in flight' : \E b \in flight :
                /\ b.command = p.command /\ b.version = p.version
                /\ p.by # NoRunner => b = p
      <3> DEFINE answer == "unknown"
      <3>1. answer \in {"ok", "refused", "unknown"} /\ 0 \in Versions \cup {0} /\ Hear(q.by, answer, 0)
        BY <1>9
      <3> QED
        BY <1>1, <1>9, <3>1, RequestEnds
    <2>2. Hearing(q) /\ q.by \in Runners
      BY <1>9, <2>1 DEF Hearing
    <2>3. OwnerEffect(q)
      BY <1>9, <2>1, <2>2 DEF OwnerEffect, Orphan
    <2>4. faults' \in 0..MaxFaults
      BY <1>1, <1>9, BoundsAssumption
    <2> QED
      BY <1>3, <1>4, <1>9, <2>1, <2>3, <2>4 DEF Shape, NothingDone
  <1>10. CASE RefuseUnseen(q)
    <2>1. row' = row /\ NothingDone /\ Answer(q, "refused", 0)
      BY <1>10 DEF RefuseUnseen, NothingDone
    <2>2. OwnerEffect(q) /\ RunnersShape' /\ FlightShape' /\ faults' \in 0..MaxFaults
      BY <2>1, AnswerEnds
    <2> QED
      BY <1>3, <1>4, <2>1, <2>2 DEF Shape, NothingDone
  <1>11. CASE GiveUp(q)
    <2> DEFINE o == [q EXCEPT !.by = NoRunner]
    <2>1. /\ q.by # NoRunner /\ faults < MaxFaults /\ faults' = faults + 1 /\ row' = row
          /\ NothingDone /\ flight' = (flight \ {q}) \cup {o} /\ Hear(q.by, "unknown", 0)
      BY <1>11 DEF GiveUp, NothingDone
    <2>2. o \in RequestType /\ o.by = NoRunner /\ o.command = q.command /\ o.version = q.version
      BY <1>2 DEF RequestType
    <2> HIDE DEF o
    <2>3. \A p \in flight' : (p \in flight /\ p # q) \/ Orphan(p, q)
      BY <2>1, <2>2 DEF Orphan
    <2> QED
      BY <1>9, <2>1, <2>3
  <1> QED
    BY <1>5, <1>6, <1>7, <1>8, <1>10, <1>11 DEF Owner

(***************************************************************************)
(* What the steps write into a row.                                        *)
(***************************************************************************)

\* The checkpoint of an execution, and what it was admitted with.
SameProgress(x, y) ==
    /\ y.next = x.next /\ y.version = x.version
    /\ y.results = x.results /\ y.dispatch = x.dispatch

SameOrigin(x, y) ==
    /\ y.context = x.context
    /\ y.evaluation = x.evaluation /\ y.evaluated = x.evaluated

SameLease(x, y) == y.lease = x.lease /\ y.live = x.live /\ y.cancel = x.cancel
NoLease(x, y) == y.lease = NoRunner /\ ~y.live /\ y.cancel = x.cancel

IsQuarantined(x, y) ==
    /\ SameProgress(x, y) /\ SameOrigin(x, y) /\ SameLease(x, y)
    /\ y.status = "manual_action_required"

\* A checkpoint that proves nothing is set aside, and nothing else is written.
LEMMA QuarantinedRow ==
  ASSUME NEW e \in Executions, NEW x \in RowType(e), NEW y,
         y = [x EXCEPT !.status = "manual_action_required"]
  PROVE  y \in RowType(e) /\ IsQuarantined(x, y)
  BY DEF RowType, FinalStatus, IsQuarantined, SameProgress, SameOrigin, SameLease

\* The actions in S are set aside.
IsCancelled(x, e, S, y) ==
    /\ y.status = "cancelled"
    /\ y.next = x.next /\ y.version = x.version /\ y.dispatch = x.dispatch
    /\ y.results \in [Steps(e) -> ResultType]
    /\ \A i \in Steps(e) : i \in S => y.results[i] = [status |-> "cancelled", version |-> 0]
    /\ \A i \in Steps(e) : i \notin S => y.results[i] = x.results[i]
    /\ SameOrigin(x, y) /\ SameLease(x, y)

\* Actions that are set aside by a cancellation.
LEMMA CancelledRow ==
  ASSUME NEW e \in Executions, NEW x \in RowType(e), NEW S, NEW y,
         y = [x EXCEPT !.status = "cancelled", !.results = Mark(x.results, S, "cancelled")]
  PROVE  y \in RowType(e) /\ IsCancelled(x, e, S, y)
  <1> DEFINE f == Mark(x.results, S, "cancelled")
  <1>1. x.results \in [Steps(e) -> ResultType] /\ "cancelled" \in ResultStatus
    BY RowColumns DEF ResultStatus
  <1>2. /\ f \in [Steps(e) -> ResultType]
        /\ \A i \in Steps(e) : i \in S => f[i] = [status |-> "cancelled", version |-> 0]
        /\ \A i \in Steps(e) : i \notin S => f[i] = x.results[i]
    BY <1>1, MarkResults
  <1> HIDE DEF f
  <1>3. y = [x EXCEPT !.status = "cancelled", !.results = f]
    BY DEF f
  <1>4. y \in RowType(e)
    BY <1>2, <1>3 DEF RowType, ResultType, FinalStatus
  <1>5. y.results = f /\ y.status = "cancelled" /\ SameOrigin(x, y) /\ SameLease(x, y)
        /\ y.next = x.next /\ y.version = x.version /\ y.dispatch = x.dispatch
    BY <1>3 DEF RowType, SameOrigin, SameLease
  <1> QED
    BY <1>2, <1>4, <1>5 DEF IsCancelled

\* A lease is taken and nothing else is done yet.
IsLeased(x, r, y) ==
    /\ SameProgress(x, y) /\ SameOrigin(x, y)
    /\ y.status = x.status /\ y.cancel = x.cancel
    /\ y.lease = r /\ y.live

\* A lease that is taken for an evaluation.
LEMMA LeasedRow ==
  ASSUME NEW e \in Executions, NEW x \in RowType(e), NEW r \in Runners, NEW y,
         y = [x EXCEPT !.lease = r, !.live = TRUE]
  PROVE  y \in RowType(e) /\ IsLeased(x, r, y)
  BY DEF RowType, IsLeased, SameProgress, SameOrigin

\* An action is accepted at the version v, its command frozen with the version f.
IsAccepted(x, e, r, v, f, y) ==
    /\ y.status = "running" /\ y.next = x.next /\ y.version = v
    /\ SameOrigin(x, y) /\ y.cancel = x.cancel
    /\ y.lease = r /\ y.live
    /\ Kind(<<e, x.next>>) = "invalid" => y.results = x.results /\ y.dispatch = x.dispatch
    /\ Kind(<<e, x.next>>) # "invalid" =>
          /\ y.results[x.next].status = "accepted"
          /\ y.results[x.next].version = x.results[x.next].version
          /\ y.dispatch[x.next] = f
    /\ \A i \in Steps(e) : i # x.next => y.results[i] = x.results[i] /\ y.dispatch[i] = x.dispatch[i]

\* An action that is accepted, and its frozen command (prepareAutomationDispatch).
LEMMA AcceptedRow ==
  ASSUME RowsType, NEW e \in Executions, NEW r \in Runners, row[e].next \in Steps(e),
         StartVersion(e) \in Versions, Frozen(e) \in Versions
  PROVE  /\ Accepted(e, r) \in RowType(e)
         /\ IsAccepted(row[e], e, r, StartVersion(e), Frozen(e), Accepted(e, r))
  <1> DEFINE x == row[e]
             n == x.next
             v == StartVersion(e)
             f == Frozen(e)
             y == Accepted(e, r)
  <1>1. /\ x \in RowType(e) /\ n \in Steps(e)
        /\ x.results \in [Steps(e) -> ResultType]
        /\ x.dispatch \in [Steps(e) -> Versions \cup {0}]
    BY RowColumns DEF RowsType
  <1>2. Kind(<<e, n>>) = Plan[e][n].kind
    BY DEF Kind
  <1> HIDE DEF x, n, v, f
  <1>3. CASE Plan[e][n].kind = "invalid"
    <2>1. y = [x EXCEPT !.status = "running", !.lease = r, !.live = TRUE, !.version = v,
                        !.dispatch[n] = x.dispatch[n], !.results[n].status = x.results[n].status]
      BY <1>3 DEF Accepted, x, n, v
    <2>2. [x.dispatch EXCEPT ![n] = x.dispatch[n]] = x.dispatch
      BY <1>1
    <2>3. [x.results EXCEPT ![n].status = x.results[n].status] = x.results
      <3>1. x.results[n] \in ResultType
        BY <1>1
      <3>2. [x.results[n] EXCEPT !.status = x.results[n].status] = x.results[n]
        BY <3>1 DEF ResultType
      <3> QED
        BY <1>1, <3>2
    <2>4. y = [x EXCEPT !.status = "running", !.lease = r, !.live = TRUE, !.version = v,
                        !.dispatch = [x.dispatch EXCEPT ![n] = x.dispatch[n]],
                        !.results = [x.results EXCEPT ![n].status = x.results[n].status]]
      BY <2>1
    <2>5. y = [x EXCEPT !.status = "running", !.lease = r, !.live = TRUE, !.version = v,
                        !.dispatch = x.dispatch, !.results = x.results]
      BY <2>2, <2>3, <2>4
    <2>6. v \in Versions
      BY DEF v
    <2>7. y \in RowType(e)
      BY <1>1, <2>5, <2>6 DEF RowType, ActiveStatus
    <2>8. /\ y.status = "running" /\ y.next = n /\ y.version = v
          /\ y.lease = r /\ y.results = x.results /\ y.dispatch = x.dispatch
      BY <1>1, <2>5 DEF RowType, n
    <2>9. SameOrigin(x, y) /\ y.cancel = x.cancel /\ y.live
      BY <1>1, <2>5 DEF RowType, SameOrigin
    <2>10. n = x.next
      BY DEF n
    <2>11. IsAccepted(x, e, r, v, f, y)
      <3> HIDE DEF y
      <3> QED
        BY <1>2, <1>3, <2>8, <2>9, <2>10 DEF IsAccepted
    <2> QED
      BY <2>7, <2>11 DEF x, v, f
  <1>4. CASE Plan[e][n].kind # "invalid"
    <2> DEFINE d == [x.dispatch EXCEPT ![n] = f]
               g == [x.results EXCEPT ![n] = [x.results[n] EXCEPT !.status = "accepted"]]
    <2>1. y = [x EXCEPT !.status = "running", !.lease = r, !.live = TRUE, !.version = v,
                        !.dispatch = d, !.results = g]
      BY <1>4 DEF Accepted, x, n, v, f
    <2>2. v \in Versions /\ f \in Versions
      BY DEF v, f
    <2>3. d \in [Steps(e) -> Versions \cup {0}] /\ d[n] = f
          /\ \A i \in Steps(e) : i # n => d[i] = x.dispatch[i]
      BY <1>1, <2>2
    <2>4. /\ g \in [Steps(e) -> ResultType]
          /\ g[n].status = "accepted" /\ g[n].version = x.results[n].version
          /\ \A i \in Steps(e) : i # n => g[i] = x.results[i]
      <3> DEFINE old == x.results[n]
                 new == [old EXCEPT !.status = "accepted"]
      <3>1. old \in [status : ResultStatus, version : Versions \cup {0}]
        BY <1>1 DEF ResultType
      <3>2. /\ new \in [status : ResultStatus, version : Versions \cup {0}]
            /\ new.status = "accepted" /\ new.version = old.version
        BY <3>1 DEF ResultStatus
      <3> HIDE DEF new
      <3>3. g = [x.results EXCEPT ![n] = new]
        BY DEF new
      <3> QED
        BY <1>1, <3>2, <3>3 DEF ResultType
    <2> HIDE DEF d, g
    <2>5. y \in RowType(e)
      BY <1>1, <2>1, <2>2, <2>3, <2>4 DEF RowType, ResultType, ActiveStatus
    <2>6. /\ y.status = "running" /\ y.next = n /\ y.version = v
          /\ y.lease = r /\ y.results = g /\ y.dispatch = d
      BY <1>1, <2>1 DEF RowType, n
    <2>7. SameOrigin(x, y) /\ y.cancel = x.cancel /\ y.live
      BY <1>1, <2>1 DEF RowType, SameOrigin
    <2>8. n = x.next
      BY DEF n
    <2>9. IsAccepted(x, e, r, v, f, y)
      <3> HIDE DEF y
      <3> QED
        BY <1>2, <1>4, <2>3, <2>4, <2>6, <2>7, <2>8 DEF IsAccepted
    <2> QED
      BY <2>5, <2>9 DEF x, v, f
  <1> QED
    BY <1>3, <1>4

\* The decision about deferred conditions.
IsDecided(x, answer, v, y) ==
    /\ y.next = x.next /\ y.results = x.results /\ y.dispatch = x.dispatch
    /\ NoLease(x, y)
    /\ \/ /\ answer = "unknown"
          /\ y.status = x.status /\ y.version = x.version /\ SameOrigin(x, y)
       \/ /\ answer # "unknown"
          /\ y.evaluation = answer /\ y.evaluated = v
          /\ \/ answer = "matched" /\ y.status = "received" /\ y.context /\ y.version = FactVersion
             \/ /\ \/ answer = "matched" /\ y.status \in {"failed", "succeeded"}
                   \/ answer # "matched" /\ y.status = answer
                /\ y.context = x.context /\ y.version = x.version

\* A decision about deferred conditions (completeAutomationSiblingEvaluation).
LEMMA DecidedRow ==
  ASSUME NEW e \in Executions, NEW x \in RowType(e), NEW v \in Versions,
         NEW answer \in {"matched", "no_match", "failed", "unknown"},
         NEW y \in Decisions(x, answer, v)
  PROVE  y \in RowType(e) /\ IsDecided(x, answer, v, y)
  <1> DEFINE u == Unlease(x)
             z == [u EXCEPT !.evaluation = answer, !.evaluated = v]
  <1>1. /\ u \in RowType(e)
        /\ u.lease = NoRunner /\ ~u.live
        /\ u.results = x.results /\ u.dispatch = x.dispatch
        /\ u.cancel = x.cancel /\ u.context = x.context
        /\ u.evaluation = x.evaluation /\ u.evaluated = x.evaluated
    BY UnleaseRow
  <1>2. u.status = x.status /\ u.next = x.next /\ u.version = x.version
    BY UnleaseRow
  <1> HIDE DEF u
  <1>3. CASE answer = "unknown"
    <2>1. y = u
      BY <1>3 DEF Decisions, u
    <2>2. SameOrigin(x, y) /\ NoLease(x, y)
      BY <1>1, <2>1 DEF SameOrigin, NoLease
    <2>3. y.next = x.next /\ y.results = x.results /\ y.dispatch = x.dispatch
          /\ y.status = x.status /\ y.version = x.version
      BY <1>1, <1>2, <2>1
    <2> QED
      BY <1>1, <1>3, <2>1, <2>2, <2>3 DEF IsDecided
  <1>4. ASSUME answer # "unknown"
        PROVE  /\ z \in RowType(e) /\ z.evaluation = answer /\ z.evaluated = v
               /\ z.next = x.next /\ z.results = x.results /\ z.dispatch = x.dispatch
               /\ z.version = x.version /\ z.context = x.context /\ NoLease(x, z)
    <2>1. z \in RowType(e) /\ z.evaluation = answer /\ z.evaluated = v
      BY <1>1, <1>4 DEF RowType
    <2>2. z.next = u.next /\ z.results = u.results /\ z.dispatch = u.dispatch /\ z.version = u.version
      BY <1>1 DEF RowType
    <2>3. z.context = u.context /\ z.lease = u.lease /\ z.live = u.live /\ z.cancel = u.cancel
      BY <1>1 DEF RowType
    <2>4. z.context = x.context /\ NoLease(x, z)
      <3> HIDE DEF z
      <3> QED
        BY <1>1, <2>3 DEF NoLease
    <2> QED
      BY <1>1, <1>2, <2>1, <2>2, <2>4
  <1>5. CASE answer = "matched"
    <2>1. \/ y = [z EXCEPT !.context = TRUE, !.status = "received", !.version = FactVersion]
          \/ y = [z EXCEPT !.status = "failed"]
          \/ y = [z EXCEPT !.status = "succeeded"]
      BY <1>5 DEF Decisions, u
    <2>2. /\ z \in RowType(e) /\ z.evaluation = answer /\ z.evaluated = v
          /\ z.next = x.next /\ z.results = x.results /\ z.dispatch = x.dispatch
          /\ z.version = x.version /\ z.context = x.context /\ NoLease(x, z)
      BY <1>4, <1>5
    <2> HIDE DEF z
    <2>3. CASE y = [z EXCEPT !.context = TRUE, !.status = "received", !.version = FactVersion]
      <3>1. y \in RowType(e)
        BY <2>2, <2>3, VersionNumbers DEF RowType, ActiveStatus
      <3>2. /\ y.context /\ y.status = "received" /\ y.version = FactVersion
            /\ y.evaluation = z.evaluation /\ y.evaluated = z.evaluated
            /\ y.next = z.next /\ y.results = z.results /\ y.dispatch = z.dispatch
        BY <2>2, <2>3 DEF RowType
      <3>3. y.lease = z.lease /\ y.live = z.live /\ y.cancel = z.cancel
        BY <2>2, <2>3 DEF RowType
      <3>4. NoLease(x, y)
        BY <2>2, <3>3 DEF NoLease
      <3> QED
        BY <1>5, <2>2, <3>1, <3>2, <3>4 DEF IsDecided
    <2>4. CASE y = [z EXCEPT !.status = "failed"] \/ y = [z EXCEPT !.status = "succeeded"]
      <3>1. y \in RowType(e) /\ y.status \in {"failed", "succeeded"}
        BY <2>2, <2>4 DEF RowType, FinalStatus
      <3>2. /\ y.version = z.version
            /\ y.evaluation = z.evaluation /\ y.evaluated = z.evaluated
            /\ y.next = z.next /\ y.results = z.results /\ y.dispatch = z.dispatch
        BY <2>2, <2>4 DEF RowType
      <3>3. y.lease = z.lease /\ y.live = z.live /\ y.cancel = z.cancel /\ y.context = z.context
        BY <2>2, <2>4 DEF RowType
      <3>4. NoLease(x, y) /\ y.context = x.context
        BY <2>2, <3>3 DEF NoLease
      <3> QED
        BY <1>5, <2>2, <3>1, <3>2, <3>4 DEF IsDecided
    <2> QED
      BY <2>1, <2>3, <2>4
  <1>6. CASE answer \in {"no_match", "failed"}
    <2>1. y = [z EXCEPT !.status = answer]
      BY <1>6 DEF Decisions, u
    <2>2. /\ z \in RowType(e) /\ z.evaluation = answer /\ z.evaluated = v
          /\ z.next = x.next /\ z.results = x.results /\ z.dispatch = x.dispatch
          /\ z.version = x.version /\ z.context = x.context /\ NoLease(x, z)
      BY <1>4, <1>6
    <2> HIDE DEF z
    <2>3. y \in RowType(e) /\ y.status = answer
      BY <1>6, <2>1, <2>2 DEF RowType, FinalStatus
    <2>4. /\ y.version = z.version
          /\ y.evaluation = z.evaluation /\ y.evaluated = z.evaluated
          /\ y.next = z.next /\ y.results = z.results /\ y.dispatch = z.dispatch
      BY <2>1, <2>2 DEF RowType
    <2>5. y.lease = z.lease /\ y.live = z.live /\ y.cancel = z.cancel /\ y.context = z.context
      BY <2>1, <2>2 DEF RowType
    <2>6. NoLease(x, y) /\ y.context = x.context
      BY <2>2, <2>5 DEF NoLease
    <2> QED
      BY <1>6, <2>2, <2>3, <2>4, <2>6 DEF IsDecided
  <1> QED
    BY <1>3, <1>5, <1>6

\* A cancellation that is only noted.
IsAsked(x, y) ==
    /\ SameProgress(x, y) /\ SameOrigin(x, y)
    /\ y.status = x.status /\ y.lease = x.lease /\ y.live = x.live /\ y.cancel = TRUE

\* One that ends an evaluation.
IsDropped(x, y) ==
    /\ SameProgress(x, y) /\ SameOrigin(x, y) /\ NoLease(x, y)
    /\ y.status = "cancelled"

PendingSteps(x) == {i \in DOMAIN x.results : x.results[i].status = "pending"}

\* A cancellation: asked for, at once, or of an evaluation
\* (cancelAutomationExecution).
LEMMA CancelRow ==
  ASSUME NEW e \in Executions, NEW x \in RowType(e), NEW y, y = Cancelled(x)
  PROVE  /\ y \in RowType(e)
         /\ \/ x.status \in {"running", "waiting"} /\ IsAsked(x, y)
            \/ x.status \notin {"running", "waiting"} /\ x.context /\ IsCancelled(x, e, PendingSteps(x), y)
            \/ x.status \notin {"running", "waiting"} /\ ~x.context /\ IsDropped(x, y)
  <1>1. CASE x.status \in {"running", "waiting"}
    <2>1. y = [x EXCEPT !.cancel = TRUE]
      BY <1>1 DEF Cancelled
    <2>2. y \in RowType(e) /\ IsAsked(x, y)
      BY <2>1 DEF RowType, IsAsked, SameProgress, SameOrigin
    <2> QED
      BY <1>1, <2>2
  <1>2. CASE x.status \notin {"running", "waiting"} /\ x.context
    <2>1. y = [x EXCEPT !.status = "cancelled", !.results = Mark(x.results, PendingSteps(x), "cancelled")]
      BY <1>2 DEF Cancelled, CancelledNow, PendingSteps
    <2>2. y \in RowType(e) /\ IsCancelled(x, e, PendingSteps(x), y)
      BY <2>1, CancelledRow
    <2> QED
      BY <1>2, <2>2
  <1>3. CASE x.status \notin {"running", "waiting"} /\ ~x.context
    <2> DEFINE u == Unlease(x)
    <2>1. y = [u EXCEPT !.status = "cancelled"]
      BY <1>3 DEF Cancelled, CancelledNow
    <2>2. u \in RowType(e) /\ u.lease = NoRunner /\ ~u.live /\ u.cancel = x.cancel /\ SameOrigin(x, u)
      BY UnleaseRow DEF SameOrigin
    <2>3. SameProgress(x, u)
      BY UnleaseRow DEF SameProgress
    <2> HIDE DEF u
    <2>4. y \in RowType(e) /\ y.status = "cancelled"
      BY <2>1, <2>2 DEF RowType, FinalStatus
    <2>5. SameProgress(x, y)
      BY <2>1, <2>2, <2>3 DEF RowType, SameProgress
    <2>6. y.lease = u.lease /\ y.live = u.live /\ y.cancel = u.cancel /\ y.context = u.context
          /\ y.evaluation = u.evaluation /\ y.evaluated = u.evaluated
      BY <2>1, <2>2 DEF RowType
    <2>7. NoLease(x, y) /\ SameOrigin(x, y)
      BY <2>2, <2>6 DEF NoLease, SameOrigin
    <2> QED
      BY <1>3, <2>4, <2>5, <2>7 DEF IsDropped
  <1> QED
    BY <1>1, <1>2, <1>3

\* A lease that has run out.
IsExpired(x, y) ==
    /\ SameProgress(x, y) /\ SameOrigin(x, y)
    /\ y.status = x.status /\ y.lease = x.lease /\ ~y.live /\ y.cancel = x.cancel

\* A lease that runs out.
LEMMA ExpiredRow ==
  ASSUME NEW e \in Executions, NEW x \in RowType(e), NEW y, y = [x EXCEPT !.live = FALSE]
  PROVE  y \in RowType(e) /\ IsExpired(x, y)
  BY DEF RowType, IsExpired, SameProgress, SameOrigin

(***************************************************************************)
(* Effects of the steps of the runner.                                     *)
(***************************************************************************)

\* A step writes the row of e and no other.
OnlyRow(e) ==
    /\ row' = [p \in Executions |-> row'[p]]
    /\ row'[e] \in RowType(e)
    /\ \A p : p # e => row'[p] = row[p]

OwnersKept == flight' = flight /\ receipt' = receipt /\ changes' = changes
ElseKept == runner' = runner /\ OwnersKept

\* Writing one row of the right shape keeps the shape of all.
LEMMA OnlyRowTypes ==
  ASSUME RowsType, NEW e \in Executions, OnlyRow(e)
  PROVE  RowsType'
  <1>1. \A p \in Executions : row'[p] \in RowType(p)
    BY DEF OnlyRow, RowsType
  <1> QED
    BY <1>1 DEF OnlyRow, RowsType, RowType, Steps, Versions, Commands

\* An update of one row writes that row only.
LEMMA WritesOnlyRow ==
  ASSUME RowsType, NEW e \in Executions, NEW y \in RowType(e), row' = [row EXCEPT ![e] = y]
  PROVE  OnlyRow(e) /\ row'[e] = y
  BY RowWritten DEF OnlyRow

\* What the rows before an execution tell is a version; it is given out only when
\* all of them prove it.
LEMMA BaseVersion ==
  ASSUME NEW e \in Executions
  PROVE  /\ Base(e) \in Versions /\ Base(e) # 0
         /\ PredecessorVersion(e) # 0 <=> \A p \in 1..(e - 1) : Proves(p)
         /\ PredecessorVersion(e) # 0 => PredecessorVersion(e) = Base(e)
  <1> DEFINE S == {c \in Commands : c[1] < e /\ c[2] \in Confirmed(row[c[1]], c[1], row[c[1]].next - 1)}
  <1>1. S \in SUBSET Commands
    OBVIOUS
  <1>2. Base(e) = FactVersion + Cardinality(S)
    BY DEF Base
  <1>3. Base(e) \in Versions /\ Base(e) # 0
    <2> HIDE DEF S
    <2> QED
      BY <1>1, <1>2, VersionNumbers
  <1> QED
    BY <1>3 DEF PredecessorVersion

\* What setting a checkpoint aside reads and writes.
LEMMA QuarantineEffect ==
  ASSUME RowsType, NEW r, NEW e \in Executions, Quarantine(r, e)
  PROVE  /\ OnlyRow(e) /\ IsQuarantined(row[e], row'[e]) /\ ElseKept /\ faults' = faults
         /\ Turn(r, e)
         /\ IF row[e].context THEN ~Trusted(e) ELSE PredecessorVersion(e) = 0
  <1> DEFINE y == [row[e] EXCEPT !.status = "manual_action_required"]
  <1>1. row' = [row EXCEPT ![e] = y]
    BY DEF Quarantine
  <1>2. y \in RowType(e) /\ IsQuarantined(row[e], y)
    BY QuarantinedRow DEF RowsType
  <1>3. OnlyRow(e) /\ row'[e] = y
    <2> HIDE DEF y
    <2> QED
      BY <1>1, <1>2, WritesOnlyRow
  <1> QED
    BY <1>2, <1>3 DEF Quarantine, ElseKept, OwnersKept

\* What ending a cancelled execution reads and writes.
LEMMA CancelRestEffect ==
  ASSUME RowsType, NEW r, NEW e \in Executions, CancelRest(r, e)
  PROVE  /\ OnlyRow(e) /\ ElseKept /\ faults' = faults
         /\ IsCancelled(row[e], e, row[e].next..Len(Plan[e]), row'[e])
         /\ Turn(r, e) /\ row[e].context /\ Trusted(e) /\ row[e].cancel
         /\ row[e].results[row[e].next].status = "pending"
  <1> DEFINE S == row[e].next..Len(Plan[e])
             y == [row[e] EXCEPT !.status = "cancelled", !.results = Mark(row[e].results, S, "cancelled")]
  <1>1. row' = [row EXCEPT ![e] = y]
    BY DEF CancelRest
  <1>2. y \in RowType(e) /\ IsCancelled(row[e], e, S, y)
    <2> HIDE DEF S
    <2> QED
      BY CancelledRow DEF RowsType
  <1>3. OnlyRow(e) /\ row'[e] = y
    <2> HIDE DEF y
    <2> QED
      BY <1>1, <1>2, WritesOnlyRow
  <1> QED
    BY <1>2, <1>3 DEF CancelRest, CancelNow, Result, ElseKept, OwnersKept

\* What claiming an evaluation reads and writes.
LEMMA ClaimEvaluationEffect ==
  ASSUME RowsType, RunnersShape, NEW r \in Runners, NEW e \in Executions, ClaimEvaluation(r, e)
  PROVE  /\ OnlyRow(e) /\ IsLeased(row[e], r, row'[e]) /\ OwnersKept /\ faults' = faults
         /\ Turn(r, e) /\ ~row[e].context /\ PredecessorVersion(e) # 0
         /\ RunnersShape'
         /\ runner'[r].pc = "evaluate" /\ runner'[r].command = <<e, 0>>
         /\ runner'[r].version = PredecessorVersion(e)
         /\ \A s \in Runners : s # r => runner'[s] = runner[s]
  <1> DEFINE y == [row[e] EXCEPT !.lease = r, !.live = TRUE]
             v == PredecessorVersion(e)
             w == [Idle EXCEPT !.pc = "evaluate", !.command = <<e, 0>>, !.version = v]
  <1>1. row' = [row EXCEPT ![e] = y] /\ runner' = [runner EXCEPT ![r] = w] /\ v # 0
    BY DEF ClaimEvaluation
  <1>2. y \in RowType(e) /\ IsLeased(row[e], r, y)
    BY LeasedRow DEF RowsType
  <1>3. OnlyRow(e) /\ row'[e] = y
    <2> HIDE DEF y
    <2> QED
      BY <1>1, <1>2, WritesOnlyRow
  <1>4. v \in Versions
    BY <1>1, BaseVersion
  <1>5. w \in RunnerType /\ RunnerShape(w) /\ w.pc = "evaluate" /\ w.command = <<e, 0>> /\ w.version = v
    <2>1. <<e, 0>> \in Executions \X {0}
      OBVIOUS
    <2> HIDE DEF v
    <2> QED
      BY <1>4, <2>1 DEF Idle, RunnerType, RunnerShape
  <1>6. RunnersShape' /\ runner'[r] = w /\ \A s \in Runners : s # r => runner'[s] = runner[s]
    <2> HIDE DEF w
    <2> QED
      BY <1>1, <1>5, RunnerWritten
  <1> QED
    BY <1>2, <1>3, <1>5, <1>6 DEF ClaimEvaluation, OwnersKept

\* What claiming an action reads and writes.
LEMMA ClaimActionEffect ==
  ASSUME RowsType, RunnersShape, NEW r \in Runners, NEW e \in Executions, ClaimAction(r, e)
  PROVE  /\ OnlyRow(e) /\ OwnersKept /\ faults' = faults
         /\ row[e].next \in Steps(e)
         /\ StartVersion(e) \in Versions /\ Frozen(e) \in Versions
         /\ IsAccepted(row[e], e, r, StartVersion(e), Frozen(e), row'[e])
         /\ Turn(r, e) /\ row[e].context /\ Trusted(e) /\ ~CancelNow(e)
         /\ RunnersShape'
         /\ runner'[r].pc = "send" /\ runner'[r].command = <<e, row[e].next>>
         /\ runner'[r].version = Frozen(e)
         /\ runner'[r].reconciling = (row[e].results[row[e].next].status \in {"accepted", "unknown"})
         /\ \A s \in Runners : s # r => runner'[s] = runner[s]
  <1> DEFINE y == Accepted(e, r)
             n == row[e].next
             v == Frozen(e)
             b == Result(e).status \in {"accepted", "unknown"}
             w == [Idle EXCEPT !.pc = "send", !.command = <<e, n>>, !.version = v, !.reconciling = b]
  <1>1. row' = [row EXCEPT ![e] = y] /\ runner' = [runner EXCEPT ![r] = w] /\ Trusted(e)
    BY DEF ClaimAction
  <1>2. n \in Steps(e) /\ PredecessorVersion(e) # 0
    BY <1>1 DEF Trusted, ValidCheckpoint
  <1>3. StartVersion(e) \in Versions
    BY <1>2, BaseVersion, RowColumns DEF StartVersion, RowsType
  <1>4. v \in Versions
    <2>1. row[e].dispatch \in [Steps(e) -> Versions \cup {0}]
      BY RowColumns DEF RowsType
    <2> QED
      BY <1>2, <1>3, <2>1 DEF Frozen
  <1>5. y \in RowType(e) /\ IsAccepted(row[e], e, r, StartVersion(e), v, y)
    <2> HIDE DEF y, v
    <2> QED
      BY <1>2, <1>3, <1>4, AcceptedRow DEF y, v, n
  <1>6. OnlyRow(e) /\ row'[e] = y
    <2> HIDE DEF y
    <2> QED
      BY <1>1, <1>5, WritesOnlyRow
  <1>7. /\ w \in RunnerType /\ RunnerShape(w)
        /\ w.pc = "send" /\ w.command = <<e, n>> /\ w.version = v /\ w.reconciling = b
    <2>1. <<e, n>> \in Commands /\ b \in BOOLEAN
      BY <1>2, CommandPairs
    <2> HIDE DEF v, b, n
    <2> QED
      BY <1>4, <2>1 DEF Idle, RunnerType, RunnerShape
  <1>8. RunnersShape' /\ runner'[r] = w /\ \A s \in Runners : s # r => runner'[s] = runner[s]
    <2> HIDE DEF w
    <2> QED
      BY <1>1, <1>7, RunnerWritten
  <1>9. b = (row[e].results[row[e].next].status \in {"accepted", "unknown"})
    BY DEF Result
  <1>10. /\ OwnersKept /\ faults' = faults
         /\ Turn(r, e) /\ row[e].context /\ Trusted(e) /\ ~CancelNow(e)
    BY DEF ClaimAction, OwnersKept
  <1> QED
    BY <1>2, <1>3, <1>4, <1>5, <1>6, <1>7, <1>8, <1>9, <1>10

\* What Record writes, if it writes.
RecordWrites(r, e, i) ==
    /\ row[e].lease = r
    /\ OnlyRow(e)
    /\ row'[e].status \in FinalStatus => Active(e)
    /\ \/ Confirms(runner[r]) /\ runner[r].output \in Versions
          /\ HasSucceeded(row[e], e, i, runner[r].output, row'[e])
       \/ ~Confirms(runner[r]) /\ Refutes(runner[r]) /\ HasFailed(row[e], e, i, row'[e])
       \/ ~Confirms(runner[r]) /\ ~Refutes(runner[r]) /\ IsUnknown(row[e], e, i, row'[e])

\* What recording an action reads and writes: nothing, unless the lease is still
\* held.
LEMMA RecordEffect ==
  ASSUME RowsType, RunnersShape, NEW r \in Runners, Record(r)
  PROVE  /\ OwnersKept /\ faults' = faults
         /\ RunnersShape' /\ runner'[r] = Idle /\ \A s \in Runners : s # r => runner'[s] = runner[s]
         /\ runner[r].pc = "record" /\ runner[r].command \in Commands
         /\ runner[r].answer \in {"ok", "refused", "unknown"}
         /\ \E e \in Executions : \E i \in Steps(e) :
               /\ runner[r].command = <<e, i>>
               /\ row' = row \/ RecordWrites(r, e, i)
  <1> DEFINE w == runner[r]
             e == w.command[1]
             i == w.command[2]
             x == row[e]
             y == IF Confirms(w) THEN Succeeded(Unlease(x), e, i, w.output)
                  ELSE IF Refutes(w) THEN Failed(Unlease(x), e, i) ELSE Unknown(Unlease(x), i)
  <1>1. /\ w.pc = "record" /\ i # 0
        /\ row' = IF Holds(r, e) /\ (y.status \in FinalStatus => Active(e))
                  THEN [row EXCEPT ![e] = y] ELSE row
        /\ runner' = [runner EXCEPT ![r] = Idle]
        /\ OwnersKept /\ faults' = faults
    BY DEF Record, OwnersKept
  <1>2. w \in RunnerType /\ w.command \in Commands /\ w.answer \in {"ok", "refused", "unknown"} /\ w.version \in Versions
    <2>1. w \in RunnerType /\ RunnerShape(w)
      BY DEF RunnersShape
    <2>2. w.command \notin Executions \X {0}
      BY <1>1
    <2> HIDE DEF w
    <2> QED
      BY <1>1, <2>1, <2>2 DEF RunnerShape, w
  <1>3. e \in Executions /\ i \in Steps(e) /\ w.command = <<e, i>>
    <2> HIDE DEF w
    <2> QED
      BY <1>2, CommandPairs
  <1>4. x \in RowType(e)
    BY <1>3 DEF RowsType
  <1>5. Confirms(w) => w.output \in Versions
    <2>1. w.output \in Versions \cup {0} /\ w.version \in Versions
      BY <1>2 DEF RunnerType
    <2>2. Confirms(w) => w.output = w.version \/ w.output = w.version + 1
      BY DEF Confirms, Advances
    <2> HIDE DEF w
    <2> QED
      BY <2>1, <2>2, VersionNumbers
  <1>6. /\ y \in RowType(e)
        /\ \/ Confirms(w) /\ w.output \in Versions /\ HasSucceeded(x, e, i, w.output, y)
           \/ ~Confirms(w) /\ Refutes(w) /\ HasFailed(x, e, i, y)
           \/ ~Confirms(w) /\ ~Refutes(w) /\ IsUnknown(x, e, i, y)
    <2> HIDE DEF w, e, i, x
    <2>1. CASE Confirms(w)
      BY <1>3, <1>4, <1>5, <2>1, SucceededRow
    <2>2. CASE ~Confirms(w) /\ Refutes(w)
      BY <1>3, <1>4, <2>2, FailedRow
    <2>3. CASE ~Confirms(w) /\ ~Refutes(w)
      BY <1>3, <1>4, <2>3, UnknownRow
    <2> QED
      BY <2>1, <2>2, <2>3
  <1>7. row' = row \/ RecordWrites(r, e, i)
    <2>1. CASE Holds(r, e) /\ (y.status \in FinalStatus => Active(e))
      <3>1. OnlyRow(e) /\ row'[e] = y
        <4>1. row' = [row EXCEPT ![e] = y]
          BY <1>1, <2>1
        <4> HIDE DEF y, e
        <4> QED
          BY <1>3, <1>6, <4>1, WritesOnlyRow
      <3> HIDE DEF y
      <3> QED
        BY <1>6, <2>1, <3>1 DEF RecordWrites, Holds
    <2>2. CASE ~(Holds(r, e) /\ (y.status \in FinalStatus => Active(e)))
      BY <1>1, <2>2
    <2> QED
      BY <2>1, <2>2
  <1>8. RunnersShape' /\ runner'[r] = Idle /\ \A s \in Runners : s # r => runner'[s] = runner[s]
    BY <1>1, IdleShape, RunnerWritten
  <1> HIDE DEF x, y
  <1> QED
    BY <1>1, <1>2, <1>3, <1>7, <1>8

\* What recording a decision reads and writes.
LEMMA DecideEffect ==
  ASSUME RowsType, RunnersShape, NEW r \in Runners, Decide(r)
  PROVE  /\ OwnersKept /\ faults' = faults
         /\ RunnersShape' /\ runner'[r] = Idle /\ \A s \in Runners : s # r => runner'[s] = runner[s]
         /\ runner[r].pc = "record" /\ runner[r].version \in Versions
         /\ \E e \in Executions :
               /\ runner[r].command = <<e, 0>>
               /\ \/ row' = row
                  \/ /\ row[e].lease = r /\ row[e].status = "evaluating"
                     /\ PredecessorVersion(e) = runner[r].version
                     /\ OnlyRow(e)
                     /\ IsDecided(row[e], runner[r].answer, runner[r].version, row'[e])
  <1> DEFINE w == runner[r]
             e == w.command[1]
             x == row[e]
  <1>1. /\ w.pc = "record" /\ w.command[2] = 0
        /\ IF Holds(r, e) /\ x.status = "evaluating" /\ PredecessorVersion(e) = w.version
           THEN \E y \in Decisions(x, w.answer, w.version) : row' = [row EXCEPT ![e] = y]
           ELSE row' = row
        /\ runner' = [runner EXCEPT ![r] = Idle]
        /\ OwnersKept /\ faults' = faults
    BY DEF Decide, OwnersKept
  <1>2. /\ w \in RunnerType /\ w.version \in Versions
        /\ w.command \in Executions \X {0} /\ w.answer \in {"matched", "no_match", "failed", "unknown"}
    <2>1. w \in RunnerType /\ RunnerShape(w)
      BY DEF RunnersShape
    <2>2. w.command \notin Commands
      <3>1. w.command \in Commands => w.command[2] \in Steps(w.command[1])
        BY CommandPairs
      <3> QED
        BY <1>1, <3>1 DEF Steps
    <2> HIDE DEF w
    <2> QED
      BY <1>1, <2>1, <2>2 DEF RunnerShape, w
  <1>3. e \in Executions /\ w.command = <<e, 0>>
    <2> HIDE DEF w
    <2> QED
      BY <1>2
  <1>4. \/ row' = row
        \/ /\ row[e].lease = r /\ row[e].status = "evaluating"
           /\ PredecessorVersion(e) = runner[r].version
           /\ OnlyRow(e)
           /\ IsDecided(row[e], runner[r].answer, runner[r].version, row'[e])
    <2>1. CASE Holds(r, e) /\ x.status = "evaluating" /\ PredecessorVersion(e) = w.version
      <3>1. PICK y \in Decisions(x, w.answer, w.version) : row' = [row EXCEPT ![e] = y]
        BY <1>1, <2>1
      <3>2. x \in RowType(e)
        BY <1>3 DEF RowsType
      <3>3. y \in RowType(e) /\ IsDecided(x, w.answer, w.version, y)
        <4> HIDE DEF w, e, x
        <4> QED
          BY <1>2, <1>3, <3>1, <3>2, DecidedRow
      <3>4. OnlyRow(e) /\ row'[e] = y
        <4> HIDE DEF e
        <4> QED
          BY <1>3, <3>1, <3>3, WritesOnlyRow
      <3> QED
        BY <2>1, <3>3, <3>4 DEF Holds
    <2>2. CASE ~(Holds(r, e) /\ x.status = "evaluating" /\ PredecessorVersion(e) = w.version)
      BY <1>1, <2>2
    <2> QED
      BY <2>1, <2>2
  <1>5. RunnersShape' /\ runner'[r] = Idle /\ \A s \in Runners : s # r => runner'[s] = runner[s]
    BY <1>1, IdleShape, RunnerWritten
  <1> HIDE DEF x
  <1> QED
    BY <1>1, <1>2, <1>3, <1>4, <1>5

\* What a cancellation reads and writes.
LEMMA CancelEffect ==
  ASSUME RowsType, NEW e \in Executions, Cancel(e)
  PROVE  /\ OnlyRow(e) /\ ElseKept /\ faults' = faults
         /\ Active(e)
         /\ \/ row[e].status \in {"running", "waiting"} /\ IsAsked(row[e], row'[e])
            \/ /\ row[e].status \notin {"running", "waiting"} /\ row[e].context
               /\ IsCancelled(row[e], e, PendingSteps(row[e]), row'[e])
            \/ row[e].status \notin {"running", "waiting"} /\ ~row[e].context /\ IsDropped(row[e], row'[e])
  <1> DEFINE y == Cancelled(row[e])
  <1>1. row' = [row EXCEPT ![e] = y]
    BY DEF Cancel
  <1>2. /\ y \in RowType(e)
        /\ \/ row[e].status \in {"running", "waiting"} /\ IsAsked(row[e], y)
           \/ /\ row[e].status \notin {"running", "waiting"} /\ row[e].context
              /\ IsCancelled(row[e], e, PendingSteps(row[e]), y)
           \/ row[e].status \notin {"running", "waiting"} /\ ~row[e].context /\ IsDropped(row[e], y)
    <2>1. row[e] \in RowType(e)
      BY DEF RowsType
    <2> QED
      BY <2>1, CancelRow
  <1>3. OnlyRow(e) /\ row'[e] = y
    <2> HIDE DEF y
    <2> QED
      BY <1>1, <1>2, WritesOnlyRow
  <1>4. Active(e) /\ ElseKept /\ faults' = faults
    BY DEF Cancel, ElseKept, OwnersKept
  <1> HIDE DEF y
  <1> QED
    BY <1>2, <1>3, <1>4

\* What the end of a lease reads and writes.
LEMMA LeaseExpiresEffect ==
  ASSUME RowsType, faults \in 0..MaxFaults, NEW e \in Executions, LeaseExpires(e)
  PROVE  /\ OnlyRow(e) /\ ElseKept /\ faults' \in 0..MaxFaults
         /\ row[e].live /\ IsExpired(row[e], row'[e])
  <1> DEFINE y == [row[e] EXCEPT !.live = FALSE]
  <1>1. row' = [row EXCEPT ![e] = y]
    BY DEF LeaseExpires
  <1>2. y \in RowType(e) /\ IsExpired(row[e], y)
    BY ExpiredRow DEF RowsType
  <1>3. OnlyRow(e) /\ row'[e] = y
    <2> HIDE DEF y
    <2> QED
      BY <1>1, <1>2, WritesOnlyRow
  <1>4. row[e].live /\ ElseKept
    BY DEF LeaseExpires, ElseKept, OwnersKept
  <1>5. faults' \in 0..MaxFaults
    BY BoundsAssumption DEF LeaseExpires
  <1> HIDE DEF y
  <1> QED
    BY <1>2, <1>3, <1>4, <1>5

\* What sending a command reads and writes.
LEMMA SendEffect ==
  ASSUME RunnersShape, FlightShape, NEW r \in Runners, Send(r)
  PROVE  /\ row' = row /\ receipt' = receipt /\ changes' = changes /\ faults' = faults
         /\ RunnersShape' /\ FlightShape'
         /\ runner[r].pc = "send" /\ runner[r].command \in Commands
         /\ runner'[r].command = runner[r].command /\ runner'[r].version = runner[r].version
         /\ runner'[r].reconciling = runner[r].reconciling
         /\ \A s \in Runners : s # r => runner'[s] = runner[s]
         /\ IF Kind(runner[r].command) = "invalid"
            THEN runner'[r].pc = "record" /\ runner'[r].answer = "refused" /\ flight' = flight
            ELSE /\ runner'[r].pc = "wait"
                 /\ \A p \in flight' : p \in flight \/
                       (p.command = runner[r].command /\ p.version = runner[r].version /\ p.by = r)
  <1> DEFINE w == runner[r]
  <1>1. /\ w \in RunnerType /\ RunnerShape(w) /\ w.pc = "send" /\ w.command \in Commands
        /\ w.version \in Versions
    BY DEF Send, RunnersShape, RunnerShape
  <1>2. row' = row /\ receipt' = receipt /\ changes' = changes /\ faults' = faults
    BY DEF Send
  <1>3. \A p \in flight : p.by # r
    <2>1. r # NoRunner
      BY AbsentAssumption
    <2> QED
      BY <1>1, <2>1 DEF FlightShape
  <1>4. CASE Kind(w.command) = "invalid"
    <2>1. Hear(r, "refused", 0) /\ flight' = flight
      BY <1>4 DEF Send
    <2>2. /\ RunnersShape'
          /\ \A s \in Runners : s # r => runner'[s] = runner[s]
          /\ runner'[r].pc = "record" /\ runner'[r].answer = "refused"
          /\ \A s \in Runners : /\ runner'[s].command = runner[s].command
                                /\ runner'[s].version = runner[s].version
                                /\ runner'[s].reconciling = runner[s].reconciling
      BY <1>1, <2>1, HearsAnswer
    <2>3. \A p \in flight : p.by # NoRunner => p.by \in Runners /\ runner'[p.by] = runner[p.by]
      BY <1>3, <2>2 DEF FlightShape, RequestType
    <2>4. FlightShape'
      BY <2>1, <2>3 DEF FlightShape, RequestType, Commands, Versions, Steps, Kind
    <2> QED
      BY <1>1, <1>2, <1>4, <2>1, <2>2, <2>4
  <1>5. CASE Kind(w.command) # "invalid"
    <2> DEFINE v == [w EXCEPT !.pc = "wait"]
               q == [command |-> w.command, version |-> w.version, by |-> r, checked |-> FALSE]
    <2>1. runner' = [runner EXCEPT ![r] = v] /\ flight' = flight \cup {q}
      BY <1>5 DEF Send
    <2>2. /\ v \in RunnerType /\ RunnerShape(v) /\ v.pc = "wait" /\ v.command = w.command
          /\ v.version = w.version /\ v.reconciling = w.reconciling
      BY <1>1 DEF RunnerType, RunnerShape
    <2>3. RunnersShape' /\ runner'[r] = v /\ \A s \in Runners : s # r => runner'[s] = runner[s]
      <3> HIDE DEF v
      <3> QED
        BY <2>1, <2>2, RunnerWritten
    <2>4. q \in RequestType /\ q.command = w.command /\ q.version = w.version /\ q.by = r
      BY <1>1 DEF RequestType
    <2>5. \A p \in flight' : p \in flight \/ p = q
      BY <2>1
    <2> HIDE DEF q, v
    <2>6. \A p \in flight' : p.by # NoRunner =>
            /\ runner'[p.by].pc = "wait"
            /\ runner'[p.by].command = p.command
            /\ runner'[p.by].version = p.version
      <3> SUFFICES ASSUME NEW p \in flight', p.by # NoRunner
                   PROVE  /\ runner'[p.by].pc = "wait"
                          /\ runner'[p.by].command = p.command
                          /\ runner'[p.by].version = p.version
        OBVIOUS
      <3>1. CASE p = q
        BY <3>1, <2>2, <2>3, <2>4
      <3>2. CASE p \in flight
        <4>1. p.by \in Runners /\ p.by # r
          BY <1>3, <3>2 DEF FlightShape, RequestType
        <4> QED
          BY <3>2, <4>1, <2>3 DEF FlightShape
      <3> QED
        BY <2>5, <3>1, <3>2
    <2>7. \A p, o \in flight' : p.by = o.by /\ p.by # NoRunner => p = o
      BY <2>4, <2>5, <1>3 DEF FlightShape
    <2>8. \A p \in flight' : Kind(p.command) # "invalid"
      BY <1>5, <2>4, <2>5 DEF FlightShape
    <2>9. FlightShape'
      <3>1. flight' \subseteq RequestType
        BY <2>4, <2>5 DEF FlightShape
      <3> QED
        BY <3>1, <2>6, <2>7, <2>8 DEF FlightShape, RequestType, Commands, Versions, Steps, Kind
    <2> QED
      BY <1>1, <1>2, <1>5, <2>2, <2>3, <2>4, <2>5, <2>9
  <1> QED
    BY <1>4, <1>5

\* What reading the conversation for the conditions reads and writes.
LEMMA EvaluateEffect ==
  ASSUME RunnersShape, FlightShape, NEW r \in Runners, Evaluate(r), faults \in 0..MaxFaults
  PROVE  /\ row' = row /\ OwnersKept /\ faults' \in 0..MaxFaults
         /\ RunnersShape' /\ FlightShape'
         /\ runner[r].pc = "evaluate" /\ runner'[r].pc = "record"
         /\ runner'[r].command = runner[r].command /\ runner[r].command \in Executions \X {0}
         /\ runner'[r].version = runner[r].version
         /\ runner'[r].answer = "matched" => runner[r].version = Version
         /\ \A s \in Runners : s # r => runner'[s] = runner[s]
  <1> DEFINE w == runner[r]
  <1>1. /\ w \in RunnerType /\ RunnerShape(w) /\ w.pc = "evaluate" /\ w.command \in Executions \X {0}
        /\ w.version \in Versions
    BY DEF Evaluate, RunnersShape, RunnerShape
  <1>2. row' = row /\ OwnersKept /\ faults' \in 0..MaxFaults
    BY BoundsAssumption DEF Evaluate, OwnersKept
  <1>3. PICK a \in {"failed", "matched", "no_match", "unknown"} :
          Hear(r, a, 0) /\ (a = "matched" => w.version = Version)
    BY DEF Evaluate
  <1> DEFINE v == [w EXCEPT !.pc = "record", !.answer = a, !.output = 0]
  <1>4. runner' = [runner EXCEPT ![r] = v]
    BY <1>3 DEF Hear
  <1>5. /\ v \in RunnerType
        /\ v.pc = "record" /\ v.command = w.command /\ v.version = w.version /\ v.answer = a
    BY <1>1 DEF RunnerType
  <1>6. RunnerShape(v)
    <2> HIDE DEF v
    <2> QED
      BY <1>1, <1>5 DEF RunnerShape
  <1>7. RunnersShape' /\ runner'[r] = v /\ \A s \in Runners : s # r => runner'[s] = runner[s]
    <2> HIDE DEF v
    <2> QED
      BY <1>4, <1>5, <1>6, RunnerWritten
  <1>8. \A p \in flight : p.by # r
    <2>1. r # NoRunner
      BY AbsentAssumption
    <2> QED
      BY <1>1, <2>1 DEF FlightShape
  <1>9. \A p \in flight : p.by # NoRunner => p.by \in Runners /\ runner'[p.by] = runner[p.by]
    BY <1>7, <1>8 DEF FlightShape, RequestType
  <1>10. FlightShape'
    BY <1>2, <1>9 DEF OwnersKept, FlightShape, RequestType, Commands, Versions, Steps, Kind
  <1> HIDE DEF v
  <1> QED
    BY <1>1, <1>2, <1>3, <1>5, <1>7, <1>10

\* What the death of a process leaves behind.
LEMMA CrashEffect ==
  ASSUME RunnersShape, FlightShape, NEW r \in Runners, Crash(r), faults \in 0..MaxFaults
  PROVE  /\ row' = row /\ receipt' = receipt /\ changes' = changes /\ faults' \in 0..MaxFaults
         /\ RunnersShape' /\ FlightShape'
         /\ runner'[r] = Idle
         /\ \A s \in Runners : s # r => runner'[s] = runner[s]
         /\ \A p \in flight' : \E o \in flight :
               /\ o.command = p.command /\ o.version = p.version
               /\ o = p \/ (o.by = r /\ p.by = NoRunner)
  <1> DEFINE gone(q) == IF q.by = r THEN [q EXCEPT !.by = NoRunner] ELSE q
  <1>1. /\ row' = row /\ receipt' = receipt /\ changes' = changes /\ faults' \in 0..MaxFaults
        /\ runner' = [runner EXCEPT ![r] = Idle]
        /\ flight' = {gone(q) : q \in flight}
    BY BoundsAssumption DEF Crash
  <1>2. RunnersShape' /\ runner'[r] = Idle /\ \A s \in Runners : s # r => runner'[s] = runner[s]
    BY <1>1, IdleShape, RunnerWritten
  <1>3. r # NoRunner
    BY AbsentAssumption
  <1>4. ASSUME NEW q \in flight
        PROVE  /\ gone(q) \in RequestType
               /\ gone(q).command = q.command /\ gone(q).version = q.version
               /\ gone(q).by # r
               /\ gone(q).by # NoRunner => gone(q) = q
               /\ gone(q) = q \/ (q.by = r /\ gone(q).by = NoRunner)
    BY <1>3 DEF FlightShape, RequestType
  <1>5. \A p \in flight' : \E q \in flight :
          /\ p \in RequestType /\ p.command = q.command /\ p.version = q.version
          /\ p.by # r /\ (p.by # NoRunner => p = q)
          /\ q = p \/ (q.by = r /\ p.by = NoRunner)
    <2> SUFFICES ASSUME NEW p \in flight'
                 PROVE  \E q \in flight :
                          /\ p \in RequestType /\ p.command = q.command /\ p.version = q.version
                          /\ p.by # r /\ (p.by # NoRunner => p = q)
                          /\ q = p \/ (q.by = r /\ p.by = NoRunner)
      OBVIOUS
    <2>1. PICK q \in flight : p = gone(q)
      BY <1>1
    <2> HIDE DEF gone
    <2> QED
      BY <1>4, <2>1
  <1>6. \A p \in flight' : p.by # NoRunner => p \in flight /\ p.by \in Runners /\ p.by # r
    BY <1>5 DEF FlightShape, RequestType
  <1>7. FlightShape'
    <2>1. flight' \subseteq RequestType
      BY <1>5
    <2>2. \A p \in flight' : Kind(p.command) # "invalid"
      BY <1>5 DEF FlightShape
    <2>3. \A p \in flight' : p.by # NoRunner =>
            /\ runner'[p.by].pc = "wait"
            /\ runner'[p.by].command = p.command
            /\ runner'[p.by].version = p.version
      BY <1>2, <1>6 DEF FlightShape
    <2>4. \A p, o \in flight' : p.by = o.by /\ p.by # NoRunner => p = o
      BY <1>6 DEF FlightShape
    <2> QED
      BY <2>1, <2>2, <2>3, <2>4 DEF FlightShape, RequestType, Commands, Versions, Steps, Kind
  <1> HIDE DEF gone
  <1> QED
    BY <1>1, <1>2, <1>5, <1>7

(***************************************************************************)
(* Type correctness.                                                       *)
(***************************************************************************)
LEMMA ShapeInit == Init => Shape
  <1> SUFFICES ASSUME Init PROVE Shape
    OBVIOUS
  <1>1. PICK f \in [Executions -> {Queued, Deferred, Rejected, Unreadable}] :
          row = [e \in Executions |-> Admitted(e, f[e])]
    BY DEF Init
  <1>2. ASSUME NEW e \in Executions, NEW a \in {Queued, Deferred, Rejected, Unreadable}
        PROVE  Admitted(e, a) \in RowType(e)
    <2>1. /\ a.status \in ActiveStatus \cup FinalStatus /\ a.context \in BOOLEAN
          /\ a.evaluation \in {"none", "pending", "matched", "no_match", "failed", "unreadable"}
      <3>1. CASE a = Queued
        BY <3>1 DEF Queued, ActiveStatus
      <3>2. CASE a = Deferred
        BY <3>2 DEF Deferred, ActiveStatus
      <3>3. CASE a = Rejected
        BY <3>3 DEF Rejected, FinalStatus
      <3>4. CASE a = Unreadable
        BY <3>4 DEF Unreadable, ActiveStatus
      <3> QED
        BY <3>1, <3>2, <3>3, <3>4
    <2>2. 1 \in 1..(Len(Plan[e]) + 1) /\ FactVersion \in Versions
      BY PlanSteps, VersionNumbers
    <2>3. [i \in Steps(e) |-> Pending] \in [Steps(e) -> [status : ResultStatus, version : Versions \cup {0}]]
      BY DEF Pending, ResultStatus
    <2>4. [i \in Steps(e) |-> 0] \in [Steps(e) -> Versions \cup {0}]
      OBVIOUS
    <2> QED
      BY <2>1, <2>2, <2>3, <2>4 DEF Admitted, RowType
  <1>3. RowsType
    BY <1>1, <1>2 DEF RowsType
  <1>4. RunnersShape
    BY IdleShape DEF Init, RunnersShape
  <1>5. FlightShape
    BY DEF Init, FlightShape
  <1>6. ChangesShape
    <2>1. /\ receipt = [c \in Commands |-> NoReceipt] /\ changes = <<>>
          /\ DOMAIN changes = {}
      BY DEF Init
    <2>2. {k \in DOMAIN changes : changes[k] = Edit} = {}
      BY <2>1
    <2>3. Cardinality({k \in DOMAIN changes : changes[k] = Edit}) <= MaxEdits
      BY <2>2, FS_EmptySet, BoundsAssumption
    <2>4. changes \in Seq(Commands \cup {Edit})
      BY <2>1
    <2> QED
      BY <2>1, <2>3, <2>4 DEF ChangesShape
  <1>7. faults \in 0..MaxFaults
    BY BoundsAssumption DEF Init
  <1> QED
    BY <1>3, <1>4, <1>5, <1>6, <1>7 DEF Shape

\* Requests are as they were when the processes that wait for them are.
LEMMA FlightKept ==
  ASSUME FlightShape, flight' = flight,
         \A s \in Runners : runner[s].pc = "wait" => runner'[s] = runner[s]
  PROVE  FlightShape'
  <1>1. \A p \in flight : p.by # NoRunner => p.by \in Runners /\ runner'[p.by] = runner[p.by]
    BY DEF FlightShape, RequestType
  <1> QED
    BY <1>1 DEF FlightShape, RequestType, Commands, Versions, Steps, Kind

\* Steps that issue no receipt and change nothing keep the history.
LEMMA ChangesKept ==
  ASSUME ChangesShape, receipt' = receipt, changes' = changes
  PROVE  ChangesShape'
  BY DEF ChangesShape

\* Every step keeps the types, and what they rest on.
LEMMA ShapeStep == Shape /\ [Next]_vars => Shape'
  <1> SUFFICES ASSUME Shape, [Next]_vars PROVE Shape'
    OBVIOUS
  <1>1. /\ RowsType /\ RunnersShape /\ FlightShape /\ ChangesShape
        /\ faults \in 0..MaxFaults
    BY DEF Shape
  <1>2. ASSUME row' = row PROVE RowsType'
    BY <1>1, <1>2 DEF RowsType, RowType, Steps, Versions, Commands
  <1>3. ASSUME runner' = runner PROVE RunnersShape'
    BY <1>1, <1>3 DEF RunnersShape
  <1>4. ASSUME ElseKept PROVE RunnersShape' /\ FlightShape' /\ ChangesShape'
    BY <1>1, <1>3, <1>4, FlightKept, ChangesKept DEF ElseKept, OwnersKept
  <1>5. ASSUME NEW r \in Runners, NEW e \in Executions, Quarantine(r, e) PROVE Shape'
    BY <1>1, <1>4, <1>5, QuarantineEffect, OnlyRowTypes DEF Shape
  <1>6. ASSUME NEW r \in Runners, NEW e \in Executions, CancelRest(r, e) PROVE Shape'
    BY <1>1, <1>4, <1>6, CancelRestEffect, OnlyRowTypes DEF Shape
  <1>7. ASSUME NEW r \in Runners, NEW e \in Executions, ClaimEvaluation(r, e) PROVE Shape'
    <2>1. /\ OnlyRow(e) /\ OwnersKept /\ faults' = faults /\ RunnersShape' /\ Turn(r, e)
          /\ \A s \in Runners : s # r => runner'[s] = runner[s]
      BY <1>1, <1>7, ClaimEvaluationEffect
    <2>2. FlightShape' /\ ChangesShape'
      BY <1>1, <2>1, FlightKept, ChangesKept DEF OwnersKept, Turn
    <2> QED
      BY <1>1, <2>1, <2>2, OnlyRowTypes DEF Shape
  <1>8. ASSUME NEW r \in Runners, NEW e \in Executions, ClaimAction(r, e) PROVE Shape'
    <2>1. /\ OnlyRow(e) /\ OwnersKept /\ faults' = faults /\ RunnersShape' /\ Turn(r, e)
          /\ \A s \in Runners : s # r => runner'[s] = runner[s]
      BY <1>1, <1>8, ClaimActionEffect
    <2>2. FlightShape' /\ ChangesShape'
      BY <1>1, <2>1, FlightKept, ChangesKept DEF OwnersKept, Turn
    <2> QED
      BY <1>1, <2>1, <2>2, OnlyRowTypes DEF Shape
  <1>9. ASSUME NEW r \in Runners, Send(r) PROVE Shape'
    BY <1>1, <1>2, <1>9, SendEffect, ChangesKept DEF Shape
  <1>10. ASSUME NEW r \in Runners, Evaluate(r) PROVE Shape'
    BY <1>1, <1>2, <1>10, EvaluateEffect, ChangesKept DEF Shape, OwnersKept
  <1>11. ASSUME NEW r \in Runners, Record(r) PROVE Shape'
    <2>1. /\ OwnersKept /\ faults' = faults /\ RunnersShape' /\ runner[r].pc = "record"
          /\ \A s \in Runners : s # r => runner'[s] = runner[s]
          /\ \E e \in Executions : \E i \in Steps(e) : row' = row \/ RecordWrites(r, e, i)
      BY <1>1, <1>11, RecordEffect
    <2>2. FlightShape' /\ ChangesShape'
      BY <1>1, <2>1, FlightKept, ChangesKept DEF OwnersKept
    <2>3. RowsType'
      BY <1>1, <1>2, <2>1, OnlyRowTypes DEF RecordWrites
    <2> QED
      BY <1>1, <2>1, <2>2, <2>3 DEF Shape
  <1>12. ASSUME NEW r \in Runners, Decide(r) PROVE Shape'
    <2>1. /\ OwnersKept /\ faults' = faults /\ RunnersShape' /\ runner[r].pc = "record"
          /\ \A s \in Runners : s # r => runner'[s] = runner[s]
          /\ \E e \in Executions : row' = row \/ OnlyRow(e)
      BY <1>1, <1>12, DecideEffect
    <2>2. FlightShape' /\ ChangesShape'
      BY <1>1, <2>1, FlightKept, ChangesKept DEF OwnersKept
    <2>3. RowsType'
      BY <1>1, <1>2, <2>1, OnlyRowTypes
    <2> QED
      BY <1>1, <2>1, <2>2, <2>3 DEF Shape
  <1>13. ASSUME NEW r \in Runners, Crash(r) PROVE Shape'
    BY <1>1, <1>2, <1>13, CrashEffect, ChangesKept DEF Shape
  <1>14. ASSUME NEW q \in flight, Owner(q) PROVE Shape'
    BY <1>14, OwnerStep
  <1>15. ASSUME NEW e \in Executions, Cancel(e) PROVE Shape'
    BY <1>1, <1>4, <1>15, CancelEffect, OnlyRowTypes DEF Shape
  <1>16. ASSUME NEW e \in Executions, LeaseExpires(e) PROVE Shape'
    BY <1>1, <1>4, <1>16, LeaseExpiresEffect, OnlyRowTypes DEF Shape
  <1>17. CASE HumanChange
    <2>1. row' = row /\ runner' = runner /\ flight' = flight /\ faults' = faults
      BY <1>17 DEF HumanChange
    <2>2. FlightShape'
      BY <1>1, <2>1, FlightKept
    <2> QED
      BY <1>1, <1>2, <1>3, <1>17, <2>1, <2>2, EditedChanges DEF Shape
  <1>18. CASE Elsewhere \/ UNCHANGED vars
    BY <1>1, <1>2, <1>4, <1>18 DEF Elsewhere, vars, Shape, ElseKept, OwnersKept
  <1> QED
    BY <1>5, <1>6, <1>7, <1>8, <1>9, <1>10, <1>11, <1>12, <1>13, <1>14, <1>15, <1>16, <1>17,
       <1>18 DEF Next, Step, Claim

\* What others take away and give back has its type, and nobody else touches it.
SurroundingsType == denied \subseteq Asking /\ revoked \in BOOLEAN /\ withdrawals \in Nat

LEMMA SurroundingsStep == SurroundingsType /\ [Next]_vars => SurroundingsType'
  <1> SUFFICES ASSUME SurroundingsType, [Next]_vars PROVE SurroundingsType'
    OBVIOUS
  <1>1. CASE Elsewhere
    <2>1. denied' \subseteq Asking
      BY <1>1 DEF Elsewhere, Withdraw, Restore, Revoke, Admit, SurroundingsType
    <2>2. revoked' \in BOOLEAN
      BY <1>1, Zenon DEF Elsewhere, Withdraw, Restore, Revoke, Admit, SurroundingsType
    <2>3. withdrawals' \in Nat
      BY <1>1 DEF Elsewhere, Withdraw, Restore, Revoke, Admit, SurroundingsType
    <2> QED
      BY <2>1, <2>2, <2>3 DEF SurroundingsType
  <1>2. ASSUME surroundings' = surroundings PROVE SurroundingsType'
    BY <1>2 DEF surroundings, SurroundingsType
  <1>3. ASSUME NEW r \in Runners, Step(r) \/ Crash(r) PROVE surroundings' = surroundings
    BY <1>3 DEF Step, Claim, Quarantine, CancelRest, ClaimEvaluation, ClaimAction, Send, Evaluate,
                Record, Decide, Crash
  <1>4. ASSUME NEW q \in flight, Owner(q) PROVE surroundings' = surroundings
    BY <1>4 DEF Owner, Ask, Perform, Replay, Refuse, RefuseUnseen, GiveUp
  <1>5. ASSUME NEW e \in Executions, Cancel(e) \/ LeaseExpires(e) PROVE surroundings' = surroundings
    BY <1>5 DEF Cancel, LeaseExpires
  <1>6. ASSUME HumanChange \/ UNCHANGED vars PROVE surroundings' = surroundings
    BY <1>6 DEF HumanChange, vars, surroundings
  <1> QED
    BY <1>1, <1>2, <1>3, <1>4, <1>5, <1>6 DEF Next

\* Every reachable state of the runner is well typed: in particular there are never
\* more versions than edits and commands (RunAutomationOnce and its owners).
THEOREM TypeCorrect == Spec => []TypeOK
  <1>1. Shape /\ SurroundingsType => TypeOK
    BY DEF Shape, TypeOK, RowsType, RunnersShape, RunnerType, FlightShape, RequestType,
           ChangesShape, ReceiptType, SurroundingsType
  <1>2. Init => SurroundingsType
    <2>1. Init => denied = {} /\ revoked = FALSE /\ withdrawals = 0
      BY DEF Init
    <2>2. {} \subseteq Asking /\ FALSE \in BOOLEAN /\ 0 \in Nat
      OBVIOUS
    <2> QED
      BY <2>1, <2>2, Zenon DEF SurroundingsType
  <1> QED
    BY <1>1, <1>2, ShapeInit, ShapeStep, SurroundingsStep, PTL DEF Spec

(***************************************************************************)
(* No result claims a failure that did not happen.                         *)
(***************************************************************************)
\* The results of an action that is not, or no longer, under way.
NotSent == {"pending", "failed", "dependent", "cancelled"}

\* No owner has heard of the command, none will.
Clean(c) == receipt[c] = NoReceipt /\ \A q \in flight : q.command # c

\* An action that is not under way has had no effect, and nobody will send it.
Unsent ==
    \A e \in Executions : \A i \in Steps(e) :
        row[e].results[i].status \in NotSent =>
            /\ Clean(<<e, i>>)
            /\ Kind(<<e, i>>) # "invalid" => \A s \in Runners : runner[s].command # <<e, i>>

\* An action that could not be compiled is refused, and nothing else.
InvalidUnsent ==
    \A e \in Executions : \A i \in Steps(e) : Kind(<<e, i>>) = "invalid" =>
        /\ receipt[<<e, i>>] = NoReceipt
        /\ row[e].results[i].status \in NotSent
        /\ \A s \in Runners : runner[s].command = <<e, i>> =>
              /\ runner[s].pc \in {"send", "record"} /\ ~runner[s].reconciling
              /\ runner[s].pc = "record" => runner[s].answer = "refused"

\* The actions after the next one are not under way.
LaterUnsent ==
    \A e \in Executions : \A i \in Steps(e) :
        row[e].next < i => row[e].results[i].status \in NotSent

\* The process r sends the command for the first time: nobody else has it, and
\* a refusal it hears is the whole truth.
FirstSend(r, c) ==
    /\ \A s \in Runners : s # r => runner[s].command # c
    /\ \A q \in flight : q.command = c =>
          q.by = r \/ (runner[r].pc = "record" /\ runner[r].answer = "unknown")
    /\ receipt[c] = NoReceipt \/ (runner[r].pc = "record" /\ runner[r].answer # "refused")

\* What the holder of a lease is at.
HolderSends ==
    \A r \in Runners : \A e \in Executions : \A i \in Steps(e) :
        runner[r].command = <<e, i>> /\ row[e].lease = r =>
            /\ i = row[e].next
            /\ Kind(<<e, i>>) # "invalid" =>
                  /\ row[e].results[i].status \notin NotSent
                  /\ ~runner[r].reconciling => FirstSend(r, <<e, i>>)

Truthful == Unsent /\ InvalidUnsent /\ LaterUnsent /\ HolderSends

\* Where requests, receipts and commands of processes come from.
RequestsCome ==
    \A p \in flight' :
        \/ \E q \in flight : q.command = p.command
        \/ \E s \in Runners : runner[s].command = p.command /\ Kind(p.command) # "invalid"

ReceiptsCome ==
    \A c \in Commands : receipt'[c] = receipt[c] \/ \E q \in flight : q.command = c

CommandsHeld ==
    \A s \in Runners : runner'[s].command \in Commands => runner'[s].command = runner[s].command

\* A result becomes unsent only in the course of a record.
NoneReset ==
    \A e \in Executions : \A i \in Steps(e) :
        row'[e].results[i].status \in NotSent => row[e].results[i].status \in NotSent

\* Actions without an effect stay so while no request of theirs appears.
LEMMA UnsentKept ==
  ASSUME Unsent, RequestsCome, ReceiptsCome, NoneReset,
         \A e \in Executions : \A i \in Steps(e) : \A s \in Runners :
            /\ runner'[s].command = <<e, i>> /\ row'[e].results[i].status \in NotSent
            /\ Kind(<<e, i>>) # "invalid"
            => \E t \in Runners : runner[t].command = <<e, i>>
  PROVE  Unsent'
  <1> SUFFICES ASSUME NEW e \in Executions, NEW i \in Steps(e), row'[e].results[i].status \in NotSent
               PROVE  /\ receipt'[<<e, i>>] = NoReceipt
                      /\ \A q \in flight' : q.command # <<e, i>>
                      /\ Kind(<<e, i>>) # "invalid" => \A s \in Runners : runner'[s].command # <<e, i>>
    BY DEF Unsent, Clean, NotSent, Commands, Steps, Kind
  <1>1. <<e, i>> \in Commands
    BY CommandPairs
  <1>2. row[e].results[i].status \in NotSent
    BY DEF NoneReset
  <1>3. /\ receipt[<<e, i>>] = NoReceipt
        /\ \A q \in flight : q.command # <<e, i>>
        /\ Kind(<<e, i>>) # "invalid" => \A s \in Runners : runner[s].command # <<e, i>>
    BY <1>2 DEF Unsent, Clean
  <1>4. receipt'[<<e, i>>] = NoReceipt
    BY <1>1, <1>3 DEF ReceiptsCome
  <1>5. \A q \in flight' : q.command # <<e, i>>
    BY <1>3 DEF RequestsCome
  <1>6. Kind(<<e, i>>) # "invalid" => \A s \in Runners : runner'[s].command # <<e, i>>
    BY <1>3
  <1> QED
    BY <1>4, <1>5, <1>6

\* What could not be compiled stays unsent.
LEMMA InvalidKept ==
  ASSUME InvalidUnsent, FlightShape, ReceiptsCome,
         \A e \in Executions : \A i \in Steps(e) : Kind(<<e, i>>) = "invalid" =>
            /\ row[e].results[i].status \in NotSent => row'[e].results[i].status \in NotSent
            /\ \A s \in Runners : runner'[s].command = <<e, i>> =>
                  \/ runner'[s] = runner[s]
                  \/ runner'[s].pc = "send" /\ ~runner'[s].reconciling
                  \/ /\ runner'[s].pc = "record" /\ runner'[s].answer = "refused"
                     /\ runner[s].command = <<e, i>> /\ runner'[s].reconciling = runner[s].reconciling
  PROVE  InvalidUnsent'
  <1> SUFFICES ASSUME NEW e \in Executions, NEW i \in Steps(e), Kind(<<e, i>>) = "invalid"
               PROVE  /\ receipt'[<<e, i>>] = NoReceipt
                      /\ row'[e].results[i].status \in NotSent
                      /\ \A s \in Runners : runner'[s].command = <<e, i>> =>
                            /\ runner'[s].pc \in {"send", "record"} /\ ~runner'[s].reconciling
                            /\ runner'[s].pc = "record" => runner'[s].answer = "refused"
    BY DEF InvalidUnsent, NotSent, Commands, Steps, Kind
  <1>1. <<e, i>> \in Commands
    BY CommandPairs
  <1>2. receipt'[<<e, i>>] = NoReceipt
    BY <1>1 DEF InvalidUnsent, ReceiptsCome, FlightShape
  <1>3. row'[e].results[i].status \in NotSent
    BY DEF InvalidUnsent
  <1>4. ASSUME NEW s \in Runners, runner'[s].command = <<e, i>>
        PROVE  /\ runner'[s].pc \in {"send", "record"} /\ ~runner'[s].reconciling
               /\ runner'[s].pc = "record" => runner'[s].answer = "refused"
    <2>1. runner[s].command = <<e, i>> =>
            /\ runner[s].pc \in {"send", "record"} /\ ~runner[s].reconciling
            /\ runner[s].pc = "record" => runner[s].answer = "refused"
      BY DEF InvalidUnsent
    <2>2. CASE runner'[s] = runner[s]
      BY <1>4, <2>1, <2>2
    <2>3. CASE runner'[s].pc = "send" /\ ~runner'[s].reconciling
      BY <2>3
    <2>4. CASE /\ runner'[s].pc = "record" /\ runner'[s].answer = "refused"
               /\ runner[s].command = <<e, i>> /\ runner'[s].reconciling = runner[s].reconciling
      BY <2>1, <2>4
    <2> QED
      BY <1>4, <2>2, <2>3, <2>4
  <1> QED
    BY <1>2, <1>3, <1>4

\* Rows that keep their place and no new claims: the holders stay, or become fewer.
LEMMA LaterKept ==
  ASSUME LaterUnsent,
         \A e \in Executions : \A i \in Steps(e) :
            row'[e].next < i =>
               /\ row[e].next < i
               /\ row[e].results[i].status \in NotSent => row'[e].results[i].status \in NotSent
  PROVE  LaterUnsent'
  BY DEF LaterUnsent, NotSent, Steps

\* The holder of a lease stays at the next action of its row.
LEMMA HolderKept ==
  ASSUME HolderSends,
         \A r \in Runners : \A e \in Executions : \A i \in Steps(e) :
            runner'[r].command = <<e, i>> /\ row'[e].lease = r =>
               \/ /\ i = row'[e].next
                  /\ Kind(<<e, i>>) # "invalid" =>
                       /\ row'[e].results[i].status \notin NotSent
                       /\ ~runner'[r].reconciling => FirstSend(r, <<e, i>>)'
               \/ /\ runner[r].command = <<e, i>> /\ row[e].lease = r
                  /\ row'[e].next = row[e].next
                  /\ row'[e].results[i].status \in NotSent => row[e].results[i].status \in NotSent
                  /\ runner'[r].reconciling = runner[r].reconciling
                  /\ FirstSend(r, <<e, i>>) => FirstSend(r, <<e, i>>)'
  PROVE  HolderSends'
  <1> SUFFICES ASSUME NEW r \in Runners, NEW e \in Executions, NEW i \in Steps(e),
                      runner'[r].command = <<e, i>>, row'[e].lease = r
               PROVE  /\ i = row'[e].next
                      /\ Kind(<<e, i>>) # "invalid" =>
                           /\ row'[e].results[i].status \notin NotSent
                           /\ ~runner'[r].reconciling => FirstSend(r, <<e, i>>)'
    BY DEF HolderSends, NotSent, Commands, Steps, Kind
  <1> QED
    BY DEF HolderSends

\* Rows keep their place, and nobody gets a lease for an action.
RowsQuiet ==
    /\ \A e \in Executions :
          /\ row'[e].next = row[e].next
          /\ \A i \in Steps(e) :
                row'[e].results[i].status \in NotSent <=> row[e].results[i].status \in NotSent
          /\ \A r \in Runners :
                runner'[r].command \in Commands /\ row'[e].lease = r => row[e].lease = r

\* Processes keep what they were claimed for; what could not be compiled is refused.
RunnersQuiet ==
    /\ CommandsHeld
    /\ \A s \in Runners : runner'[s].command \in Commands =>
          /\ runner'[s].reconciling = runner[s].reconciling
          /\ Kind(runner'[s].command) = "invalid" =>
                runner'[s] = runner[s] \/ (runner'[s].pc = "record" /\ runner'[s].answer = "refused")
          /\ FirstSend(s, runner[s].command) => FirstSend(s, runner[s].command)'

\* Steps that neither start nor record an action keep the truth of failures.
LEMMA QuietStep ==
  ASSUME Shape, Truthful, RequestsCome, ReceiptsCome, RowsQuiet, RunnersQuiet
  PROVE  Truthful'
  <1>1. Unsent /\ InvalidUnsent /\ LaterUnsent /\ HolderSends /\ FlightShape
    BY DEF Truthful, Shape
  <1>2. NoneReset
    BY DEF RowsQuiet, NoneReset
  <1>3. \A e \in Executions : \A i \in Steps(e) : <<e, i>> \in Commands
    BY CommandPairs
  <1>4. Unsent'
    BY <1>1, <1>2, <1>3, UnsentKept DEF RunnersQuiet, CommandsHeld
  <1>5. InvalidUnsent'
    <2>1. ASSUME NEW e \in Executions, NEW i \in Steps(e), Kind(<<e, i>>) = "invalid",
                 NEW s \in Runners, runner'[s].command = <<e, i>>
          PROVE  \/ runner'[s] = runner[s]
                 \/ /\ runner'[s].pc = "record" /\ runner'[s].answer = "refused"
                    /\ runner[s].command = <<e, i>> /\ runner'[s].reconciling = runner[s].reconciling
      BY <1>3, <2>1 DEF RunnersQuiet, CommandsHeld
    <2>2. \A e \in Executions : \A i \in Steps(e) :
            row[e].results[i].status \in NotSent => row'[e].results[i].status \in NotSent
      BY DEF RowsQuiet
    <2> QED
      BY <1>1, <2>1, <2>2, InvalidKept
  <1>6. LaterUnsent'
    BY <1>1, LaterKept DEF RowsQuiet
  <1>7. HolderSends'
    <2>1. ASSUME NEW r \in Runners, NEW e \in Executions, NEW i \in Steps(e),
                 runner'[r].command = <<e, i>>, row'[e].lease = r
          PROVE  /\ runner[r].command = <<e, i>> /\ row[e].lease = r
                 /\ row'[e].next = row[e].next
                 /\ runner'[r].reconciling = runner[r].reconciling
                 /\ FirstSend(r, <<e, i>>) => FirstSend(r, <<e, i>>)'
      <3>1. runner[r].command = <<e, i>> /\ runner'[r].command \in Commands
        BY <1>3, <2>1 DEF RunnersQuiet, CommandsHeld
      <3>2. FirstSend(r, runner[r].command) => FirstSend(r, runner[r].command)'
        BY <3>1 DEF RunnersQuiet
      <3>3. FirstSend(r, <<e, i>>) => FirstSend(r, <<e, i>>)'
        BY <3>1, <3>2, <2>1 DEF FirstSend
      <3> QED
        BY <2>1, <3>1, <3>3 DEF RunnersQuiet, RowsQuiet
    <2> QED
      BY <1>1, <1>2, <2>1, HolderKept DEF NoneReset
  <1> QED
    BY <1>4, <1>5, <1>6, <1>7 DEF Truthful

\* Steps that leave the owners alone.
LEMMA OwnersQuiet ==
  ASSUME OwnersKept
  PROVE  RequestsCome /\ ReceiptsCome
  BY DEF OwnersKept, RequestsCome, ReceiptsCome

\* Processes that keep their command keep what they know of it.
LEMMA RunnersKeptQuiet ==
  ASSUME RunnersShape, OwnersKept, CommandsHeld,
         \A s \in Runners : runner'[s].command \in Commands => runner'[s] = runner[s]
  PROVE  RunnersQuiet
  <1>1. ASSUME NEW s \in Runners, runner'[s].command \in Commands, FirstSend(s, runner[s].command)
        PROVE  FirstSend(s, runner[s].command)'
    <2>1. /\ runner'[s] = runner[s]
          /\ runner[s].command \in Commands
          /\ flight' = flight /\ receipt' = receipt
      BY <1>1 DEF OwnersKept
    <2> DEFINE c == runner[s].command
    <2>2. FirstSend(s, c)'
      <3>1. /\ c \in Commands /\ FirstSend(s, c) /\ receipt'[c] = receipt[c]
            /\ \A p \in flight' : p.command = c =>
                 p.by = s \/ \E q \in flight : q.command = c /\ q.by = p.by
        BY <1>1, <2>1
      <3>2. \A t \in Runners : t # s => runner'[t].command # c
        <4> HIDE DEF c
        <4> QED
          BY <3>1 DEF FirstSend, CommandsHeld
      <3> HIDE DEF c
      <3>3. /\ \A q \in flight' : q.command = c =>
                 q.by = s \/ (runner'[s].pc = "record" /\ runner'[s].answer = "unknown")
            /\ receipt'[c] = NoReceipt \/ (runner'[s].pc = "record" /\ runner'[s].answer # "refused")
        BY <2>1, <3>1 DEF FirstSend
      <3> QED
        BY <2>1, <3>2, <3>3 DEF FirstSend, c
    <2> QED
      BY <2>2
  <1> QED
    BY <1>1 DEF RunnersQuiet, CommandsHeld

\* The rows of a step that leaves every row as it is.
LEMMA RowsKeptQuiet ==
  ASSUME row' = row
  PROVE  RowsQuiet
  BY DEF RowsQuiet

\* The rows of a step that writes one row and keeps its place and its lease.
LEMMA OneRowQuiet ==
  ASSUME NEW e \in Executions, OnlyRow(e), row'[e].next = row[e].next,
         \A i \in Steps(e) : row'[e].results[i].status \in NotSent <=> row[e].results[i].status \in NotSent,
         \A r \in Runners : runner'[r].command \in Commands /\ row'[e].lease = r => row[e].lease = r
  PROVE  RowsQuiet
  BY DEF RowsQuiet, OnlyRow

\* No action has had an effect at admission.
LEMMA TruthfulInit == Init => Truthful
  <1> SUFFICES ASSUME Init PROVE Truthful
    OBVIOUS
  <1>1. \A c \in Commands : receipt[c] = NoReceipt
    BY DEF Init
  <1>2. flight = {} /\ \A r \in Runners : runner[r].command = Edit
    BY DEF Init, Idle
  <1>3. \A e \in Executions : \A i \in Steps(e) : row[e].results[i].status = "pending"
    BY DEF Init, Admitted, Pending
  <1>4. Edit \notin Commands /\ \A e \in Executions : \A i \in Steps(e) : <<e, i>> \in Commands
    BY NotACommand, CommandPairs
  <1>5. Unsent
    BY <1>1, <1>2, <1>4 DEF Unsent, Clean
  <1>6. InvalidUnsent
    BY <1>1, <1>2, <1>3, <1>4 DEF InvalidUnsent, NotSent
  <1>7. LaterUnsent /\ HolderSends
    BY <1>2, <1>3, <1>4 DEF LaterUnsent, HolderSends, NotSent
  <1> QED
    BY <1>5, <1>6, <1>7 DEF Truthful

\* A cancellation sets aside what was not sent.
LEMMA CancelledQuiet ==
  ASSUME RowsType, LaterUnsent, NEW e \in Executions, NEW S, OnlyRow(e), IsCancelled(row[e], e, S, row'[e]),
         \A i \in Steps(e) : i \in S => row[e].next < i \/ row[e].results[i].status = "pending",
         runner' = runner
  PROVE  RowsQuiet
  <1>1. ASSUME NEW i \in Steps(e)
        PROVE  row'[e].results[i].status \in NotSent <=> row[e].results[i].status \in NotSent
    <2>1. CASE i \in S
      BY <2>1 DEF IsCancelled, LaterUnsent, NotSent
    <2>2. CASE i \notin S
      BY <2>2 DEF IsCancelled
    <2> QED
      BY <2>1, <2>2
  <1>2. row'[e].next = row[e].next /\ row'[e].lease = row[e].lease
    BY DEF IsCancelled, SameLease
  <1> QED
    BY <1>1, <1>2, OneRowQuiet

\* The owner of the request q leaves a first dispatch a first dispatch.
LEMMA OwnerQuiet ==
  ASSUME Shape, Truthful, NEW q \in flight, Owner(q)
  PROVE  Truthful'
  <1>1. OwnerEffect(q)
    BY OwnerStep
  <1>2. RunnersShape /\ FlightShape /\ ChangesShape
    BY DEF Shape
  <1>3. /\ q.command \in Commands /\ q.by \in Runners \cup {NoRunner} /\ Kind(q.command) # "invalid"
        /\ q.by # NoRunner => runner[q.by].pc = "wait" /\ runner[q.by].command = q.command
    BY <1>2, RequestFields
  <1>4. RequestsCome
    BY <1>1 DEF RequestsCome, OwnerEffect
  <1>5. ReceiptsCome
    BY <1>1, <1>2, <1>3 DEF ReceiptsCome, OwnerEffect, Performs, NothingDone, ChangesShape
  <1>6. RowsQuiet
    BY <1>1, RowsKeptQuiet DEF OwnerEffect
  <1>7. CommandsHeld
    BY <1>1 DEF CommandsHeld, OwnerEffect
  <1>8. ASSUME NEW s \in Runners, runner[s].command \in Commands, Kind(runner[s].command) = "invalid"
        PROVE  runner'[s] = runner[s]
    BY <1>1, <1>3, <1>8, AbsentAssumption DEF OwnerEffect
  <1>9. ASSUME NEW r \in Runners, NEW c \in Commands, runner[r].command = c, FirstSend(r, c)
        PROVE  FirstSend(r, c)'
    <2>1. \A s \in Runners : s # r => runner'[s].command # c
      BY <1>1, <1>9 DEF FirstSend, OwnerEffect
    <2>2. r # NoRunner
      BY AbsentAssumption
    <2>3. CASE q.by = r /\ Hearing(q)
      <3>1. runner[r].pc = "wait" /\ runner'[r].pc = "record" /\ q.command = c
            /\ runner'[r].answer \in {"ok", "refused", "unknown"}
        BY <1>3, <1>9, <2>2, <2>3 DEF Hearing
      <3>2. \A p \in flight : p.command = c => p = q
        BY <1>2, <1>9, <2>2, <2>3, <3>1 DEF FirstSend, FlightShape
      <3>3. \A p \in flight' : p.command = c => runner'[r].answer = "unknown"
        BY <2>3, <3>2 DEF Hearing
      <3>4. receipt[c] = NoReceipt
        BY <1>9, <3>1 DEF FirstSend
      <3>5. receipt'[c] = NoReceipt \/ runner'[r].answer # "refused"
        BY <1>1, <2>2, <2>3, <3>4 DEF OwnerEffect, NothingDone
      <3> QED
        BY <2>1, <3>1, <3>3, <3>5 DEF FirstSend
    <2>4. CASE ~(q.by = r /\ Hearing(q))
      <3>1. runner'[r] = runner[r]
        BY <1>1, <2>4 DEF OwnerEffect
      <3>2. \A p \in flight' : p.command = c =>
              p.by = r \/ (runner'[r].pc = "record" /\ runner'[r].answer = "unknown")
        BY <1>1, <1>9, <2>4, <3>1 DEF FirstSend, OwnerEffect
      <3>3. receipt'[c] = NoReceipt \/ (runner'[r].pc = "record" /\ runner'[r].answer # "refused")
        <4>1. CASE receipt'[c] = receipt[c]
          BY <1>9, <3>1, <4>1 DEF FirstSend
        <4>2. CASE receipt'[c] # receipt[c]
          <5>1. Performs(q) /\ q.command = c
            <6>1. Performs(q)
              BY <1>1, <4>2 DEF OwnerEffect, NothingDone
            <6>2. PICK z \in ReceiptType : receipt' = [receipt EXCEPT ![q.command] = z]
              BY <6>1 DEF Performs
            <6> QED
              BY <1>2, <1>3, <1>9, <4>2, <6>1, <6>2 DEF ChangesShape
          <5>2. q.by # r
            BY <1>1, <2>2, <2>4, <4>2 DEF OwnerEffect, NothingDone
          <5> QED
            BY <1>9, <3>1, <5>1, <5>2 DEF FirstSend
        <4> QED
          BY <4>1, <4>2
      <3> QED
        BY <2>1, <3>2, <3>3 DEF FirstSend
    <2> QED
      BY <2>3, <2>4
  <1>10. RunnersQuiet
    <2>1. \A s \in Runners : runner'[s].command = runner[s].command
                             /\ runner'[s].reconciling = runner[s].reconciling
      BY <1>1 DEF OwnerEffect
    <2>2. ASSUME NEW s \in Runners, runner'[s].command \in Commands,
                 FirstSend(s, runner[s].command)
          PROVE  FirstSend(s, runner[s].command)'
      <3> DEFINE c == runner[s].command
      <3>1. c \in Commands /\ c' = c
        BY <2>1, <2>2
      <3>2. FirstSend(s, c)
        BY <2>2
      <3> HIDE DEF c
      <3>3. runner[s].command = c /\ runner'[s].command = c
        BY <2>1 DEF c
      <3>4. /\ \A t \in Runners : t # s => runner'[t].command # c
            /\ \A p \in flight' : p.command = c =>
                 p.by = s \/ (runner'[s].pc = "record" /\ runner'[s].answer = "unknown")
            /\ receipt'[c] = NoReceipt \/ (runner'[s].pc = "record" /\ runner'[s].answer # "refused")
        BY <1>9, <3>1, <3>2, <3>3 DEF FirstSend
      <3> QED
        BY <3>3, <3>4 DEF FirstSend
    <2> QED
      BY <1>7, <1>8, <2>1, <2>2 DEF RunnersQuiet
  <1> QED
    BY <1>4, <1>5, <1>6, <1>10, QuietStep

\* What the checks of a checkpoint say of the next action.
LEMMA TrustedNext ==
  ASSUME NEW e \in Executions, Trusted(e)
  PROVE  /\ row[e].next \in Steps(e)
         /\ \A i \in Steps(e) : row[e].next < i => row[e].results[i] = Pending /\ row[e].dispatch[i] = 0
         /\ \/ row[e].results[row[e].next].status = "pending" /\ row[e].dispatch[row[e].next] = 0
            \/ /\ row[e].results[row[e].next].status \in {"accepted", "unknown"}
               /\ Kind(<<e, row[e].next>>) # "invalid"
         /\ PredecessorVersion(e) # 0
         /\ \/ row[e].next = 1 /\ row[e].results[1].status = "pending"
            \/ row[e].version = After(row[e], e, row[e].next - 1, Base(e))
  <1> DEFINE x == row[e]
  <1>1. ValidCheckpoint(x, e, CheckpointBase(x, e)) /\ PredecessorVersion(e) # 0
        /\ \/ x.next = 1 /\ x.results[1].status = "pending"
           \/ x.version = After(x, e, x.next - 1, Base(e))
    BY DEF Trusted
  <1>2. /\ x.next \in Steps(e)
        /\ \A i \in (x.next + 1)..Len(Plan[e]) : x.results[i] = Pending /\ x.dispatch[i] = 0
        /\ \/ x.results[x.next].status = "pending" /\ x.dispatch[x.next] = 0
           \/ /\ x.results[x.next].status \in {"accepted", "unknown"}
              /\ Plan[e][x.next].kind # "invalid"
    <2> HIDE DEF x
    <2> QED
      BY <1>1 DEF ValidCheckpoint
  <1>3. \A i \in Steps(e) : x.next < i => i \in (x.next + 1)..Len(Plan[e])
    <2> HIDE DEF x
    <2> QED
      BY <1>2, PlanSteps
  <1>4. Kind(<<e, x.next>>) = Plan[e][x.next].kind
    BY DEF Kind
  <1> QED
    BY <1>1, <1>2, <1>3, <1>4

\* A claim freezes a command nobody else has, or repeats one.
LEMMA ClaimActionTruthful ==
  ASSUME Shape, Truthful, NEW r \in Runners, NEW e \in Executions, ClaimAction(r, e)
  PROVE  Truthful'
  <1>0. /\ RowsType /\ RunnersShape /\ FlightShape
        /\ Unsent /\ InvalidUnsent /\ LaterUnsent /\ HolderSends
    BY DEF Shape, Truthful
  <1> DEFINE n == row[e].next
             c == <<e, n>>
  <1>1. /\ OnlyRow(e) /\ OwnersKept /\ n \in Steps(e)
        /\ IsAccepted(row[e], e, r, StartVersion(e), Frozen(e), row'[e])
        /\ Trusted(e)
        /\ runner'[r].pc = "send" /\ runner'[r].command = c
        /\ runner'[r].reconciling = (row[e].results[n].status \in {"accepted", "unknown"})
        /\ \A s \in Runners : s # r => runner'[s] = runner[s]
    BY <1>0, ClaimActionEffect
  <1>2. row[e].results[n].status \in {"pending", "accepted", "unknown"}
    BY <1>1, TrustedNext
  <1>3. /\ row'[e].next = n /\ row'[e].lease = r
        /\ \A p : p # e => row'[p] = row[p]
        /\ Kind(c) = "invalid" => row'[e].results = row[e].results
        /\ Kind(c) # "invalid" => row'[e].results[n].status = "accepted"
        /\ \A i \in Steps(e) : i # n => row'[e].results[i] = row[e].results[i]
    BY <1>1 DEF IsAccepted, OnlyRow
  <1>4. c \in Commands /\ \A p \in Executions : \A i \in Steps(p) : <<p, i>> \in Commands
    BY <1>1, CommandPairs
  <1>5. RequestsCome /\ ReceiptsCome
    BY <1>1, OwnersQuiet
  <1> HIDE DEF n
  <1>6. ASSUME NEW p \in Executions, NEW i \in Steps(p), row'[p].results[i].status \in NotSent
        PROVE  row[p].results[i].status \in NotSent /\ (Kind(<<p, i>>) # "invalid" => <<p, i>> # c)
    <2>1. CASE p = e /\ i = n
      BY <1>3, <1>6, <2>1 DEF NotSent
    <2>2. CASE p = e /\ i # n
      BY <1>3, <1>6, <2>2
    <2>3. CASE p # e
      BY <1>3, <1>6, <2>3
    <2> QED
      BY <2>1, <2>2, <2>3
  <1>7. Unsent'
    <2>1. NoneReset
      BY <1>6 DEF NoneReset
    <2>2. ASSUME NEW p \in Executions, NEW i \in Steps(p), NEW s \in Runners,
                 runner'[s].command = <<p, i>>, row'[p].results[i].status \in NotSent,
                 Kind(<<p, i>>) # "invalid"
          PROVE  runner[s].command = <<p, i>>
      BY <1>1, <1>6, <2>2
    <2> QED
      BY <1>0, <1>5, <2>1, <2>2, UnsentKept
  <1>8. InvalidUnsent'
    <2>1. ASSUME NEW p \in Executions, NEW i \in Steps(p), Kind(<<p, i>>) = "invalid"
          PROVE  row'[p].results[i] = row[p].results[i]
      BY <1>3, <2>1
    <2>2. ASSUME NEW p \in Executions, NEW i \in Steps(p), Kind(<<p, i>>) = "invalid",
                 NEW s \in Runners, runner'[s].command = <<p, i>>
          PROVE  runner'[s] = runner[s] \/ (runner'[s].pc = "send" /\ ~runner'[s].reconciling)
      <3>1. CASE s # r
        BY <1>1, <3>1
      <3>2. CASE s = r
        <4>1. p = e /\ i = n
          BY <1>1, <2>2, <3>2
        <4>2. row[e].results[n].status \in NotSent
          BY <1>0, <2>2, <4>1 DEF InvalidUnsent
        <4>3. ~runner'[r].reconciling
          BY <1>1, <4>2 DEF NotSent
        <4> QED
          BY <1>1, <3>2, <4>3
      <3> QED
        BY <3>1, <3>2
    <2> QED
      BY <1>0, <1>5, <2>1, <2>2, InvalidKept
  <1>9. LaterUnsent'
    <2>1. ASSUME NEW p \in Executions, NEW i \in Steps(p), row'[p].next < i
          PROVE  row[p].next < i /\ row'[p].results[i] = row[p].results[i]
      <3>1. CASE p = e
        <4>1. n < i
          BY <1>3, <2>1, <3>1
        <4>2. n \in Nat /\ i \in Nat
          BY <1>1, <3>1, PlanSteps
        <4>3. i # n
          BY <4>1, <4>2
        <4> QED
          BY <1>3, <2>1, <3>1, <4>1, <4>3 DEF n
      <3>2. CASE p # e
        BY <1>3, <2>1, <3>2
      <3> QED
        BY <3>1, <3>2
    <2> QED
      BY <1>0, <2>1, LaterKept
  <1>10. HolderSends'
    <2>1. ASSUME NEW s \in Runners, NEW p \in Executions, NEW i \in Steps(p),
                 runner'[s].command = <<p, i>>, row'[p].lease = s
          PROVE  \/ /\ i = row'[p].next
                    /\ Kind(<<p, i>>) # "invalid" =>
                         /\ row'[p].results[i].status \notin NotSent
                         /\ ~runner'[s].reconciling => FirstSend(s, <<p, i>>)'
                 \/ /\ runner[s].command = <<p, i>> /\ row[p].lease = s
                    /\ row'[p].next = row[p].next
                    /\ row'[p].results[i].status \in NotSent => row[p].results[i].status \in NotSent
                    /\ runner'[s].reconciling = runner[s].reconciling
                    /\ FirstSend(s, <<p, i>>) => FirstSend(s, <<p, i>>)'
      <3>1. CASE p = e
        <4>1. s = r /\ i = n
          BY <1>1, <1>3, <2>1, <3>1
        <4>2. ASSUME Kind(c) # "invalid", ~runner'[r].reconciling
              PROVE  FirstSend(r, c)'
          <5>1. row[e].results[n].status \in NotSent
            BY <1>1, <1>2, <4>2 DEF NotSent
          <5>2. receipt[c] = NoReceipt /\ (\A q \in flight : q.command # c)
                /\ \A t \in Runners : runner[t].command # c
            BY <1>0, <1>1, <4>2, <5>1 DEF Unsent, Clean
          <5>3. receipt' = receipt /\ flight' = flight
            BY <1>1 DEF OwnersKept
          <5>4. c' = c
            BY <1>3 DEF n
          <5> HIDE DEF c
          <5> QED
            BY <1>1, <5>2, <5>3, <5>4 DEF FirstSend
        <4>3. Kind(c) # "invalid" => row'[e].results[n].status \notin NotSent
          BY <1>3 DEF NotSent
        <4>4. <<p, i>> = c /\ c' = c
          BY <1>3, <3>1, <4>1 DEF n
        <4>5. ASSUME FirstSend(r, c)'
              PROVE  FirstSend(s, <<p, i>>)'
          BY <4>1, <4>4, <4>5 DEF FirstSend
        <4> QED
          BY <1>3, <3>1, <4>1, <4>2, <4>3, <4>4, <4>5
      <3>2. CASE p # e
        <4>1. s # r
          BY <1>1, <2>1, <3>2
        <4>2. row'[p] = row[p] /\ runner'[s] = runner[s] /\ <<p, i>> # c
          BY <1>1, <1>3, <3>2, <4>1
        <4>3. FirstSend(s, <<p, i>>) => FirstSend(s, <<p, i>>)'
          <5>1. receipt' = receipt /\ flight' = flight
            BY <1>1 DEF OwnersKept
          <5> HIDE DEF c
          <5> QED
            BY <1>1, <4>2, <5>1 DEF FirstSend
        <4> QED
          BY <2>1, <4>2, <4>3
      <3> QED
        BY <3>1, <3>2
    <2> QED
      BY <1>0, <2>1, HolderKept
  <1> QED
    BY <1>7, <1>8, <1>9, <1>10 DEF Truthful

\* What the holder r writes of its action i, result by result.
RecordedResults(r, e, i) ==
    /\ i = row[e].next
    /\ row'[e].lease = NoRunner
    /\ row[e].next <= row'[e].next
    /\ \A j \in Steps(e) : j # i =>
          (row'[e].results[j].status \in NotSent <=> row[e].results[j].status \in NotSent)
    /\ row'[e].results[i].status \in NotSent =>
          Clean(<<e, i>>) /\ (Kind(<<e, i>>) # "invalid" => \A s \in Runners : s # r => runner[s].command # <<e, i>>)
    /\ Kind(<<e, i>>) = "invalid" => row'[e].results[i].status \in NotSent

\* A record ends one action, and says it had no effect only when that is the truth.
LEMMA RecordedResultsHold ==
  ASSUME Shape, Truthful, NEW r \in Runners, NEW e \in Executions, NEW i \in Steps(e),
         runner[r].pc = "record", runner[r].command = <<e, i>>, RecordWrites(r, e, i)
  PROVE  RecordedResults(r, e, i)
  <1> DEFINE x == row[e]
             y == row'[e]
             c == <<e, i>>
  <1>0. /\ RowsType /\ RunnersShape /\ FlightShape
        /\ Unsent /\ InvalidUnsent /\ LaterUnsent /\ HolderSends
    BY DEF Shape, Truthful
  <1>1. row[e].lease = r /\ x \in RowType(e)
    BY <1>0 DEF RecordWrites, RowsType
  <1>2. /\ i = x.next
        /\ Kind(c) # "invalid" => /\ x.results[i].status \notin NotSent
                                  /\ ~runner[r].reconciling => FirstSend(r, c)
    BY <1>0, <1>1 DEF HolderSends
  <1>3. Kind(c) = "invalid" => receipt[c] = NoReceipt /\ ~runner[r].reconciling /\ runner[r].answer = "refused"
    BY <1>0 DEF InvalidUnsent
  <1>4. \A q \in flight : Kind(q.command) # "invalid"
    BY <1>0 DEF FlightShape
  <1>5. Len(Plan[e]) \in Nat /\ i \in Nat /\ 1 <= i /\ i <= Len(Plan[e])
    BY PlanSteps
  <1>6. \A j \in Steps(e) : j > i => x.results[j].status \in NotSent
    BY <1>0, <1>2 DEF LaterUnsent
  <1>7. ASSUME NEW f \in [Steps(e) -> ResultType], NEW n \in Nat, i < n, GoesOn(x, e, f, n, y)
        PROVE  \A j \in Steps(e) :
                  /\ y.results[j].status = f[j].status \/ (j > i /\ y.results[j].status \in NotSent)
                  /\ j = i => y.results[j].status = f[j].status
    <2>1. CASE ~(x.cancel /\ n <= Len(Plan[e]))
      BY <1>7, <2>1 DEF GoesOn
    <2>2. CASE x.cancel /\ n <= Len(Plan[e])
      <3> DEFINE S == n..Len(Plan[e])
      <3>1. y.results = Mark(f, S, "cancelled")
        BY <1>7, <2>2 DEF GoesOn
      <3>2. "cancelled" \in ResultStatus
        BY DEF ResultStatus
      <3>3. \A j \in Steps(e) : j \in S => j > i
        BY <1>5, <1>7, PlanSteps
      <3> HIDE DEF S
      <3>4. \A j \in Steps(e) :
              /\ j \in S => y.results[j] = [status |-> "cancelled", version |-> 0]
              /\ j \notin S => y.results[j] = f[j]
        BY <1>7, <3>1, <3>2, MarkResults
      <3> QED
        BY <1>5, <3>3, <3>4 DEF NotSent
    <2> QED
      BY <2>1, <2>2
  <1>8. CASE Confirms(runner[r]) /\ runner[r].output \in Versions
             /\ HasSucceeded(x, e, i, runner[r].output, y)
    <2>1. Kind(c) # "invalid"
      BY <1>3, <1>8 DEF Confirms
    <2>2. PICK f : SuccessAt(x, e, i, runner[r].output, f) /\ GoesOn(x, e, f, i + 1, y)
      BY <1>8 DEF HasSucceeded
    <2>3. \A j \in Steps(e) :
            /\ y.results[j].status = f[j].status \/ (j > i /\ y.results[j].status \in NotSent)
            /\ j = i => y.results[j].status = f[j].status
      BY <1>5, <1>7, <2>2 DEF SuccessAt
    <2>4. y.results[i].status \notin NotSent
      BY <2>2, <2>3 DEF SuccessAt, NotSent
    <2>5. \A j \in Steps(e) : j # i => (y.results[j].status \in NotSent <=> x.results[j].status \in NotSent)
      <3> SUFFICES ASSUME NEW j \in Steps(e), j # i
                   PROVE  y.results[j].status \in NotSent <=> x.results[j].status \in NotSent
        OBVIOUS
      <3>1. f[j] = x.results[j]
        BY <2>2 DEF SuccessAt
      <3> QED
        BY <1>6, <2>3, <3>1
    <2>6. y.lease = NoRunner /\ y.next = i + 1
      BY <1>8, <2>2 DEF HasSucceeded, Released, GoesOn
    <2> QED
      BY <1>2, <1>5, <2>1, <2>4, <2>5, <2>6 DEF RecordedResults
  <1>9. CASE ~Confirms(runner[r]) /\ Refutes(runner[r]) /\ HasFailed(x, e, i, y)
    <2> DEFINE n == i + 1 + Cardinality(Rest(e, i))
    <2>1. n \in Nat /\ i < n /\ \A j \in Steps(e) : j \in Rest(e, i) => j > i
      <3> DEFINE m == Cardinality(Rest(e, i))
      <3>1. m \in Nat
        BY RestFollows
      <3>2. \A j \in Steps(e) : j \in Rest(e, i) => j > i
        BY <1>5 DEF Rest
      <3>3. n = i + 1 + m
        OBVIOUS
      <3> HIDE DEF m
      <3> QED
        BY <1>5, <3>1, <3>2, <3>3
    <2>2. PICK f : FailureAt(x, e, i, f) /\ GoesOn(x, e, f, n, y)
      BY <1>9 DEF HasFailed
    <2> HIDE DEF n
    <2>3. \A j \in Steps(e) :
            /\ y.results[j].status = f[j].status \/ (j > i /\ y.results[j].status \in NotSent)
            /\ j = i => y.results[j].status = f[j].status
      BY <1>7, <2>1, <2>2 DEF FailureAt
    <2>4. y.results[i].status \in NotSent
      BY <2>2, <2>3 DEF FailureAt, NotSent
    <2>5. \A j \in Steps(e) : j # i => (y.results[j].status \in NotSent <=> x.results[j].status \in NotSent)
      <3> SUFFICES ASSUME NEW j \in Steps(e), j # i
                   PROVE  y.results[j].status \in NotSent <=> x.results[j].status \in NotSent
        OBVIOUS
      <3>1. CASE j \in Rest(e, i)
        BY <1>6, <2>1, <2>2, <2>3, <3>1 DEF FailureAt, NotSent
      <3>2. CASE j \notin Rest(e, i)
        BY <1>6, <2>2, <2>3, <3>2 DEF FailureAt
      <3> QED
        BY <3>1, <3>2
    <2>6. y.lease = NoRunner /\ y.next = n
      BY <1>9, <2>2 DEF HasFailed, Released, GoesOn
    <2>7. Clean(c) /\ (Kind(c) # "invalid" => \A s \in Runners : s # r => runner[s].command # c)
      <3>1. CASE Kind(c) = "invalid"
        BY <1>3, <1>4, <3>1 DEF Clean
      <3>2. CASE Kind(c) # "invalid"
        <4>1. FirstSend(r, c) /\ runner[r].answer = "refused"
          BY <1>2, <1>9, <3>2 DEF Refutes
        <4>2. \A q \in flight : q.command = c => q.by = r
          BY <4>1 DEF FirstSend
        <4>3. \A q \in flight : q.by # r
          BY <1>0, AbsentAssumption DEF FlightShape
        <4> QED
          BY <4>1, <4>2, <4>3 DEF FirstSend, Clean
      <3> QED
        BY <3>1, <3>2
    <2> QED
      BY <1>2, <1>5, <2>1, <2>4, <2>5, <2>6, <2>7 DEF RecordedResults
  <1>10. CASE ~Confirms(runner[r]) /\ ~Refutes(runner[r]) /\ IsUnknown(x, e, i, y)
    <2>1. Kind(c) # "invalid"
      BY <1>3, <1>10 DEF Refutes
    <2>2. y.results[i].status \notin NotSent
      BY <1>10 DEF IsUnknown, NotSent
    <2>3. y.lease = NoRunner /\ y.next = x.next
      BY <1>10 DEF IsUnknown, Released
    <2>4. \A j \in Steps(e) : j # i => y.results[j] = x.results[j]
      BY <1>10 DEF IsUnknown
    <2> QED
      BY <1>2, <1>5, <2>1, <2>2, <2>3, <2>4 DEF RecordedResults
  <1> QED
    BY <1>8, <1>9, <1>10 DEF RecordWrites

\* A record keeps the truth of failures.
LEMMA RecordTruthful ==
  ASSUME Shape, Truthful, NEW r \in Runners, Record(r)
  PROVE  Truthful'
  <1>0. /\ RowsType /\ RunnersShape /\ FlightShape
        /\ Unsent /\ InvalidUnsent /\ LaterUnsent /\ HolderSends
    BY DEF Shape, Truthful
  <1>1. /\ OwnersKept
        /\ runner'[r] = Idle /\ \A s \in Runners : s # r => runner'[s] = runner[s]
        /\ runner[r].pc = "record"
        /\ \E e \in Executions : \E i \in Steps(e) :
              runner[r].command = <<e, i>> /\ (row' = row \/ RecordWrites(r, e, i))
    BY <1>0, RecordEffect
  <1>2. /\ Idle.command \notin Commands
        /\ \A p \in Executions : \A j \in Steps(p) : <<p, j>> \in Commands /\ Idle.command # <<p, j>>
    BY NotACommand, CommandPairs, IdleShape
  <1>3. CommandsHeld /\ \A s \in Runners : runner'[s].command \in Commands => s # r /\ runner'[s] = runner[s]
    BY <1>1, <1>2 DEF CommandsHeld
  <1>4. RequestsCome /\ ReceiptsCome
    BY <1>1, OwnersQuiet
  <1>5. CASE row' = row
    BY <1>0, <1>1, <1>3, <1>4, <1>5, RowsKeptQuiet, RunnersKeptQuiet, QuietStep
  <1>6. ASSUME NEW e \in Executions, NEW i \in Steps(e), runner[r].command = <<e, i>>,
               RecordWrites(r, e, i)
        PROVE  Truthful'
    <2>1. RecordedResults(r, e, i)
      BY <1>1, <1>6, RecordedResultsHold
    <2>2. \A p : p # e => row'[p] = row[p]
      BY <1>6 DEF RecordWrites, OnlyRow
    <2>3. receipt' = receipt /\ flight' = flight
      BY <1>1 DEF OwnersKept
    <2>4. Unsent'
      <3> SUFFICES ASSUME NEW p \in Executions, NEW j \in Steps(p), row'[p].results[j].status \in NotSent
                   PROVE  /\ receipt'[<<p, j>>] = NoReceipt
                          /\ \A q \in flight' : q.command # <<p, j>>
                          /\ Kind(<<p, j>>) # "invalid" => \A s \in Runners : runner'[s].command # <<p, j>>
        BY DEF Unsent, Clean, NotSent, Commands, Steps, Kind
      <3>1. CASE p = e /\ j = i
        BY <1>1, <1>2, <2>1, <2>3, <3>1 DEF RecordedResults, Clean
      <3>2. CASE p # e \/ j # i
        <4>1. row[p].results[j].status \in NotSent
          BY <2>1, <2>2, <3>2 DEF RecordedResults
        <4>2. Clean(<<p, j>>) /\ (Kind(<<p, j>>) # "invalid" => \A s \in Runners : runner[s].command # <<p, j>>)
          BY <1>0, <4>1 DEF Unsent
        <4> QED
          BY <1>1, <1>2, <2>3, <4>2 DEF Clean
      <3> QED
        BY <3>1, <3>2
    <2>5. InvalidUnsent'
      <3>1. ASSUME NEW p \in Executions, NEW j \in Steps(p), Kind(<<p, j>>) = "invalid",
                   row[p].results[j].status \in NotSent
            PROVE  row'[p].results[j].status \in NotSent
        BY <2>1, <2>2, <3>1 DEF RecordedResults
      <3>2. ASSUME NEW p \in Executions, NEW j \in Steps(p), NEW s \in Runners, runner'[s].command = <<p, j>>
            PROVE  runner'[s] = runner[s]
        BY <1>2, <1>3, <3>2
      <3> QED
        BY <1>0, <1>4, <3>1, <3>2, InvalidKept
    <2>6. LaterUnsent'
      <3>1. ASSUME NEW p \in Executions, NEW j \in Steps(p), row'[p].next < j
            PROVE  /\ row[p].next < j
                   /\ row[p].results[j].status \in NotSent => row'[p].results[j].status \in NotSent
        <4>1. CASE p # e
          BY <2>2, <3>1, <4>1
        <4>2. CASE p = e
          <5>1. row[e] \in RowType(e) /\ row'[e] \in RowType(e)
            BY <1>0, <1>6 DEF RowsType, RecordWrites, OnlyRow
          <5>2. row[e].next \in Nat /\ row'[e].next \in Nat /\ j \in Nat
            BY <4>2, <5>1, RowColumns, PlanSteps
          <5>3. row[e].next < j
            BY <2>1, <3>1, <4>2, <5>2 DEF RecordedResults
          <5>4. j # i
            BY <2>1, <5>2, <5>3 DEF RecordedResults
          <5> QED
            BY <2>1, <4>2, <5>3, <5>4 DEF RecordedResults
        <4> QED
          BY <4>1, <4>2
      <3> QED
        BY <1>0, <3>1, LaterKept
    <2>7. HolderSends'
      <3>1. RunnersQuiet
        BY <1>0, <1>1, <1>3, RunnersKeptQuiet
      <3>2. ASSUME NEW s \in Runners, NEW p \in Executions, NEW j \in Steps(p),
                   runner'[s].command = <<p, j>>, row'[p].lease = s
            PROVE  /\ runner[s].command = <<p, j>> /\ row[p].lease = s
                   /\ row'[p].next = row[p].next
                   /\ row'[p].results[j].status \in NotSent => row[p].results[j].status \in NotSent
                   /\ runner'[s].reconciling = runner[s].reconciling
                   /\ FirstSend(s, <<p, j>>) => FirstSend(s, <<p, j>>)'
        <4>1. s # NoRunner
          BY AbsentAssumption
        <4>2. p # e
          BY <2>1, <3>2, <4>1 DEF RecordedResults
        <4>3. row'[p] = row[p] /\ runner'[s] = runner[s] /\ <<p, j>> \in Commands
          BY <1>2, <1>3, <2>2, <3>2, <4>2
        <4>4. FirstSend(s, <<p, j>>) => FirstSend(s, <<p, j>>)'
          BY <1>1, <1>2, <2>3, <4>3 DEF FirstSend
        <4> QED
          BY <3>2, <4>3, <4>4
      <3> QED
        BY <1>0, <3>2, HolderKept
    <2> QED
      BY <2>4, <2>5, <2>6, <2>7 DEF Truthful
  <1> QED
    BY <1>1, <1>5, <1>6

\* Every step keeps the truth of failures.
LEMMA TruthfulStep == Shape /\ Truthful /\ [Next]_vars => Truthful'
  <1> SUFFICES ASSUME Shape, Truthful, [Next]_vars PROVE Truthful'
    OBVIOUS
  <1>1. /\ RowsType /\ RunnersShape /\ FlightShape /\ LaterUnsent
        /\ faults \in 0..MaxFaults
    BY DEF Shape, Truthful
  <1>2. Idle.command \notin Commands /\ \A e : <<e, 0>> \notin Commands
    BY NotACommand, IdleShape
  <1>3. ASSUME OwnersKept, RowsQuiet,
               \A s \in Runners : runner'[s].command \in Commands => runner'[s] = runner[s]
        PROVE  Truthful'
    <2>1. RequestsCome /\ ReceiptsCome
      BY <1>3, OwnersQuiet
    <2>2. CommandsHeld
      BY <1>3 DEF CommandsHeld
    <2> QED
      BY <1>1, <1>3, <2>1, <2>2, RunnersKeptQuiet, QuietStep
  <1>4. ASSUME NEW r \in Runners, NEW e \in Executions, Quarantine(r, e) PROVE Truthful'
    <2>1. OnlyRow(e) /\ IsQuarantined(row[e], row'[e]) /\ ElseKept
      BY <1>1, <1>4, QuarantineEffect
    <2>2. RowsQuiet
      BY <2>1, OneRowQuiet DEF IsQuarantined, SameProgress, SameLease
    <2> QED
      BY <1>3, <2>1, <2>2 DEF ElseKept
  <1>5. ASSUME NEW r \in Runners, NEW e \in Executions, CancelRest(r, e) PROVE Truthful'
    <2> DEFINE S == row[e].next..Len(Plan[e])
    <2>1. /\ OnlyRow(e) /\ ElseKept /\ IsCancelled(row[e], e, S, row'[e])
          /\ row[e].results[row[e].next].status = "pending"
      BY <1>1, <1>5, CancelRestEffect
    <2>2. \A i \in Steps(e) : i \in S => row[e].next < i \/ row[e].results[i].status = "pending"
      <3>1. row[e].next \in Nat
        BY <1>1, RowColumns DEF RowsType
      <3>2. \A i \in Steps(e) : i \in S => row[e].next < i \/ row[e].next = i
        BY <3>1, PlanSteps
      <3> QED
        BY <2>1, <3>2
    <2> HIDE DEF S
    <2>3. RowsQuiet
      BY <1>1, <2>1, <2>2, CancelledQuiet DEF ElseKept
    <2> QED
      BY <1>3, <2>1, <2>3 DEF ElseKept
  <1>6. ASSUME NEW r \in Runners, NEW e \in Executions, ClaimEvaluation(r, e) PROVE Truthful'
    <2>1. /\ OnlyRow(e) /\ IsLeased(row[e], r, row'[e]) /\ OwnersKept
          /\ runner'[r].command = <<e, 0>>
          /\ \A s \in Runners : s # r => runner'[s] = runner[s]
      BY <1>1, <1>6, ClaimEvaluationEffect
    <2>2. \A s \in Runners : runner'[s].command \in Commands => s # r /\ runner'[s] = runner[s]
      BY <1>2, <2>1
    <2>3. RowsQuiet
      BY <2>1, <2>2, OneRowQuiet DEF IsLeased, SameProgress
    <2> QED
      BY <1>3, <2>1, <2>2, <2>3
  <1>7. ASSUME NEW r \in Runners, NEW e \in Executions, ClaimAction(r, e) PROVE Truthful'
    BY <1>7, ClaimActionTruthful
  <1>8. ASSUME NEW r \in Runners, Send(r) PROVE Truthful'
    <2>1. /\ row' = row /\ receipt' = receipt
          /\ runner[r].pc = "send" /\ runner[r].command \in Commands
          /\ runner'[r].command = runner[r].command
          /\ runner'[r].reconciling = runner[r].reconciling
          /\ \A s \in Runners : s # r => runner'[s] = runner[s]
          /\ IF Kind(runner[r].command) = "invalid"
             THEN runner'[r].pc = "record" /\ runner'[r].answer = "refused" /\ flight' = flight
             ELSE /\ runner'[r].pc = "wait"
                  /\ \A p \in flight' : p \in flight \/
                        (p.command = runner[r].command /\ p.version = runner[r].version /\ p.by = r)
      BY <1>1, <1>8, SendEffect
    <2>2. RequestsCome
      BY <2>1 DEF RequestsCome
    <2>3. ReceiptsCome
      BY <2>1 DEF ReceiptsCome
    <2>4. CommandsHeld /\ \A s \in Runners : runner'[s].command = runner[s].command
      BY <2>1 DEF CommandsHeld
    <2>5. ASSUME NEW s \in Runners, runner[s].command \in Commands, FirstSend(s, runner[s].command)
          PROVE  FirstSend(s, runner[s].command)'
      <3> DEFINE c == runner[s].command
      <3>1. FirstSend(s, c) /\ \A t \in Runners : t # s => runner'[t].command # c
        BY <2>4, <2>5 DEF FirstSend
      <3>2. /\ \A p \in flight' : p.command = c =>
                 p.by = s \/ (runner'[s].pc = "record" /\ runner'[s].answer = "unknown")
            /\ receipt'[c] = NoReceipt \/ (runner'[s].pc = "record" /\ runner'[s].answer # "refused")
        <4>1. CASE s = r
          <5>1. \A p \in flight : p.command = c => p.by = s
            BY <2>1, <3>1, <4>1 DEF FirstSend
          <5>2. receipt[c] = NoReceipt
            BY <2>1, <3>1, <4>1 DEF FirstSend
          <5>3. \A p \in flight' : p.command = c => p.by = s
            BY <2>1, <4>1, <5>1
          <5> QED
            BY <2>1, <5>2, <5>3
        <4>2. CASE s # r
          <5>1. runner[r].command # c /\ runner'[s] = runner[s]
            BY <2>1, <3>1, <4>2 DEF FirstSend
          <5>2. \A p \in flight' : p.command = c => p \in flight
            BY <2>1, <5>1
          <5> HIDE DEF c
          <5> QED
            BY <2>1, <3>1, <5>1, <5>2 DEF FirstSend
        <4> QED
          BY <4>1, <4>2
      <3>3. c' = c
        BY <2>4
      <3> QED
        BY <3>1, <3>2, <3>3 DEF FirstSend
    <2>6. RunnersQuiet
      BY <2>1, <2>4, <2>5 DEF RunnersQuiet
    <2> QED
      BY <2>1, <2>2, <2>3, <2>6, RowsKeptQuiet, QuietStep
  <1>9. ASSUME NEW r \in Runners, Evaluate(r) PROVE Truthful'
    <2>1. /\ row' = row /\ OwnersKept
          /\ runner[r].pc = "evaluate"
          /\ runner'[r].command = runner[r].command /\ runner[r].command \in Executions \X {0}
          /\ \A s \in Runners : s # r => runner'[s] = runner[s]
      BY <1>1, <1>9, EvaluateEffect
    <2>2. runner'[r].command \notin Commands
      BY <1>2, <2>1
    <2> QED
      BY <1>3, <2>1, <2>2, RowsKeptQuiet
  <1>10. ASSUME NEW r \in Runners, Record(r) PROVE Truthful'
    BY <1>10, RecordTruthful
  <1>11. ASSUME NEW r \in Runners, Decide(r) PROVE Truthful'
    <2>1. /\ OwnersKept /\ runner'[r] = Idle
          /\ \A s \in Runners : s # r => runner'[s] = runner[s]
          /\ \E e \in Executions :
                \/ row' = row
                \/ OnlyRow(e) /\ IsDecided(row[e], runner[r].answer, runner[r].version, row'[e])
      BY <1>1, <1>11, DecideEffect
    <2>2. \A s \in Runners : runner'[s].command \in Commands => runner'[s] = runner[s]
      BY <1>2, <2>1
    <2>3. ASSUME NEW e \in Executions, OnlyRow(e),
                 IsDecided(row[e], runner[r].answer, runner[r].version, row'[e])
          PROVE  RowsQuiet
      <3>1. row'[e].next = row[e].next /\ row'[e].results = row[e].results /\ row'[e].lease = NoRunner
        BY <2>3 DEF IsDecided, NoLease
      <3> QED
        BY <2>3, <3>1, OneRowQuiet, AbsentAssumption
    <2> QED
      BY <1>3, <2>1, <2>2, <2>3, RowsKeptQuiet
  <1>12. ASSUME NEW r \in Runners, Crash(r) PROVE Truthful'
    <2>1. /\ row' = row /\ receipt' = receipt /\ runner'[r] = Idle
          /\ \A s \in Runners : s # r => runner'[s] = runner[s]
          /\ \A p \in flight' : \E o \in flight :
                /\ o.command = p.command /\ o.version = p.version
                /\ o = p \/ (o.by = r /\ p.by = NoRunner)
      BY <1>1, <1>12, CrashEffect
    <2>2. RequestsCome
      BY <2>1 DEF RequestsCome
    <2>3. ReceiptsCome
      BY <2>1 DEF ReceiptsCome
    <2>4. CommandsHeld /\ \A s \in Runners : runner'[s].command \in Commands => s # r /\ runner'[s] = runner[s]
      BY <1>2, <2>1 DEF CommandsHeld
    <2>5. ASSUME NEW s \in Runners, runner'[s].command \in Commands, FirstSend(s, runner[s].command)
          PROVE  FirstSend(s, runner[s].command)'
      <3> DEFINE c == runner[s].command
      <3>1. /\ FirstSend(s, c) /\ c \in Commands /\ s # r /\ runner'[s] = runner[s]
            /\ \A t \in Runners : t # s => runner'[t].command # c
        <4>1. s # r /\ runner'[s] = runner[s]
          BY <2>4, <2>5
        <4>2. c \in Commands /\ FirstSend(s, c)
          BY <2>5, <4>1
        <4> HIDE DEF c
        <4>3. \A t \in Runners : t # s => runner'[t].command # c
          BY <2>4, <4>2 DEF FirstSend
        <4> QED
          BY <4>1, <4>2, <4>3
      <3>2. /\ \A p \in flight' : p.command = c =>
                 p.by = s \/ (runner'[s].pc = "record" /\ runner'[s].answer = "unknown")
            /\ receipt'[c] = NoReceipt \/ (runner'[s].pc = "record" /\ runner'[s].answer # "refused")
        <4> HIDE DEF c
        <4> QED
          BY <2>1, <3>1 DEF FirstSend
      <3>3. c' = c
        BY <3>1
      <3> QED
        BY <3>1, <3>2, <3>3 DEF FirstSend
    <2>6. RunnersQuiet
      BY <2>4, <2>5 DEF RunnersQuiet
    <2> QED
      BY <2>1, <2>2, <2>3, <2>6, RowsKeptQuiet, QuietStep
  <1>13. ASSUME NEW q \in flight, Owner(q) PROVE Truthful'
    BY <1>13, OwnerQuiet
  <1>14. ASSUME NEW e \in Executions, Cancel(e) PROVE Truthful'
    <2>1. /\ OnlyRow(e) /\ ElseKept
          /\ \/ IsAsked(row[e], row'[e])
             \/ IsCancelled(row[e], e, PendingSteps(row[e]), row'[e])
             \/ IsDropped(row[e], row'[e])
      BY <1>1, <1>14, CancelEffect
    <2>2. CASE IsCancelled(row[e], e, PendingSteps(row[e]), row'[e])
      <3>1. \A i \in Steps(e) : i \in PendingSteps(row[e]) => row[e].results[i].status = "pending"
        BY DEF PendingSteps
      <3>2. RowsQuiet
        BY <1>1, <2>1, <2>2, <3>1, CancelledQuiet DEF ElseKept
      <3> QED
        BY <1>3, <2>1, <3>2 DEF ElseKept
    <2>3. CASE IsAsked(row[e], row'[e]) \/ IsDropped(row[e], row'[e])
      <3>1. /\ row'[e].next = row[e].next /\ row'[e].results = row[e].results
            /\ row'[e].lease = row[e].lease \/ row'[e].lease = NoRunner
        BY <2>3 DEF IsAsked, IsDropped, SameProgress, NoLease
      <3>2. RowsQuiet
        BY <2>1, <3>1, OneRowQuiet, AbsentAssumption
      <3> QED
        BY <1>3, <2>1, <3>2 DEF ElseKept
    <2> QED
      BY <2>1, <2>2, <2>3
  <1>15. ASSUME NEW e \in Executions, LeaseExpires(e) PROVE Truthful'
    <2>1. OnlyRow(e) /\ ElseKept /\ IsExpired(row[e], row'[e])
      BY <1>1, <1>15, LeaseExpiresEffect
    <2>2. RowsQuiet
      BY <2>1, OneRowQuiet DEF IsExpired, SameProgress
    <2> QED
      BY <1>3, <2>1, <2>2 DEF ElseKept
  <1>16. CASE HumanChange
    <2>1. row' = row /\ runner' = runner /\ flight' = flight /\ receipt' = receipt
      BY <1>16 DEF HumanChange
    <2> QED
      BY <2>1 DEF Truthful, Unsent, InvalidUnsent, LaterUnsent, HolderSends, FirstSend, Clean,
                  NotSent, Commands, Steps, Kind
  <1>17. CASE Elsewhere \/ UNCHANGED vars
    BY <1>17 DEF Elsewhere, vars, Truthful, Unsent, InvalidUnsent, LaterUnsent, HolderSends, FirstSend, Clean,
                  NotSent, Commands, Steps, Kind
  <1> QED
    BY <1>4, <1>5, <1>6, <1>7, <1>8, <1>9, <1>10, <1>11, <1>12, <1>13, <1>14, <1>15, <1>16,
       <1>17 DEF Next, Step, Claim

\* A result that says an action had no effect is the truth, and stays it: no answer,
\* retry, cancellation or restart makes RunAutomationOnce record a failure of a command
\* its owner has performed or may still perform.
THEOREM FailuresAreTrue == Spec => []NoFabricatedFailure
  <1>1. Init => Shape /\ Truthful
    BY ShapeInit, TruthfulInit
  <1>2. Shape /\ Truthful /\ [Next]_vars => (Shape /\ Truthful)'
    BY ShapeStep, TruthfulStep
  <1>3. Shape /\ Truthful => NoFabricatedFailure
    BY DEF Truthful, Unsent, Clean, NotSent, NoFabricatedFailure
  <1> QED
    BY <1>1, <1>2, <1>3, PTL DEF Spec

=============================================================================
