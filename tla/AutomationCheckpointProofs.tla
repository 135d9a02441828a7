---------------------- MODULE AutomationCheckpointProofs ----------------------
(***************************************************************************)
(* Theorems about the checkpoints of executions: what the loop writes it   *)
(* accepts when it reads it again (automationCheckpointBase,               *)
(* automationPredecessorVersion), what has ended is not written any more,  *)
(* and what a row reports is what the owners of the commands did.          *)
(*                                                                         *)
(* Sound is the invariant.  Each row is what the checks of                 *)
(* aut_causality.go and aut_failure_policy.go ask for, seen from the       *)
(* version its predecessors left (Base); and a lease is only given where   *)
(* every plan before can be read, so that a row that was set aside has no  *)
(* holder left.                                                            *)
(***************************************************************************)
EXTENDS AutomationBatchProofs, WellFoundedInduction

(***************************************************************************)
(* Checkpoints: what the runner writes it later accepts.                   *)
(***************************************************************************)

\* The parts of a completed prefix (validAutomationContinuingCheckpoint), one by one.
FailedGroups(x, e) ==
    \A i, j \in Steps(e) :
        i < j /\ SameGroup(e, i, j) /\ x.results[i].status = "failed" => x.results[j].status = "dependent"

Carried(x, e, b) ==
    \/ x.version = After(x, e, x.next - 1, b)
    \/ x.next = 1 /\ x.version = FactVersion

StepSound(x, e, i, v) == ValidStep(x, e, i, v) /\ ValidDispatch(x, e, i, v)

\* The parts of a valid prefix (automationPrefixVersion and the steps of a
\* checkpoint).
LEMMA PrefixParts ==
  ASSUME NEW x, NEW e, NEW b
  PROVE  ValidPrefix(x, e, b) <=>
            /\ FailedGroups(x, e)
            /\ \A i \in 1..(x.next - 1) : StepSound(x, e, i, After(x, e, i - 1, b))
            /\ Carried(x, e, b)
  BY DEF ValidPrefix, FailedGroups, StepSound, Carried

\* A completed action succeeded, failed, or depends on one of its source action that failed.
LEMMA StepCases ==
  ASSUME NEW x, NEW e, NEW i, NEW v
  PROVE  ValidStep(x, e, i, v) <=>
            \/ /\ x.results[i].status = "succeeded" /\ Advances(e, i, x.results[i].version, v)
               /\ \A j \in 1..(i - 1) : SameGroup(e, i, j) => x.results[j].status = "succeeded"
            \/ x.results[i].status = "failed" /\ x.results[i].version = 0
            \/ /\ x.results[i].status = "dependent" /\ x.results[i].version = 0
               /\ \E j \in 1..(i - 1) :
                     /\ SameGroup(e, i, j) /\ x.results[j].status = "failed"
                     /\ \A k \in (j + 1)..(i - 1) : x.results[k].status = "dependent"
  BY DEF ValidStep

\* A frozen command fits its result and the version.
LEMMA DispatchCases ==
  ASSUME NEW x, NEW e, NEW i, NEW v
  PROVE  ValidDispatch(x, e, i, v) <=>
            /\ Plan[e][i].kind = "invalid" =>
                  x.dispatch[i] = 0 /\ x.results[i].status \notin {"accepted", "unknown", "succeeded"}
            /\ Plan[e][i].kind # "invalid" /\ x.results[i].status \in {"dependent", "cancelled"} =>
                  x.dispatch[i] = 0
            /\ Plan[e][i].kind # "invalid" /\ x.results[i].status \notin {"dependent", "cancelled"} =>
                  /\ x.dispatch[i] = 0 => x.results[i].status = "pending"
                  /\ x.dispatch[i] # 0 => Plan[e][i].kind = "resolve" \/ x.dispatch[i] = v
  <1> DEFINE k == Plan[e][i].kind
             s == x.results[i].status
             d == x.dispatch[i]
  <1>1. ValidDispatch(x, e, i, v) <=>
          CASE k = "invalid" -> d = 0 /\ s \notin {"accepted", "unknown", "succeeded"}
            [] k # "invalid" /\ s \in {"dependent", "cancelled"} -> d = 0
            [] OTHER -> IF d = 0 THEN s = "pending" ELSE k = "resolve" \/ d = v
    BY DEF ValidDispatch
  <1> HIDE DEF k, s, d
  <1>2. CASE k = "invalid"
    BY <1>1, <1>2 DEF k, s, d
  <1>3. CASE k # "invalid" /\ s \in {"dependent", "cancelled"}
    BY <1>1, <1>3 DEF k, s, d
  <1>4. CASE k # "invalid" /\ s \notin {"dependent", "cancelled"}
    <2>1. ValidDispatch(x, e, i, v) <=> IF d = 0 THEN s = "pending" ELSE k = "resolve" \/ d = v
      BY <1>1, <1>4
    <2> QED
      BY <1>4, <2>1 DEF k, s, d
  <1> QED
    BY <1>2, <1>3, <1>4

\* What rows that agree on a prefix say of it.
LEMMA SameConfirmed ==
  ASSUME NEW x, NEW y, NEW e, NEW n \in Int, NEW m \in Int, m <= n,
         \A j \in 1..m : y.results[j] = x.results[j],
         \A j \in 1..n : m < j => y.results[j].status # "succeeded",
         NEW b
  PROVE  After(y, e, n, b) = After(x, e, m, b)
  <1>1. \A j \in 1..m : j \in 1..n
    OBVIOUS
  <1>2. \A j \in 1..n : j \in 1..m \/ m < j
    OBVIOUS
  <1>3. ASSUME NEW j PROVE j \in Confirmed(y, e, n) <=> j \in Confirmed(x, e, m)
    <2>1. CASE j \in 1..m
      BY <1>1, <2>1 DEF Confirmed
    <2>2. CASE j \notin 1..m
      BY <1>2, <2>2 DEF Confirmed
    <2> QED
      BY <2>1, <2>2
  <1>4. Confirmed(y, e, n) = Confirmed(x, e, m)
    BY <1>3
  <1> QED
    BY <1>4 DEF After

\* One more action.
LEMMA AfterNext ==
  ASSUME NEW x, NEW e, NEW n \in Nat \ {0}, NEW b \in Nat
  PROVE  /\ After(x, e, n - 1, b) \in Nat
         /\ Plan[e][n].kind = "change" /\ x.results[n].status = "succeeded"
               => After(x, e, n, b) = After(x, e, n - 1, b) + 1
         /\ ~(Plan[e][n].kind = "change" /\ x.results[n].status = "succeeded")
               => After(x, e, n, b) = After(x, e, n - 1, b)
  <1> DEFINE S == Confirmed(x, e, n - 1)
             T == Confirmed(x, e, n)
  <1>1. n - 1 \in Nat
    OBVIOUS
  <1>2. IsFiniteSet(S) /\ Cardinality(S) \in Nat /\ \A i \in S : i \in Nat /\ i <= n - 1
    BY <1>1, ConfirmedFinite
  <1>3. n \notin S
    BY <1>2
  <1>4. \A j : j \in 1..n <=> j \in 1..(n - 1) \/ j = n
    OBVIOUS
  <1>5. After(x, e, n - 1, b) = b + Cardinality(S) /\ After(x, e, n, b) = b + Cardinality(T)
    BY DEF After
  <1>6. CASE Plan[e][n].kind = "change" /\ x.results[n].status = "succeeded"
    <2>1. T = S \cup {n}
      BY <1>4, <1>6 DEF Confirmed
    <2> HIDE DEF S, T
    <2>2. Cardinality(T) = Cardinality(S) + 1
      BY <1>2, <1>3, <2>1, FS_AddElement
    <2> QED
      BY <1>2, <1>5, <1>6, <2>2
  <1>7. CASE ~(Plan[e][n].kind = "change" /\ x.results[n].status = "succeeded")
    <2>1. T = S
      BY <1>4, <1>7 DEF Confirmed
    <2> HIDE DEF S, T
    <2> QED
      BY <1>2, <1>5, <1>7, <2>1
  <1> QED
    BY <1>6, <1>7

\* A step says the same in a row with the same results up to it.
LEMMA SameStep ==
  ASSUME NEW x, NEW y, NEW e, NEW i \in Nat, 1 <= i, NEW v,
         \A j \in 1..i : y.results[j] = x.results[j],
         y.dispatch[i] = x.dispatch[i]
  PROVE  StepSound(y, e, i, v) <=> StepSound(x, e, i, v)
  <1>1. i \in 1..i /\ \A j \in 1..(i - 1) : j \in 1..i /\ \A k \in (j + 1)..(i - 1) : k \in 1..i
    OBVIOUS
  <1>2. y.results[i] = x.results[i] /\ \A j \in 1..(i - 1) : y.results[j] = x.results[j]
    BY <1>1
  <1>3. \A j \in 1..(i - 1) : \A k \in (j + 1)..(i - 1) : y.results[k] = x.results[k]
    BY <1>1
  <1>4. ValidStep(y, e, i, v) <=> ValidStep(x, e, i, v)
    BY <1>2, <1>3, StepCases
  <1>5. ValidDispatch(y, e, i, v) <=> ValidDispatch(x, e, i, v)
    BY <1>2, DispatchCases
  <1> QED
    BY <1>4, <1>5 DEF StepSound

\* Deferred conditions: a row without its context is as it was admitted, and a decision
\* names the version the executions before have left.
Deferral(e, x, b) ==
    /\ ~x.context => /\ x.next = 1 /\ x.version = FactVersion
                     /\ \A i \in Steps(e) : x.results[i] = Pending /\ x.dispatch[i] = 0
    /\ x.evaluation \in {"none", "pending", "unreadable"} <=> x.evaluated = 0
    /\ x.evaluated # 0 => x.evaluated = b
    /\ x.context => x.evaluation \in {"none", "unreadable", "matched"}
    /\ x.evaluation = "pending" /\ x.status \in FinalStatus \ {"manual_action_required"} =>
          x.status = "cancelled"
    /\ x.evaluation = "unreadable" => x.context

\* An execution that may go on: its next action, and nothing after it.
Place(e, x) ==
    /\ x.next \in Steps(e)
    /\ \A i \in Steps(e) : x.next < i => x.results[i] = Pending /\ x.dispatch[i] = 0
    /\ x.results[x.next].version = 0
    /\ \/ x.results[x.next].status = "pending" /\ x.dispatch[x.next] = 0
       \/ /\ x.results[x.next].status \in {"accepted", "unknown"}
          /\ Kind(<<e, x.next>>) # "invalid"
          /\ x.dispatch[x.next] = x.version

\* Once it has started, its version is the one its completed actions lead to.
CaughtUp(e, x, b) ==
    x.next # 1 \/ x.status \in {"running", "waiting"} => x.version = After(x, e, x.next - 1, b)

\* An execution that has ended with its plan.
Gone(e, x) ==
    IF x.status = "cancelled"
    THEN \A i \in Steps(e) : x.next <= i => x.results[i].status = "cancelled" /\ x.dispatch[i] = 0
    ELSE x.next = Len(Plan[e]) + 1 /\ x.status = CompletedStatus(x.results)

\* A row the loop takes for sound, when the executions before it have left version b.
RowSound(e, x, b) ==
    /\ Deferral(e, x, b)
    /\ ValidPrefix(x, e, b)
    /\ x.status \in ActiveStatus => Place(e, x) /\ CaughtUp(e, x, b)
    /\ x.status \in FinalStatus \ {"manual_action_required"} /\ x.context => Gone(e, x)

\* The rows of a batch: sound, and set aside only behind one that cannot be read.
Sound ==
    \A e \in Executions :
        /\ RowSound(e, row[e], Base(e))
        /\ row[e].lease # NoRunner => ~Damaged(e)
        /\ row[e].status = "manual_action_required" => Damaged(e)
        /\ row[e].status \in {"running", "waiting"} => Preceded(e)

\* Versions count the same actions in rows with the same results.
LEMMA SameAfter ==
  ASSUME NEW x, NEW y, y.results = x.results, NEW e, NEW n, NEW b
  PROVE  After(y, e, n, b) = After(x, e, n, b)
  BY DEF After, Confirmed

\* A completed prefix depends on the place, the version, results and dispatches only.
LEMMA SamePrefix ==
  ASSUME NEW e, NEW x, NEW y, NEW b, SameProgress(x, y)
  PROVE  ValidPrefix(x, e, b) => ValidPrefix(y, e, b)
  <1> SUFFICES ASSUME ValidPrefix(x, e, b) PROVE ValidPrefix(y, e, b)
    OBVIOUS
  <1>1. \A n : After(y, e, n, b) = After(x, e, n, b)
    BY SameAfter DEF SameProgress
  <1>2. FailedGroups(y, e)
    BY PrefixParts DEF FailedGroups, SameProgress
  <1>3. Carried(y, e, b)
    BY <1>1, PrefixParts DEF Carried, SameProgress
  <1>4. ASSUME NEW i \in 1..(y.next - 1) PROVE StepSound(y, e, i, After(y, e, i - 1, b))
    <2>1. i \in 1..(x.next - 1) /\ StepSound(x, e, i, After(x, e, i - 1, b))
      BY PrefixParts DEF SameProgress
    <2>2. StepSound(y, e, i, After(x, e, i - 1, b))
      BY <2>1 DEF StepSound, ValidStep, ValidDispatch, SameProgress
    <2> QED
      BY <1>1, <2>2
  <1> QED
    BY <1>2, <1>3, <1>4, PrefixParts

\* A row that is only set aside, leased or asked to stop is as sound as before.
LEMMA KeptSound ==
  ASSUME NEW e, NEW x, NEW y, NEW b, SameProgress(x, y), SameOrigin(x, y), RowSound(e, x, b),
         y.status = x.status \/ y.status = "manual_action_required"
  PROVE  RowSound(e, y, b)
  <1>1. ValidPrefix(y, e, b)
    BY SamePrefix DEF RowSound
  <1>2. Deferral(e, y, b)
    BY DEF Deferral, SameProgress, SameOrigin, RowSound
  <1>3. CASE y.status = "manual_action_required"
    BY <1>1, <1>2, <1>3 DEF RowSound, ActiveStatus
  <1>4. CASE y.status = x.status
    <2>1. x.status \in ActiveStatus => Place(e, y)
      BY DEF RowSound, Place, SameProgress
    <2>2. x.status \in ActiveStatus => CaughtUp(e, y, b)
      <3>1. After(y, e, y.next - 1, b) = After(x, e, x.next - 1, b)
        BY SameAfter DEF SameProgress
      <3> QED
        BY <1>4, <3>1 DEF RowSound, CaughtUp, SameProgress
    <2>3. y.status \in FinalStatus \ {"manual_action_required"} /\ y.context => Gone(e, y)
      BY <1>4 DEF RowSound, Gone, SameProgress, SameOrigin
    <2> QED
      BY <1>1, <1>2, <1>4, <2>1, <2>2, <2>3 DEF RowSound
  <1> QED
    BY <1>3, <1>4

\* An execution that has not started does not care what those before it will leave.
LEMMA UnstartedSound ==
  ASSUME NEW e, NEW x, NEW a, NEW b, RowSound(e, x, a),
         x.next = 1, x.version = FactVersion, x.evaluated = 0, x.status \notin {"running", "waiting"}
  PROVE  RowSound(e, x, b)
  <1>1. ValidPrefix(x, e, b)
    <2>1. FailedGroups(x, e) /\ Carried(x, e, b)
      BY PrefixParts DEF RowSound, Carried
    <2>2. 1..(x.next - 1) = {}
      OBVIOUS
    <2> QED
      BY <2>1, <2>2, PrefixParts
  <1>2. Deferral(e, x, b)
    BY DEF RowSound, Deferral
  <1>3. CaughtUp(e, x, b)
    BY DEF CaughtUp
  <1> QED
    BY <1>1, <1>2, <1>3 DEF RowSound

\* What an execution inherits stays, once those before it have ended.
LEMMA SameBase ==
  ASSUME NEW e \in Executions, \A p \in 1..(e - 1) : row'[p] = row[p]
  PROVE  Base(e)' = Base(e)
  <1>1. \A c \in Commands : c[1] < e => c[1] \in 1..(e - 1)
    BY CommandPairs, ExecutionNumbers
  <1>2. \A c \in Commands : c[1] < e => row'[c[1]] = row[c[1]]
    BY <1>1
  <1>3. ASSUME NEW c
        PROVE  c \in Commands /\ c[1] < e /\ c[2] \in Confirmed(row'[c[1]], c[1], row'[c[1]].next - 1)
                <=> c \in Commands /\ c[1] < e /\ c[2] \in Confirmed(row[c[1]], c[1], row[c[1]].next - 1)
    BY <1>2
  <1>4. {c \in Commands : c[1] < e /\ c[2] \in Confirmed(row'[c[1]], c[1], row'[c[1]].next - 1)}
          = {c \in Commands : c[1] < e /\ c[2] \in Confirmed(row[c[1]], c[1], row[c[1]].next - 1)}
    BY <1>3
  <1>5. Base(e)' = FactVersion
          + Cardinality({c \in Commands : c[1] < e /\ c[2] \in Confirmed(row'[c[1]], c[1], row'[c[1]].next - 1)})
    BY DEF Base
  <1> QED
    BY <1>4, <1>5 DEF Base

\* Whether a plan can be read is decided at admission.
LEMMA SameDamage ==
  ASSUME \A p \in Executions : row'[p].evaluation = "unreadable" <=> row[p].evaluation = "unreadable",
         NEW e \in Executions
  PROVE  Damaged(e)' <=> Damaged(e)
  <1>1. \A p \in 1..e : p \in Executions
    BY ExecutionNumbers
  <1> QED
    BY <1>1 DEF Damaged

\* A row that is not written stays sound while the rows before it go on.
LEMMA OtherSound ==
  ASSUME Shape, Truthful, Fenced, Sound, [Next]_vars, NEW p \in Executions, row'[p] = row[p]
  PROVE  /\ RowSound(p, row'[p], Base(p)')
         /\ row[p].status \in {"running", "waiting"} => Preceded(p)'
  <1>1. CASE Preceded(p)
    <2>1. Preceded(p)' /\ \A q \in 1..(p - 1) : row'[q] = row[q]
      BY <1>1, PrecededStays
    <2>2. Base(p)' = Base(p)
      BY <2>1, SameBase
    <2> QED
      BY <2>1, <2>2 DEF Sound
  <1>2. CASE ~Preceded(p)
    <2>1. ~Started(p)
      BY <1>2 DEF Fenced, Ordered
    <2>2. row[p].next = 1 /\ row[p].version = FactVersion /\ row[p].evaluated = 0
      BY <2>1 DEF Started
    <2>3. row[p].status \notin {"running", "waiting"} /\ RowSound(p, row[p], Base(p))
      BY <1>2 DEF Sound
    <2>4. RowSound(p, row[p], Base(p)')
      BY <2>2, <2>3, UnstartedSound
    <2> QED
      BY <2>3, <2>4
  <1> QED
    BY <1>1, <1>2

\* A step that writes one soundly keeps all sound.
LEMMA SoundNext ==
  ASSUME Shape, Truthful, Fenced, Sound, [Next]_vars, NEW e \in Executions, OnlyRow(e),
         RowSound(e, row'[e], Base(e)),
         row'[e].evaluation = "unreadable" <=> row[e].evaluation = "unreadable",
         row'[e].lease # NoRunner => ~Damaged(e),
         row'[e].status = "manual_action_required" => Damaged(e),
         row'[e].status \in {"running", "waiting"} => Preceded(e)
  PROVE  Sound'
  <1>1. \A p : p # e => row'[p] = row[p]
    BY DEF OnlyRow
  <1>2. \A p \in Executions : row'[p].evaluation = "unreadable" <=> row[p].evaluation = "unreadable"
    BY <1>1
  <1>3. \A p \in Executions : Damaged(p)' <=> Damaged(p)
    BY <1>2, SameDamage
  <1>4. \A q \in 1..(e - 1) : row'[q] = row[q]
    BY <1>1, ExecutionNumbers
  <1>5. Base(e)' = Base(e)
    BY <1>4, SameBase
  <1>6. Preceded(e) => Preceded(e)'
    BY PrecededStays
  <1>7. ASSUME NEW p \in Executions
        PROVE  /\ RowSound(p, row'[p], Base(p)')
               /\ row'[p].lease # NoRunner => ~Damaged(p)'
               /\ row'[p].status = "manual_action_required" => Damaged(p)'
               /\ row'[p].status \in {"running", "waiting"} => Preceded(p)'
    <2>1. CASE p = e
      BY <1>3, <1>5, <1>6, <2>1
    <2>2. CASE p # e
      <3>1. row'[p] = row[p]
        BY <1>1, <2>2
      <3>2. /\ row[p].lease # NoRunner => ~Damaged(p)
            /\ row[p].status = "manual_action_required" => Damaged(p)
        BY DEF Sound
      <3> QED
        BY <1>3, <3>1, <3>2, OtherSound
    <2> QED
      BY <2>1, <2>2
  <1> QED
    BY <1>7 DEF Sound

\* Steps of owners, processes and people that write no row.
LEMMA SoundNoRow ==
  ASSUME Shape, Truthful, Fenced, Sound, [Next]_vars, row' = row
  PROVE  Sound'
  <1>1. \A p \in Executions : Damaged(p)' <=> Damaged(p)
    BY SameDamage
  <1>2. ASSUME NEW p \in Executions
        PROVE  /\ RowSound(p, row'[p], Base(p)')
               /\ row'[p].lease # NoRunner => ~Damaged(p)'
               /\ row'[p].status = "manual_action_required" => Damaged(p)'
               /\ row'[p].status \in {"running", "waiting"} => Preceded(p)'
    <2>1. /\ row[p].lease # NoRunner => ~Damaged(p)
          /\ row[p].status = "manual_action_required" => Damaged(p)
      BY DEF Sound
    <2> QED
      BY <1>1, <2>1, OtherSound
  <1> QED
    BY <1>2 DEF Sound

\* The four forms in which admission leaves a row.
LEMMA SoundInit == Init => Sound
  <1> SUFFICES ASSUME Init PROVE Sound
    OBVIOUS
  <1>1. PICK f \in [Executions -> {Queued, Deferred, Rejected, Unreadable}] :
           row = [e \in Executions |-> Admitted(e, f[e])]
    BY DEF Init
  <1>2. ASSUME NEW e \in Executions
        PROVE  /\ RowSound(e, row[e], Base(e))
               /\ row[e].lease = NoRunner
               /\ row[e].status \notin {"manual_action_required", "running", "waiting"}
    <2> DEFINE x == row[e]
    <2>1. /\ x.next = 1 /\ x.version = FactVersion /\ x.evaluated = 0
          /\ x.lease = NoRunner
          /\ \A i \in Steps(e) : x.results[i] = Pending /\ x.dispatch[i] = 0
      BY <1>1 DEF Admitted
    <2>2. \/ x.status = "received" /\ x.context /\ x.evaluation \in {"none", "unreadable"}
          \/ x.status = "evaluating" /\ ~x.context /\ x.evaluation = "pending"
          \/ x.status = "failed" /\ ~x.context /\ x.evaluation = "none"
      <3>1. f[e] \in {Queued, Deferred, Rejected, Unreadable}
        BY <1>1
      <3>2. x.status = f[e].status /\ x.context = f[e].context /\ x.evaluation = f[e].evaluation
        BY <1>1 DEF Admitted
      <3> QED
        BY <3>1, <3>2 DEF Queued, Deferred, Rejected, Unreadable
    <2> HIDE DEF x
    <2>3. Deferral(e, x, Base(e))
      BY <2>1, <2>2 DEF Deferral, FinalStatus
    <2>4. ValidPrefix(x, e, Base(e))
      <3>1. FailedGroups(x, e)
        BY <2>1 DEF FailedGroups, Pending
      <3>2. Carried(x, e, Base(e)) /\ 1..(x.next - 1) = {}
        BY <2>1 DEF Carried
      <3> QED
        BY <3>1, <3>2, PrefixParts
    <2>5. Place(e, x)
      <3>1. 1 \in Steps(e)
        BY PlanSteps DEF Steps
      <3> QED
        BY <2>1, <3>1 DEF Place, Pending
    <2>6. CaughtUp(e, x, Base(e))
      BY <2>1, <2>2 DEF CaughtUp
    <2>7. ~(x.status \in FinalStatus \ {"manual_action_required"} /\ x.context)
      BY <2>2 DEF FinalStatus
    <2>8. RowSound(e, x, Base(e))
      BY <2>3, <2>4, <2>5, <2>6, <2>7 DEF RowSound
    <2> QED
      BY <2>1, <2>2, <2>8 DEF x
  <1> QED
    BY <1>2 DEF Sound

\* The first number of a set.
FirstOf(S) == CHOOSE i \in S : \A j \in S : i <= j

\* A set of numbers has a first.
LEMMA FirstExists ==
  ASSUME NEW S \in SUBSET Nat, S # {}
  PROVE  FirstOf(S) \in S /\ \A j \in S : FirstOf(S) <= j
  <1> DEFINE Less == OpToRel(<, Nat)
  <1>1. \A i, j \in Nat : <<j, i>> \in Less <=> j < i
    BY DEF OpToRel
  <1>2. IsWellFoundedOn(Less, Nat)
    BY NatLessThanWellFounded
  <1> HIDE DEF Less
  <1>3. PICK i \in S : \A j \in S : ~(<<j, i>> \in Less)
    BY <1>2, WFMin
  <1>4. \A j \in S : ~(j < i)
    BY <1>1, <1>3
  <1>5. \E m \in S : \A j \in S : m <= j
    BY <1>3, <1>4
  <1> QED
    BY <1>5, Zenon DEF FirstOf

\* The first action that tells of a version tells of the one the execution started at.
LEMMA BaseTold ==
  ASSUME NEW e \in Executions, NEW x \in RowType(e), NEW b \in Nat,
         ValidPrefix(x, e, b), x.next # 1, x.evaluated = 0
  PROVE  CheckpointBase(x, e) = b
  <1> DEFINE Framed == {i \in 1..(x.next - 1) : Plan[e][i].kind # "resolve" /\ x.dispatch[i] # 0}
             Telling == Framed \cup {i \in 1..(x.next - 1) : x.results[i].status = "succeeded"}
             first == FirstOf(Telling)
  <1>1. CheckpointBase(x, e) = IF Telling = {} THEN x.version
                               ELSE IF first \in Framed THEN x.dispatch[first] ELSE x.results[first].version
    BY DEF CheckpointBase, FirstOf
  <1>2. x.next \in Nat /\ 1 <= x.next
    BY RowColumns
  <1>3. /\ \A i \in 1..(x.next - 1) : StepSound(x, e, i, After(x, e, i - 1, b))
        /\ x.version = After(x, e, x.next - 1, b)
    BY PrefixParts DEF Carried
  <1>4. ASSUME NEW n \in Nat, Confirmed(x, e, n) = {} PROVE After(x, e, n, b) = b
    BY <1>4, FS_EmptySet DEF After
  <1>5. CASE Telling = {}
    <2>1. Confirmed(x, e, x.next - 1) = {}
      BY <1>5 DEF Confirmed
    <2>2. x.next - 1 \in Nat
      BY <1>2
    <2>3. x.version = b
      BY <1>3, <1>4, <2>1, <2>2
    <2> HIDE DEF first, Framed, Telling
    <2> QED
      BY <1>1, <1>5, <2>3
  <1>6. CASE Telling # {}
    <2>1. \A i \in Telling : i \in 1..(x.next - 1)
      OBVIOUS
    <2>2. Telling \in SUBSET Nat
      BY <1>2, <2>1
    <2>3. first \in Telling /\ \A j \in Telling : first <= j
      <3> HIDE DEF Telling
      <3> QED
        BY <1>6, <2>2, FirstExists
    <2>4. first \in 1..(x.next - 1) /\ first \in Nat /\ first - 1 \in Nat
      <3> HIDE DEF first, Telling
      <3>1. first \in 1..(x.next - 1)
        BY <2>1, <2>3
      <3> QED
        BY <1>2, <3>1
    <2>5. ASSUME NEW i \in Confirmed(x, e, first - 1) PROVE FALSE
      <3>1. i \in 1..(first - 1) /\ x.results[i].status = "succeeded"
        BY <2>5 DEF Confirmed
      <3>2. i \in 1..(x.next - 1) /\ i < first
        BY <1>2, <2>4, <3>1
      <3>3. i \in Telling
        BY <3>1, <3>2
      <3> HIDE DEF Telling, first
      <3> QED
        BY <2>2, <2>3, <2>4, <3>2, <3>3
    <2>6. After(x, e, first - 1, b) = b
      BY <1>4, <2>4, <2>5
    <2>7. StepSound(x, e, first, b)
      BY <1>3, <2>4, <2>6
    <2>8. /\ ValidStep(x, e, first, b) /\ ValidDispatch(x, e, first, b)
      BY <2>7 DEF StepSound
    <2>9. CASE first \in Framed
      <3>1. Plan[e][first].kind # "resolve" /\ x.dispatch[first] # 0
        BY <2>9
      <3> HIDE DEF first, Framed, Telling
      <3>2. x.dispatch[first] = b
        BY <2>8, <3>1, DispatchCases
      <3> QED
        BY <1>1, <1>6, <2>9, <3>2
    <2>10. CASE first \notin Framed
      <3>1. x.results[first].status = "succeeded" /\ (Plan[e][first].kind = "resolve" \/ x.dispatch[first] = 0)
        BY <2>3, <2>4, <2>10
      <3> HIDE DEF first, Framed, Telling
      <3>2. Advances(e, first, x.results[first].version, b)
        BY <2>8, <3>1, StepCases
      <3>3. Plan[e][first].kind = "resolve"
        BY <2>8, <3>1, DispatchCases
      <3>4. x.results[first].version = b
        BY <3>2, <3>3 DEF Advances
      <3> QED
        BY <1>1, <1>6, <2>10, <3>4
    <2> QED
      BY <2>9, <2>10
  <1> QED
    BY <1>5, <1>6

\* A sound row that has ended proves what it left.
LEMMA EndedProves ==
  ASSUME RowsType, Sound, NEW p \in Executions, Ended(p), row[p].evaluation # "unreadable"
  PROVE  Proves(p)
  <1> DEFINE x == row[p]
  <1>1. RowSound(p, x, Base(p)) /\ x.status \in FinalStatus \ {"manual_action_required"}
    BY DEF Sound, Ended
  <1>2. Deferral(p, x, Base(p)) /\ ValidPrefix(x, p, Base(p)) /\ (x.context => Gone(p, x))
    BY <1>1 DEF RowSound
  <1>3. x.evaluation = "pending" => x.status = "cancelled"
    BY <1>1, <1>2 DEF Deferral
  <1>4. x.evaluation \notin {"none", "pending"} => x.evaluated = Base(p)
    BY <1>2 DEF Deferral
  <1>5. x.context => ValidFinal(x, p, Base(p))
    <2> SUFFICES ASSUME x.context PROVE ValidFinal(x, p, Base(p))
      OBVIOUS
    <2>1. x.next \in Nat /\ 1 <= x.next /\ Len(Plan[p]) \in Nat
      BY RowColumns, PlanSteps DEF RowsType
    <2>2. \A i \in x.next..Len(Plan[p]) : i \in Steps(p) /\ x.next <= i
      <3> HIDE DEF x
      <3> QED
        BY <2>1 DEF Steps
    <2> QED
      BY <1>2, <2>2 DEF ValidFinal, Gone
  <1>6. ~x.context => x.next = 1 /\ x.version = FactVersion
    BY <1>2 DEF Deferral
  <1> QED
    BY <1>1, <1>3, <1>4, <1>5, <1>6 DEF Proves

\* The executions before one whose turn it is have ended.
LEMMA TurnPreceded ==
  ASSUME RowsType, Sound, NEW e \in Executions, \A p \in 1..(e - 1) : ~Active(p), ~Damaged(e - 1)
  PROVE  /\ Preceded(e)
         /\ PredecessorVersion(e) # 0 /\ PredecessorVersion(e) = Base(e)
  <1>1. ASSUME NEW p \in 1..(e - 1) PROVE p \in Executions /\ Ended(p) /\ Proves(p)
    <2>1. p \in Executions /\ \A q \in 1..p : q \in 1..(e - 1)
      BY ExecutionNumbers
    <2>2. ~Damaged(p) /\ row[p].evaluation # "unreadable"
      BY <2>1, ExecutionNumbers DEF Damaged
    <2>3. row[p].status # "manual_action_required"
      BY <2>1, <2>2 DEF Sound
    <2>4. row[p].status \in ActiveStatus \cup FinalStatus
      BY <2>1, RowColumns DEF RowsType
    <2>5. row[p].status \notin ActiveStatus
      BY DEF Active
    <2>6. Ended(p)
      BY <2>3, <2>4, <2>5 DEF Ended
    <2> QED
      BY <2>1, <2>2, <2>6, EndedProves
  <1>2. \A p \in 1..(e - 1) : Proves(p)
    BY <1>1
  <1> QED
    BY <1>1, <1>2, BaseVersion DEF Preceded

\* A checkpoint the runner wrote is one it accepts.
LEMMA SoundTrusted ==
  ASSUME RowsType, RowsFine, Sound, NEW e \in Executions, Active(e), row[e].context,
         PredecessorVersion(e) # 0, row[e].evaluation # "unreadable"
  PROVE  Trusted(e)
  <1> DEFINE x == row[e]
             b == Base(e)
             c == CheckpointBase(x, e)
  <1>1. /\ Deferral(e, x, b) /\ ValidPrefix(x, e, b) /\ Place(e, x) /\ CaughtUp(e, x, b)
        /\ x.status \in ActiveStatus
    BY DEF Sound, RowSound, Active
  <1>2. b \in Nat /\ x \in RowType(e)
    BY BaseVersion, VersionNumbers DEF RowsType
  <1>3. x.version \in Nat /\ x.next \in Nat /\ 1 <= x.next /\ x.next <= Len(Plan[e]) /\ Len(Plan[e]) \in Nat
    <2>1. x.next \in Steps(e)
      BY <1>1 DEF Place
    <2> QED
      BY <1>2, <2>1, RowColumns, VersionNumbers, PlanSteps
  <1>4. x.evaluation # "none" => x.evaluation = "matched" /\ x.evaluated = b
    BY <1>1 DEF Deferral
  <1>5. x.evaluated # 0 => x.evaluated = b
    BY <1>1 DEF Deferral
  <1>6. x.results[x.next].status = "pending" \/ x.status \in {"running", "waiting"}
    <2>1. x.status # "evaluating"
      BY DEF RowsFine, RowFine
    <2>2. CASE x.status \notin {"running", "waiting"}
      <3>1. x.status = "received"
        BY <1>1, <2>1, <2>2 DEF ActiveStatus
      <3>2. x.results[x.next].status \in NotSent
        <4>1. x.next \in Steps(e)
          BY <1>1 DEF Place
        <4> QED
          BY <1>3, <3>1, <4>1 DEF RowsFine, RowFine
      <3> QED
        BY <1>1, <3>2 DEF Place, NotSent
    <2> QED
      BY <2>2
  <1>7. \/ x.next = 1 /\ x.results[1].status = "pending"
        \/ x.version = After(x, e, x.next - 1, b)
    BY <1>1, <1>6 DEF CaughtUp
  <1>8. x.next # 1 => c = b
    <2> SUFFICES ASSUME x.next # 1 PROVE c = b
      OBVIOUS
    <2>1. CASE x.evaluated = 0
      BY <1>1, <1>2, <2>1, BaseTold
    <2>2. CASE x.evaluated # 0
      <3>1. c = x.evaluated
        BY <2>2 DEF CheckpointBase
      <3> QED
        BY <1>5, <2>2, <3>1
    <2> QED
      BY <2>1, <2>2
  <1>9. x.next = 1 => c = b \/ c = x.version
    <2> SUFFICES ASSUME x.next = 1 PROVE c = b \/ c = x.version
      OBVIOUS
    <2>1. CASE x.evaluated = 0
      <3>1. 1..(x.next - 1) = {}
        OBVIOUS
      <3>2. c = x.version
        BY <2>1, <3>1 DEF CheckpointBase
      <3> QED
        BY <3>2
    <2>2. CASE x.evaluated # 0
      <3>1. c = x.evaluated
        BY <2>2 DEF CheckpointBase
      <3> QED
        BY <1>5, <2>2, <3>1
    <2> QED
      BY <2>1, <2>2
  <1> HIDE DEF x, b, c
  <1>10. \A v \in Nat : After(x, e, 0, v) = v
    BY ConfirmedFinite DEF After
  <1>11. ValidPrefix(x, e, c)
    <2>1. CASE c = b
      BY <1>1, <2>1
    <2>2. CASE c # b
      <3>1. x.next = 1 /\ c = x.version
        BY <1>8, <1>9, <2>2
      <3>2. Carried(x, e, c)
        <4>1. x.next - 1 = 0
          BY <3>1
        <4> QED
          BY <1>3, <1>10, <3>1, <4>1 DEF Carried
      <3>3. FailedGroups(x, e) /\ 1..(x.next - 1) = {}
        BY <1>1, <3>1, PrefixParts
      <3> QED
        BY <3>2, <3>3, PrefixParts
    <2> QED
      BY <2>1, <2>2
  <1>12. \/ x.results[x.next].status = "pending" /\ x.dispatch[x.next] = 0
         \/ /\ x.results[x.next].status \in {"accepted", "unknown"}
            /\ Plan[e][x.next].kind # "invalid"
            /\ ValidDispatch(x, e, x.next, After(x, e, x.next - 1, c))
    <2>1. CASE x.results[x.next].status = "pending"
      BY <1>1, <2>1 DEF Place
    <2>2. CASE x.results[x.next].status # "pending"
      <3>1. /\ x.results[x.next].status \in {"accepted", "unknown"}
            /\ Plan[e][x.next].kind # "invalid" /\ x.dispatch[x.next] = x.version
        BY <1>1, <2>2 DEF Place, Kind
      <3>2. x.version = After(x, e, x.next - 1, b)
        BY <1>1, <1>6, <2>2 DEF CaughtUp
      <3>3. x.version = After(x, e, x.next - 1, c)
        <4>1. CASE c = b
          BY <3>2, <4>1
        <4>2. CASE c # b
          <5>1. x.next - 1 = 0 /\ c = x.version
            BY <1>3, <1>8, <1>9, <4>2
          <5> QED
            BY <1>3, <1>10, <5>1
        <4> QED
          BY <4>1, <4>2
      <3>4. x.version # 0
        BY <1>2, RowColumns, VersionNumbers
      <3>5. ValidDispatch(x, e, x.next, After(x, e, x.next - 1, c))
        BY <3>1, <3>3, <3>4, DispatchCases
      <3> QED
        BY <3>1, <3>5
    <2> QED
      BY <2>1, <2>2
  <1>13. \A i \in (x.next + 1)..Len(Plan[e]) : x.results[i] = Pending /\ x.dispatch[i] = 0
    <2>1. \A i \in (x.next + 1)..Len(Plan[e]) : i \in Steps(e) /\ x.next < i
      BY <1>3 DEF Steps
    <2> QED
      BY <1>1, <2>1 DEF Place
  <1>14. ValidCheckpoint(x, e, c)
    BY <1>1, <1>11, <1>12, <1>13 DEF ValidCheckpoint, Place
  <1> QED
    BY <1>4, <1>7, <1>14 DEF Trusted, x, b, c

\* Only what cannot be read is set aside.
LEMMA QuarantineSound ==
  ASSUME Shape, Truthful, Fenced, Sound, [Next]_vars, NEW r \in Runners, NEW e \in Executions, Quarantine(r, e)
  PROVE  Sound'
  <1>1. RowsType /\ RowsFine
    BY DEF Shape, Fenced
  <1>2. /\ OnlyRow(e) /\ IsQuarantined(row[e], row'[e])
        /\ Turn(r, e)
        /\ IF row[e].context THEN ~Trusted(e) ELSE PredecessorVersion(e) = 0
    BY <1>1, QuarantineEffect
  <1>3. Active(e) /\ \A p \in 1..(e - 1) : ~Active(p)
    BY <1>2 DEF Turn
  <1>4. Damaged(e)
    <2> SUFFICES ASSUME ~Damaged(e) PROVE FALSE
      OBVIOUS
    <2>1. row[e].evaluation # "unreadable"
      <3>1. e \in 1..e
        BY ExecutionNumbers
      <3> QED
        BY <3>1 DEF Damaged
    <2>2. PredecessorVersion(e) # 0
      <3>1. \A p \in 1..(e - 1) : p \in 1..e
        BY ExecutionNumbers
      <3>2. ~Damaged(e - 1)
        BY <3>1 DEF Damaged
      <3> QED
        BY <1>1, <1>3, <3>2, TurnPreceded
    <2> QED
      BY <1>1, <1>2, <1>3, <2>1, <2>2, SoundTrusted
  <1>5. RowSound(e, row'[e], Base(e))
    <2>1. RowSound(e, row[e], Base(e))
      BY DEF Sound
    <2> QED
      BY <1>2, <2>1, KeptSound DEF IsQuarantined
  <1>6. row'[e].lease # NoRunner => ~Damaged(e)
    BY <1>2 DEF IsQuarantined, SameLease, Sound
  <1>7. row'[e].evaluation = row[e].evaluation /\ row'[e].status \notin {"running", "waiting"}
    BY <1>2 DEF IsQuarantined, SameOrigin
  <1> QED
    BY <1>2, <1>4, <1>5, <1>6, <1>7, SoundNext

\* Behind executions that prove what they left every plan can be read.
LEMMA ProvedReadable ==
  ASSUME NEW e \in Executions, PredecessorVersion(e) # 0, row[e].evaluation # "unreadable"
  PROVE  ~Damaged(e)
  <1>1. \A p \in 1..(e - 1) : Proves(p)
    BY BaseVersion
  <1>2. \A p \in 1..(e - 1) : row[p].evaluation # "unreadable"
    BY <1>1 DEF Proves
  <1>3. \A p \in 1..e : p \in 1..(e - 1) \/ p = e
    BY ExecutionNumbers
  <1> QED
    BY <1>2, <1>3 DEF Damaged

\* A completed prefix stays one while the actions after it go on.
LEMMA PrefixKept ==
  ASSUME NEW e \in Executions, NEW x \in RowType(e), NEW y, NEW b \in Nat, ValidPrefix(x, e, b),
         \A j \in Steps(e) : j < x.next => y.results[j] = x.results[j] /\ y.dispatch[j] = x.dispatch[j]
  PROVE  /\ \A i \in 1..(x.next - 1) : StepSound(y, e, i, After(y, e, i - 1, b))
         /\ \A i \in 1..x.next : After(y, e, i - 1, b) = After(x, e, i - 1, b)
  <1>1. x.next \in Nat /\ 1 <= x.next /\ x.next <= Len(Plan[e]) + 1 /\ Len(Plan[e]) \in Nat
    BY RowColumns, PlanSteps
  <1>2. \A j \in 1..(x.next - 1) : j \in Steps(e) /\ j < x.next
    BY <1>1 DEF Steps
  <1>3. \A j \in 1..(x.next - 1) : y.results[j] = x.results[j] /\ y.dispatch[j] = x.dispatch[j]
    BY <1>2
  <1>4. ASSUME NEW i \in 1..x.next PROVE After(y, e, i - 1, b) = After(x, e, i - 1, b)
    <2>1. i - 1 \in Int /\ i - 1 <= i - 1 /\ \A j \in 1..(i - 1) : j \in 1..(x.next - 1) /\ ~(i - 1 < j)
      BY <1>1
    <2> DEFINE m == i - 1
    <2>2. m \in Int /\ m <= m /\ \A j \in 1..m : y.results[j] = x.results[j] /\ ~(m < j)
      BY <1>3, <2>1
    <2>3. After(y, e, m, b) = After(x, e, m, b)
      <3> HIDE DEF m
      <3> QED
        BY <2>2, SameConfirmed
    <2> QED
      BY <2>3
  <1>5. ASSUME NEW i \in 1..(x.next - 1) PROVE StepSound(y, e, i, After(y, e, i - 1, b))
    <2>1. i \in Nat /\ 1 <= i /\ i \in 1..x.next /\ \A j \in 1..i : j \in 1..(x.next - 1)
      BY <1>1
    <2>2. StepSound(x, e, i, After(x, e, i - 1, b))
      BY PrefixParts
    <2>3. After(y, e, i - 1, b) = After(x, e, i - 1, b)
      BY <1>4, <2>1
    <2>4. StepSound(y, e, i, After(x, e, i - 1, b))
      BY <1>3, <2>1, <2>2, SameStep
    <2> QED
      BY <2>3, <2>4
  <1> QED
    BY <1>4, <1>5

\* Nothing is skipped for a failure that is not there.
LEMMA GroupsKept ==
  ASSUME NEW e \in Executions, NEW x, NEW y, x.next \in Nat, FailedGroups(x, e),
         \A j \in Steps(e) : j < x.next => y.results[j] = x.results[j],
         \A j \in Steps(e) : x.next <= j =>
            x.results[j].status # "dependent" /\ y.results[j].status # "failed"
  PROVE  FailedGroups(y, e)
  <1> SUFFICES ASSUME NEW i \in Steps(e), NEW j \in Steps(e),
                      i < j, SameGroup(e, i, j), y.results[i].status = "failed"
               PROVE  y.results[j].status = "dependent"
    BY DEF FailedGroups
  <1>1. i \in Nat /\ j \in Nat
    BY PlanSteps
  <1>2. i < x.next
    BY <1>1
  <1>3. x.results[j].status = "dependent"
    BY <1>2 DEF FailedGroups
  <1>4. j < x.next
    BY <1>1, <1>3
  <1> QED
    BY <1>3, <1>4

\* What an execution that may go on says of the actions that are left.
LEMMA PlaceLeft ==
  ASSUME NEW e \in Executions, NEW x, Place(e, x)
  PROVE  /\ x.next \in Nat /\ 1 <= x.next /\ x.next <= Len(Plan[e])
         /\ \A j \in Steps(e) : x.next <= j =>
               x.results[j].status \notin {"succeeded", "failed", "dependent", "cancelled"}
  <1>1. x.next \in Steps(e) /\ x.next \in Nat /\ 1 <= x.next /\ x.next <= Len(Plan[e])
    BY PlanSteps DEF Place
  <1>2. ASSUME NEW j \in Steps(e), x.next <= j
        PROVE  x.results[j].status \notin {"succeeded", "failed", "dependent", "cancelled"}
    <2>1. CASE x.next < j
      BY <2>1 DEF Place, Pending
    <2>2. CASE ~(x.next < j)
      <3>1. j = x.next
        BY <1>1, <1>2, <2>2, PlanSteps
      <3> QED
        BY <3>1 DEF Place
    <2> QED
      BY <2>1, <2>2
  <1> QED
    BY <1>1, <1>2

\* A prefix that stays where it is.
LEMMA PrefixWaits ==
  ASSUME NEW e \in Executions, NEW x \in RowType(e), NEW y, NEW b \in Nat, ValidPrefix(x, e, b), Place(e, x),
         y.next = x.next,
         \A j \in Steps(e) : j < x.next => y.results[j] = x.results[j] /\ y.dispatch[j] = x.dispatch[j],
         \A j \in Steps(e) : x.next <= j => y.results[j].status # "failed",
         y.version = x.version \/ y.version = After(x, e, x.next - 1, b)
  PROVE  /\ ValidPrefix(y, e, b)
         /\ After(y, e, y.next - 1, b) = After(x, e, x.next - 1, b)
  <1>1. x.next \in Nat /\ x.next \in 1..x.next
    BY PlaceLeft
  <1>2. \A i \in 1..(y.next - 1) : StepSound(y, e, i, After(y, e, i - 1, b))
    BY PrefixKept
  <1>3. After(y, e, y.next - 1, b) = After(x, e, x.next - 1, b)
    BY <1>1, PrefixKept
  <1>4. FailedGroups(y, e)
    BY <1>1, PlaceLeft, GroupsKept, PrefixParts
  <1>5. Carried(y, e, b)
    BY <1>3, PrefixParts DEF Carried
  <1> QED
    BY <1>2, <1>3, <1>4, <1>5, PrefixParts

\* A plan whose remaining actions are cancelled.
LEMMA CancelledSound ==
  ASSUME NEW e \in Executions, NEW x \in RowType(e), NEW y, NEW b \in Nat, NEW S, RowSound(e, x, b),
         x.status \in ActiveStatus, x.context, x.results[x.next].status = "pending",
         IsCancelled(x, e, S, y), \A i \in Steps(e) : i \in S <=> x.next <= i
  PROVE  RowSound(e, y, b)
  <1>1. Deferral(e, x, b) /\ ValidPrefix(x, e, b) /\ Place(e, x)
    BY DEF RowSound
  <1>2. x.next \in Nat /\ x.next \in Steps(e)
    BY <1>1, PlaceLeft DEF Place
  <1>3. y.status = "cancelled" /\ y.next = x.next /\ y.version = x.version /\ y.dispatch = x.dispatch
    BY DEF IsCancelled
  <1>4. ASSUME NEW i \in Steps(e), i < x.next PROVE y.results[i] = x.results[i]
    BY <1>2, <1>4, PlanSteps DEF IsCancelled
  <1>5. ASSUME NEW i \in Steps(e), x.next <= i
        PROVE  y.results[i].status = "cancelled" /\ y.dispatch[i] = 0
    <2>1. y.results[i].status = "cancelled"
      BY <1>5 DEF IsCancelled
    <2>2. x.dispatch[x.next] = 0
      BY <1>1 DEF Place
    <2>3. x.dispatch[i] = 0
      <3>1. x.next < i \/ i = x.next
        BY <1>2, <1>5, PlanSteps
      <3> QED
        BY <1>1, <2>2, <3>1 DEF Place
    <2> QED
      BY <1>3, <2>1, <2>3
  <1>6. ValidPrefix(y, e, b)
    BY <1>1, <1>3, <1>4, <1>5, PrefixWaits
  <1>7. Deferral(e, y, b)
    BY <1>1, <1>3 DEF Deferral, IsCancelled, SameOrigin
  <1>8. Gone(e, y)
    BY <1>3, <1>5 DEF Gone
  <1> QED
    BY <1>3, <1>6, <1>7, <1>8 DEF RowSound, ActiveStatus

\* What a decision leaves.
LEMMA DecidedSound ==
  ASSUME NEW e \in Executions, NEW x, NEW y, NEW b \in Nat \ {0}, RowSound(e, x, b),
         x.status = "evaluating", ~x.context, x.context \in BOOLEAN,
         NEW answer \in {"matched", "no_match", "failed", "unknown"}, IsDecided(x, answer, b, y)
  PROVE  RowSound(e, y, b)
  <1>1. Deferral(e, x, b) /\ ValidPrefix(x, e, b) /\ Place(e, x)
    BY DEF RowSound, ActiveStatus
  <1>2. x.next = 1 /\ x.version = FactVersion /\ \A i \in Steps(e) : x.results[i] = Pending /\ x.dispatch[i] = 0
    BY <1>1 DEF Deferral
  <1>3. CASE answer = "unknown"
    <2>1. SameProgress(x, y) /\ SameOrigin(x, y) /\ y.status = x.status
      BY <1>3 DEF IsDecided, SameProgress
    <2> QED
      BY <2>1, KeptSound
  <1>4. CASE answer # "unknown"
    <2>1. y.next = x.next /\ y.results = x.results /\ y.dispatch = x.dispatch /\ y.version = FactVersion
      BY <1>2, <1>4 DEF IsDecided
    <2>2. /\ y.evaluation = answer /\ y.evaluated = b
          /\ \/ answer = "matched" /\ y.status = "received" /\ y.context
             \/ y.status \in {"failed", "succeeded", "no_match"} /\ ~y.context
      BY <1>4 DEF IsDecided
    <2>3. Deferral(e, y, b)
      BY <1>2, <1>4, <2>1, <2>2 DEF Deferral
    <2>4. ValidPrefix(y, e, b)
      <3>1. SameProgress(x, y)
        BY <1>2, <2>1 DEF SameProgress
      <3> QED
        BY <1>1, <3>1, SamePrefix
    <2>5. Place(e, y)
      BY <1>1, <1>2, <2>1 DEF Place, Pending
    <2>6. CaughtUp(e, y, b)
      BY <1>2, <2>1, <2>2 DEF CaughtUp
    <2>7. ~(y.status \in FinalStatus /\ y.context)
      BY <2>2 DEF FinalStatus
    <2> QED
      BY <2>3, <2>4, <2>5, <2>6, <2>7 DEF RowSound
  <1> QED
    BY <1>3, <1>4

\* A lease is taken behind executions that can all be read.
LEMMA ClaimEvaluationSound ==
  ASSUME Shape, Truthful, Fenced, Sound, [Next]_vars, NEW r \in Runners, NEW e \in Executions,
         ClaimEvaluation(r, e)
  PROVE  Sound'
  <1>1. /\ OnlyRow(e) /\ IsLeased(row[e], r, row'[e])
        /\ ~row[e].context /\ PredecessorVersion(e) # 0
    BY ClaimEvaluationEffect DEF Shape
  <1>2. RowSound(e, row[e], Base(e))
    BY DEF Sound
  <1>3. ~Damaged(e)
    <2>1. row[e].evaluation # "unreadable"
      BY <1>1, <1>2 DEF RowSound, Deferral
    <2> QED
      BY <1>1, <2>1, ProvedReadable
  <1>4. RowSound(e, row'[e], Base(e))
    BY <1>1, <1>2, KeptSound DEF IsLeased
  <1>5. row'[e].evaluation = row[e].evaluation /\ row'[e].status = row[e].status
    BY <1>1 DEF IsLeased, SameOrigin
  <1> QED
    BY <1>1, <1>3, <1>4, <1>5, SoundNext DEF Sound

\* A lease that runs out changes no checkpoint.
LEMMA LeaseExpiresSound ==
  ASSUME Shape, Truthful, Fenced, Sound, [Next]_vars, NEW e \in Executions, LeaseExpires(e)
  PROVE  Sound'
  <1>1. OnlyRow(e) /\ IsExpired(row[e], row'[e])
    BY LeaseExpiresEffect DEF Shape
  <1>2. RowSound(e, row[e], Base(e))
    BY DEF Sound
  <1>3. RowSound(e, row'[e], Base(e))
    BY <1>1, <1>2, KeptSound DEF IsExpired
  <1>4. /\ row'[e].evaluation = row[e].evaluation /\ row'[e].status = row[e].status
        /\ row'[e].lease = row[e].lease
    BY <1>1 DEF IsExpired, SameOrigin
  <1> QED
    BY <1>1, <1>3, <1>4, SoundNext DEF Sound

\* A decision names the version its predecessors have left.
LEMMA DecideSound ==
  ASSUME Shape, Truthful, Fenced, Sound, [Next]_vars, NEW r \in Runners, Decide(r)
  PROVE  Sound'
  <1>1. /\ RunnersShape /\ RowsType
        /\ runner[r].pc = "record" /\ runner[r].version \in Versions
    BY DecideEffect DEF Shape
  <1>2. PICK e \in Executions :
           /\ runner[r].command = <<e, 0>>
           /\ \/ row' = row
              \/ /\ row[e].lease = r /\ row[e].status = "evaluating"
                 /\ PredecessorVersion(e) = runner[r].version
                 /\ OnlyRow(e)
                 /\ IsDecided(row[e], runner[r].answer, runner[r].version, row'[e])
    BY <1>1, DecideEffect
  <1>3. CASE row' = row
    BY <1>3, SoundNoRow
  <1>4. CASE row' # row
    <2>1. /\ row[e].lease = r /\ row[e].status = "evaluating"
          /\ PredecessorVersion(e) = runner[r].version
          /\ OnlyRow(e)
          /\ IsDecided(row[e], runner[r].answer, runner[r].version, row'[e])
      BY <1>2, <1>4
    <2>2. runner[r].answer \in {"matched", "no_match", "failed", "unknown"}
      <3>1. RunnerShape(runner[r])
        BY <1>1 DEF RunnersShape
      <3> QED
        BY <1>1, <1>2, <3>1, NotACommand DEF RunnerShape
    <2>3. runner[r].version = Base(e) /\ Base(e) \in Nat \ {0}
      <3>1. runner[r].version # 0
        BY <1>1, VersionNumbers
      <3> QED
        BY <2>1, <3>1, BaseVersion, VersionNumbers
    <2>4. ~row[e].context /\ row[e].context \in BOOLEAN
      <3>1. row[e].context \in BOOLEAN
        BY <1>1, RowColumns DEF RowsType
      <3> QED
        BY <2>1, <3>1 DEF Fenced, RowsFine, RowFine
    <2>5. RowSound(e, row[e], Base(e))
      BY DEF Sound
    <2>6. RowSound(e, row'[e], Base(e))
      BY <2>1, <2>2, <2>3, <2>4, <2>5, DecidedSound
    <2>7. row[e].evaluation # "unreadable"
      BY <2>4, <2>5 DEF RowSound, Deferral
    <2>8. row'[e].evaluation # "unreadable"
      BY <2>1, <2>2, <2>7 DEF IsDecided, SameOrigin
    <2>9. row'[e].lease = NoRunner
      BY <2>1 DEF IsDecided, NoLease
    <2>10. row'[e].status \notin {"manual_action_required", "running", "waiting"}
      BY <2>1, <2>2 DEF IsDecided
    <2> QED
      BY <2>1, <2>6, <2>7, <2>8, <2>9, <2>10, SoundNext
  <1> QED
    BY <1>3, <1>4

\* A requested cancellation ends a plan at its next action.
LEMMA CancelRestSound ==
  ASSUME Shape, Truthful, Fenced, Sound, [Next]_vars, NEW r \in Runners, NEW e \in Executions, CancelRest(r, e)
  PROVE  Sound'
  <1>1. RowsType /\ row[e] \in RowType(e) /\ Base(e) \in Nat
    BY BaseVersion, VersionNumbers DEF Shape, RowsType
  <1>2. /\ OnlyRow(e) /\ IsCancelled(row[e], e, row[e].next..Len(Plan[e]), row'[e])
        /\ Turn(r, e) /\ row[e].context /\ row[e].results[row[e].next].status = "pending"
    BY <1>1, CancelRestEffect
  <1>3. row[e].status \in ActiveStatus /\ RowSound(e, row[e], Base(e))
    BY <1>2 DEF Turn, Active, Sound
  <1>4. \A i \in Steps(e) : i \in row[e].next..Len(Plan[e]) <=> row[e].next <= i
    <2>1. row[e].next \in Nat
      BY <1>1, RowColumns
    <2> QED
      BY <2>1, PlanSteps
  <1>5. RowSound(e, row'[e], Base(e))
    BY <1>1, <1>2, <1>3, <1>4, CancelledSound
  <1>6. /\ row'[e].evaluation = row[e].evaluation /\ row'[e].status = "cancelled"
        /\ row'[e].lease = row[e].lease
    BY <1>2 DEF IsCancelled, SameOrigin, SameLease
  <1> QED
    BY <1>2, <1>5, <1>6, SoundNext DEF Sound

\* A cancellation at once finds nothing that was accepted.
LEMMA CancelSound ==
  ASSUME Shape, Truthful, Fenced, Sound, [Next]_vars, NEW e \in Executions, Cancel(e)
  PROVE  Sound'
  <1> DEFINE x == row[e]
             y == row'[e]
  <1>1. RowsType /\ x \in RowType(e) /\ Base(e) \in Nat
    BY BaseVersion, VersionNumbers DEF Shape, RowsType
  <1>2. /\ OnlyRow(e) /\ x.status \in ActiveStatus
        /\ \/ x.status \in {"running", "waiting"} /\ IsAsked(x, y)
           \/ x.status \notin {"running", "waiting"} /\ x.context /\ IsCancelled(x, e, PendingSteps(x), y)
           \/ x.status \notin {"running", "waiting"} /\ ~x.context /\ IsDropped(x, y)
    BY <1>1, CancelEffect DEF Active
  <1>3. RowSound(e, x, Base(e))
    BY DEF Sound
  <1>4. CASE x.status \in {"running", "waiting"} /\ IsAsked(x, y)
    <2>1. RowSound(e, y, Base(e))
      BY <1>3, <1>4, KeptSound DEF IsAsked
    <2>2. y.evaluation = x.evaluation /\ y.status = x.status /\ y.lease = x.lease
      BY <1>4 DEF IsAsked, SameOrigin
    <2> QED
      BY <1>2, <2>1, <2>2, SoundNext DEF Sound
  <1>5. CASE x.status \notin {"running", "waiting"} /\ x.context /\ IsCancelled(x, e, PendingSteps(x), y)
    <2>1. Place(e, x)
      BY <1>2, <1>3 DEF RowSound
    <2>2. x.next \in Steps(e) /\ x.next \in Nat
      BY <2>1, PlaceLeft DEF Place
    <2>3. x.results[x.next].status = "pending"
      <3>1. x.results[x.next].status \in NotSent
        BY <1>2, <1>5, <2>2 DEF Fenced, RowsFine, RowFine, ActiveStatus
      <3> QED
        BY <2>1, <3>1 DEF Place, NotSent
    <2>4. ASSUME NEW i \in Steps(e) PROVE i \in PendingSteps(x) <=> x.next <= i
      <3>1. i \in Nat /\ i \in DOMAIN x.results
        BY <1>1, RowColumns, PlanSteps
      <3>2. i < x.next <=> x.results[i].status \in Completed
        BY DEF Fenced, StepsTold, StepTold
      <3>3. x.next < i => x.results[i].status = "pending"
        BY <2>1 DEF Place, Pending
      <3> QED
        BY <2>2, <2>3, <3>1, <3>2, <3>3 DEF PendingSteps, Completed
    <2>5. RowSound(e, y, Base(e))
      BY <1>1, <1>2, <1>3, <1>5, <2>3, <2>4, CancelledSound
    <2>6. y.evaluation = x.evaluation /\ y.status = "cancelled" /\ y.lease = x.lease
      BY <1>5 DEF IsCancelled, SameOrigin, SameLease
    <2> QED
      BY <1>2, <2>5, <2>6, SoundNext DEF Sound
  <1>6. CASE x.status \notin {"running", "waiting"} /\ ~x.context /\ IsDropped(x, y)
    <2>1. SameProgress(x, y) /\ SameOrigin(x, y) /\ y.status = "cancelled" /\ y.lease = NoRunner
      BY <1>6 DEF IsDropped, NoLease
    <2>2. ValidPrefix(y, e, Base(e))
      BY <1>3, <2>1, SamePrefix DEF RowSound
    <2>3. Deferral(e, y, Base(e))
      BY <1>3, <2>1 DEF RowSound, Deferral, SameProgress, SameOrigin
    <2>4. ~y.context
      BY <1>6, <2>1 DEF SameOrigin
    <2>5. RowSound(e, y, Base(e))
      BY <2>1, <2>2, <2>3, <2>4 DEF RowSound, ActiveStatus
    <2>6. y.evaluation = x.evaluation
      BY <2>1 DEF SameOrigin
    <2> QED
      BY <1>2, <2>1, <2>5, <2>6, SoundNext
  <1> QED
    BY <1>2, <1>4, <1>5, <1>6

\* Processes, owners and people between the transactions.
LEMMA OtherwiseSound ==
  ASSUME Shape, Truthful, Fenced, Sound, [Next]_vars,
         \/ \E r \in Runners : Send(r) \/ Evaluate(r) \/ Crash(r)
         \/ \E q \in flight : Owner(q)
         \/ HumanChange \/ Elsewhere \/ UNCHANGED vars
  PROVE  Sound'
  <1>1. row' = row
    <2>1. CASE \E r \in Runners : Send(r) \/ Evaluate(r) \/ Crash(r)
      BY <2>1 DEF Send, Evaluate, Crash
    <2>2. CASE \E q \in flight : Owner(q)
      BY <2>2, OwnerStep DEF OwnerEffect
    <2>3. CASE HumanChange \/ Elsewhere \/ UNCHANGED vars
      BY <2>3 DEF HumanChange, Elsewhere, vars
    <2> QED
      BY <2>1, <2>2, <2>3
  <1> QED
    BY <1>1, SoundNoRow

\* A claim takes over what its predecessors proved, or goes on from its own version.
LEMMA ClaimActionSound ==
  ASSUME Shape, Truthful, Fenced, Sound, [Next]_vars, NEW r \in Runners, NEW e \in Executions, ClaimAction(r, e)
  PROVE  Sound'
  <1> DEFINE x == row[e]
             y == row'[e]
             b == Base(e)
  <1>1. RowsType /\ RunnersShape /\ x \in RowType(e) /\ b \in Nat
    BY BaseVersion, VersionNumbers DEF Shape, RowsType
  <1>2. /\ OnlyRow(e) /\ x.next \in Steps(e)
        /\ StartVersion(e) \in Versions /\ Frozen(e) \in Versions
        /\ IsAccepted(x, e, r, StartVersion(e), Frozen(e), y)
        /\ x.status \in ActiveStatus /\ x.context /\ Trusted(e)
    BY <1>1, ClaimActionEffect DEF Turn, Active
  <1>3. RowSound(e, x, b) /\ Deferral(e, x, b) /\ ValidPrefix(x, e, b) /\ Place(e, x)
    BY <1>2 DEF RowSound, Sound
  <1>4. /\ PredecessorVersion(e) # 0 /\ PredecessorVersion(e) = b
        /\ x.evaluation # "none" => x.evaluation = "matched"
        /\ \/ x.next = 1 /\ x.results[1].status = "pending"
           \/ x.version = After(x, e, x.next - 1, b)
    BY <1>2, BaseVersion DEF Trusted
  <1>5. StartVersion(e) = After(x, e, x.next - 1, b)
    <2>1. CASE x.next = 1 /\ x.results[x.next].status = "pending"
      <3>1. StartVersion(e) = b
        BY <1>4, <2>1 DEF StartVersion, Result
      <3>2. x.next - 1 = 0
        BY <2>1
      <3>3. After(x, e, 0, b) = b
        BY <1>1, ConfirmedFinite DEF After
      <3> QED
        BY <3>1, <3>2, <3>3
    <2>2. CASE ~(x.next = 1 /\ x.results[x.next].status = "pending")
      <3>1. StartVersion(e) = x.version
        BY <2>2 DEF StartVersion, Result
      <3> QED
        BY <1>4, <2>2, <3>1
    <2> QED
      BY <2>1, <2>2
  <1>6. Frozen(e) = StartVersion(e)
    <2>1. CASE x.dispatch[x.next] = 0
      BY <2>1 DEF Frozen
    <2>2. CASE x.dispatch[x.next] # 0
      <3>1. x.results[x.next].status # "pending" /\ x.dispatch[x.next] = x.version
        BY <1>3, <2>2 DEF Place
      <3>2. StartVersion(e) = x.version
        BY <3>1 DEF StartVersion, Result
      <3> QED
        BY <2>2, <3>1, <3>2 DEF Frozen
    <2> QED
      BY <2>1, <2>2
  <1>7. /\ y.status = "running" /\ y.next = x.next /\ y.version = StartVersion(e)
        /\ y.context = x.context /\ y.evaluation = x.evaluation /\ y.evaluated = x.evaluated
        /\ y.lease = r
        /\ \A i \in Steps(e) : i # x.next => y.results[i] = x.results[i] /\ y.dispatch[i] = x.dispatch[i]
    BY <1>2 DEF IsAccepted, SameOrigin
  <1>8. /\ Kind(<<e, x.next>>) = "invalid" => y.results = x.results /\ y.dispatch = x.dispatch
        /\ Kind(<<e, x.next>>) # "invalid" =>
              /\ y.results[x.next].status = "accepted"
              /\ y.results[x.next].version = x.results[x.next].version
              /\ y.dispatch[x.next] = y.version
    BY <1>2, <1>6, <1>7 DEF IsAccepted
  <1> HIDE DEF x, y, b
  <1>9. x.next \in Nat /\ \A i \in Steps(e) : i \in Nat
    BY <1>3, PlaceLeft, PlanSteps
  <1>10. Place(e, y)
    <2>1. \A i \in Steps(e) : y.next < i => y.results[i] = Pending /\ y.dispatch[i] = 0
      BY <1>3, <1>7, <1>9 DEF Place
    <2>2. CASE Kind(<<e, x.next>>) = "invalid"
      <3>1. /\ x.results[x.next].status = "pending" /\ x.dispatch[x.next] = 0
            /\ x.results[x.next].version = 0
        BY <1>3, <2>2 DEF Place
      <3> QED
        BY <1>2, <1>7, <1>8, <2>1, <2>2, <3>1 DEF Place
    <2>3. CASE Kind(<<e, x.next>>) # "invalid"
      <3>1. x.results[x.next].version = 0
        BY <1>3 DEF Place
      <3> QED
        BY <1>2, <1>7, <1>8, <2>1, <2>3, <3>1 DEF Place
    <2> QED
      BY <2>2, <2>3
  <1>11. ValidPrefix(y, e, b) /\ After(y, e, y.next - 1, b) = After(x, e, x.next - 1, b)
    <2>1. \A i \in Steps(e) : i < x.next => y.results[i] = x.results[i] /\ y.dispatch[i] = x.dispatch[i]
      BY <1>7, <1>9
    <2>2. \A i \in Steps(e) : y.next <= i => y.results[i].status # "failed"
      BY <1>10, PlaceLeft
    <2> QED
      BY <1>1, <1>3, <1>5, <1>7, <2>1, <2>2, PrefixWaits
  <1>12. CaughtUp(e, y, b)
    BY <1>5, <1>7, <1>11 DEF CaughtUp
  <1>13. Deferral(e, y, b)
    BY <1>2, <1>3, <1>7 DEF Deferral, FinalStatus
  <1>14. RowSound(e, y, b)
    BY <1>7, <1>10, <1>11, <1>12, <1>13 DEF RowSound, FinalStatus
  <1>15. ~Damaged(e)
    <2>1. x.evaluation # "unreadable"
      BY <1>4
    <2> QED
      BY <1>4, <2>1, ProvedReadable DEF x
  <1>16. Preceded(e)
    BY <1>4, ProvedPreceded
  <1> QED
    BY <1>2, <1>7, <1>14, <1>15, <1>16, SoundNext DEF x, y, b

\* An execution that is soundly at n, with the results f before it.
GoneOn(e, f, n, y) ==
    /\ \A j \in Steps(e) : j < n => y.results[j] = f[j]
    /\ \A j \in Steps(e) : n <= j => y.results[j].status \in {"pending", "cancelled"}
    /\ y.status \in ActiveStatus => Place(e, y) /\ y.status = "received"
    /\ y.status \in FinalStatus => Gone(e, y)
    /\ y.status \notin {"running", "waiting", "manual_action_required"}

\* Where an execution goes on after the actions before n: soundly, if the version is right.
LEMMA GoesOnSound ==
  ASSUME NEW e \in Executions, NEW x, NEW y, NEW f \in [Steps(e) -> ResultType],
         NEW n \in Nat, 1 < n, n <= Len(Plan[e]) + 1, GoesOn(x, e, f, n, y), y.dispatch = x.dispatch,
         \A j \in Steps(e) : n <= j => f[j] = Pending /\ x.dispatch[j] = 0
  PROVE  GoneOn(e, f, n, y)
  <1>1. Len(Plan[e]) \in Nat /\ \A j \in Steps(e) : j \in Nat /\ j <= Len(Plan[e])
    BY PlanSteps
  <1>2. y.next = n
    BY DEF GoesOn
  <1>3. CASE x.cancel /\ n <= Len(Plan[e])
    <2>1. y.status = "cancelled" /\ y.results = Mark(f, n..Len(Plan[e]), "cancelled")
      BY <1>3 DEF GoesOn
    <2>2. \A j \in Steps(e) : j \in n..Len(Plan[e]) <=> n <= j
      BY <1>1
    <2>3. \A j \in Steps(e) : n <= j => y.results[j] = [status |-> "cancelled", version |-> 0]
      BY <2>1, <2>2, MarkResults DEF ResultStatus
    <2>4. \A j \in Steps(e) : j < n => y.results[j] = f[j]
      <3>1. \A j \in Steps(e) : j < n => j \notin n..Len(Plan[e])
        BY <1>1
      <3> DEFINE S == n..Len(Plan[e])
      <3>2. \A j \in Steps(e) : j \notin S => Mark(f, S, "cancelled")[j] = f[j]
        <4> HIDE DEF S
        <4> QED
          BY MarkResults DEF ResultStatus
      <3> QED
        BY <2>1, <3>1, <3>2
    <2>5. Gone(e, y)
      BY <1>2, <2>1, <2>3 DEF Gone
    <2> QED
      BY <2>1, <2>3, <2>4, <2>5 DEF GoneOn, ActiveStatus
  <1>4. CASE ~(x.cancel /\ n <= Len(Plan[e])) /\ n > Len(Plan[e])
    <2>1. y.results = f /\ y.status = CompletedStatus(f)
      BY <1>4 DEF GoesOn
    <2>2. y.status \in {"succeeded", "partially_succeeded", "failed"}
      BY <2>1, CompletedStatusValues
    <2>3. n = Len(Plan[e]) + 1 /\ \A j \in Steps(e) : ~(n <= j)
      BY <1>1, <1>4
    <2>4. Gone(e, y)
      BY <1>2, <2>1, <2>2, <2>3 DEF Gone
    <2> QED
      BY <2>1, <2>2, <2>3, <2>4 DEF GoneOn, ActiveStatus
  <1>5. CASE ~(x.cancel /\ n <= Len(Plan[e])) /\ ~(n > Len(Plan[e]))
    <2>1. y.results = f /\ y.status = "received"
      BY <1>5 DEF GoesOn
    <2>2. n \in Steps(e)
      BY <1>1, <1>5 DEF Steps
    <2>3. \A j \in Steps(e) : n <= j => y.results[j] = Pending /\ y.dispatch[j] = 0
      BY <2>1
    <2>4. y.results[n].status = "pending" /\ y.results[n].version = 0 /\ y.dispatch[n] = 0
      BY <2>2, <2>3 DEF Pending
    <2>5. \A j \in Steps(e) : n < j => n <= j
      BY <1>1
    <2>6. Place(e, y)
      BY <1>2, <2>2, <2>3, <2>4, <2>5 DEF Place
    <2> QED
      BY <2>1, <2>3, <2>6 DEF GoneOn, FinalStatus, Pending
  <1> QED
    BY <1>3, <1>4, <1>5

\* A record keeps where the execution came from.
LEMMA ReleasedOrigin ==
  ASSUME NEW e, NEW x, NEW y, NEW b, Deferral(e, x, b), x.context, Released(x, y)
  PROVE  Deferral(e, y, b) /\ y.context
  BY DEF Deferral, Released

\* A confirmed action is one more of the prefix.
LEMMA SuccessSound ==
  ASSUME NEW e \in Executions, NEW x \in RowType(e), NEW y, NEW b \in Nat, RowSound(e, x, b),
         x.status = "running", x.context, NEW v \in Nat,
         x.results[x.next].status \in {"accepted", "unknown"}, Advances(e, x.next, v, x.version),
         HasSucceeded(x, e, x.next, v, y)
  PROVE  RowSound(e, y, b) /\ y.status \notin {"running", "waiting", "manual_action_required"}
  <1> DEFINE i == x.next
  <1>1. Deferral(e, x, b) /\ ValidPrefix(x, e, b) /\ Place(e, x) /\ CaughtUp(e, x, b)
    BY DEF RowSound, ActiveStatus
  <1>2. i \in Steps(e) /\ i \in Nat /\ 1 <= i /\ i <= Len(Plan[e]) /\ Len(Plan[e]) \in Nat
    BY <1>1, PlaceLeft, PlanSteps DEF Place
  <1>3. PICK f : SuccessAt(x, e, i, v, f) /\ GoesOn(x, e, f, i + 1, y)
    BY DEF HasSucceeded
  <1>4. Released(x, y) /\ y.version = v /\ y.dispatch = x.dispatch /\ y.next = i + 1
    BY <1>3 DEF HasSucceeded, Released, GoesOn
  <1>5. x.version = After(x, e, i - 1, b)
    BY <1>1 DEF CaughtUp
  <1>6. /\ Kind(<<e, i>>) # "invalid" /\ x.dispatch[i] = x.version
        /\ \A j \in Steps(e) : i < j => x.results[j] = Pending /\ x.dispatch[j] = 0
    BY <1>1 DEF Place
  <1> HIDE DEF i
  <1>7. \A j \in Steps(e) : j \in Nat /\ 1 <= j
    BY PlanSteps
  <1>8. \A j \in Steps(e) : i + 1 <= j => f[j] = Pending /\ x.dispatch[j] = 0
    BY <1>2, <1>3, <1>6, <1>7 DEF SuccessAt
  <1>9. /\ \A j \in Steps(e) : j < i + 1 => y.results[j] = f[j]
        /\ \A j \in Steps(e) : i + 1 <= j => y.results[j].status \in {"pending", "cancelled"}
        /\ y.status \in ActiveStatus => Place(e, y) /\ y.status = "received"
        /\ y.status \in FinalStatus => Gone(e, y)
        /\ y.status \notin {"running", "waiting", "manual_action_required"}
    <2>1. f \in [Steps(e) -> ResultType] /\ i + 1 \in Nat /\ 1 < i + 1 /\ i + 1 <= Len(Plan[e]) + 1
      BY <1>2, <1>3 DEF SuccessAt
    <2> DEFINE n == i + 1
    <2>2. GoesOn(x, e, f, n, y) /\ \A j \in Steps(e) : n <= j => f[j] = Pending /\ x.dispatch[j] = 0
      BY <1>3, <1>8
    <2>3. f \in [Steps(e) -> ResultType] /\ n \in Nat /\ 1 < n /\ n <= Len(Plan[e]) + 1
      BY <2>1
    <2>4. GoneOn(e, f, n, y)
      <3> HIDE DEF n
      <3> QED
        BY <1>4, <2>2, <2>3, GoesOnSound
    <2> QED
      BY <2>4 DEF GoneOn
  <1>10. \A j \in Steps(e) : j < i => y.results[j] = x.results[j] /\ y.dispatch[j] = x.dispatch[j]
    <2>1. \A j \in Steps(e) : j < i => j < i + 1 /\ j # i
      BY <1>2, <1>7
    <2>2. \A j \in Steps(e) : j # i => f[j] = x.results[j]
      BY <1>3 DEF SuccessAt
    <2> QED
      BY <1>4, <1>9, <2>1, <2>2
  <1>11. y.results[i].status = "succeeded" /\ y.results[i].version = v
    BY <1>2, <1>3, <1>9 DEF SuccessAt
  <1>12. /\ \A j \in 1..(i - 1) : StepSound(y, e, j, After(y, e, j - 1, b))
         /\ After(y, e, i - 1, b) = x.version
    <2>1. i \in 1..i
      BY <1>2
    <2> QED
      BY <1>1, <1>5, <1>10, <2>1, PrefixKept DEF i
  <1>13. FailedGroups(x, e)
    BY <1>1, PrefixParts
  <1>14. FailedGroups(y, e)
    <2>1. \A j \in Steps(e) : i <= j => x.results[j].status # "dependent" /\ y.results[j].status # "failed"
      <3>1. \A j \in Steps(e) : i <= j => x.results[j].status # "dependent"
        BY <1>1, PlaceLeft DEF i
      <3>2. \A j \in Steps(e) : i <= j => j = i \/ i + 1 <= j
        BY <1>2, <1>7
      <3> QED
        BY <1>9, <1>11, <3>1, <3>2
    <2> QED
      BY <1>2, <1>10, <1>13, <2>1, GroupsKept DEF i
  <1>15. StepSound(y, e, i, After(y, e, i - 1, b))
    <2>1. Advances(e, i, y.results[i].version, x.version)
      BY <1>11 DEF i
    <2>2. ASSUME NEW j \in 1..(i - 1), SameGroup(e, i, j) PROVE y.results[j].status = "succeeded"
      <3>1. j \in Steps(e) /\ j < i
        BY <1>2 DEF Steps
      <3>2. y.results[j] = x.results[j]
        BY <1>10, <3>1
      <3>3. x.results[i].status # "dependent"
        BY DEF i
      <3>4. x.results[j].status # "failed"
        BY <1>2, <1>13, <2>2, <3>1, <3>3 DEF FailedGroups, SameGroup
      <3>5. y.results[j].status # "dependent"
        <4> SUFFICES ASSUME y.results[j].status = "dependent" PROVE FALSE
          OBVIOUS
        <4>1. ValidStep(y, e, j, After(y, e, j - 1, b))
          BY <1>12 DEF StepSound
        <4>2. PICK k \in 1..(j - 1) : SameGroup(e, j, k) /\ y.results[k].status = "failed"
          BY <4>1, StepCases
        <4>3. k \in Steps(e) /\ k < i
          BY <1>2, <3>1, <4>2 DEF Steps
        <4>4. SameGroup(e, k, i) /\ x.results[k].status = "failed"
          BY <1>10, <2>2, <4>2, <4>3 DEF SameGroup
        <4> QED
          BY <1>2, <1>13, <3>3, <4>3, <4>4 DEF FailedGroups
      <3>6. ValidStep(y, e, j, After(y, e, j - 1, b))
        BY <1>12 DEF StepSound
      <3> QED
        BY <3>2, <3>4, <3>5, <3>6, StepCases
    <2>3. ValidStep(y, e, i, x.version)
      BY <1>11, <2>1, <2>2, StepCases
    <2>4. x.version # 0
      BY RowColumns, VersionNumbers
    <2>5. ValidDispatch(y, e, i, x.version)
      BY <1>4, <1>6, <1>11, <2>4, DispatchCases DEF Kind
    <2> QED
      BY <1>12, <2>3, <2>5 DEF StepSound
  <1>16. \A j \in 1..(y.next - 1) : StepSound(y, e, j, After(y, e, j - 1, b))
    <2>1. \A j \in 1..(y.next - 1) : j \in 1..(i - 1) \/ j = i
      BY <1>2, <1>4
    <2> QED
      BY <1>12, <1>15, <2>1
  <1>17. y.version = After(y, e, y.next - 1, b)
    <2>1. y.next - 1 = i /\ i \in Nat \ {0}
      BY <1>2, <1>4
    <2>2. v = IF Plan[e][i].kind = "change" THEN x.version + 1 ELSE x.version
      BY DEF Advances, i
    <2>3. After(y, e, i, b) = v
      BY <1>11, <1>12, <2>1, <2>2, AfterNext
    <2> QED
      BY <1>4, <2>1, <2>3
  <1>18. ValidPrefix(y, e, b)
    BY <1>14, <1>16, <1>17, PrefixParts DEF Carried
  <1>19. Deferral(e, y, b)
    BY <1>1, <1>4, ReleasedOrigin
  <1>20. CaughtUp(e, y, b)
    BY <1>17 DEF CaughtUp
  <1> QED
    BY <1>9, <1>18, <1>19, <1>20 DEF RowSound

\* A failed action and those that depend on it are completed, and change no version.
LEMMA FailureSound ==
  ASSUME NEW e \in Executions, NEW x \in RowType(e), NEW y, NEW b \in Nat, RowSound(e, x, b),
         x.status = "running", x.context, HasFailed(x, e, x.next, y),
         Kind(<<e, x.next>>) # "invalid" => x.results[x.next].status # "pending"
  PROVE  RowSound(e, y, b) /\ y.status \notin {"running", "waiting", "manual_action_required"}
  <1> DEFINE i == x.next
             n == i + 1 + Cardinality(Rest(e, i))
  <1>1. Deferral(e, x, b) /\ ValidPrefix(x, e, b) /\ Place(e, x) /\ CaughtUp(e, x, b)
    BY DEF RowSound, ActiveStatus
  <1>2. i \in Steps(e) /\ i \in Nat /\ 1 <= i /\ i <= Len(Plan[e]) /\ Len(Plan[e]) \in Nat
    BY <1>1, PlaceLeft, PlanSteps DEF Place
  <1>3. PICK f : FailureAt(x, e, i, f) /\ GoesOn(x, e, f, n, y)
    BY DEF HasFailed
  <1>4. Released(x, y) /\ y.version = x.version /\ y.dispatch = x.dispatch /\ y.next = n
    BY <1>3 DEF HasFailed, Released, GoesOn
  <1>5. x.version = After(x, e, i - 1, b)
    BY <1>1 DEF CaughtUp
  <1>6. /\ \A j \in Steps(e) : i < j => x.results[j] = Pending /\ x.dispatch[j] = 0
        /\ \/ x.results[i].status = "pending" /\ x.dispatch[i] = 0
           \/ Kind(<<e, i>>) # "invalid" /\ x.dispatch[i] = x.version
    BY <1>1 DEF Place
  <1>7. \A j \in Steps(e) : j \in Nat /\ 1 <= j /\ j <= Len(Plan[e])
    BY PlanSteps
  <1>8. /\ n \in Nat /\ i < n /\ n <= Len(Plan[e]) + 1
        /\ \A j \in Steps(e) : j \in Rest(e, i) <=> i < j /\ j < n
    <2> DEFINE m == Cardinality(Rest(e, i))
    <2>1. m \in Nat /\ Rest(e, i) = (i + 1)..(i + m) /\ i + m <= Len(Plan[e])
      BY <1>2, RestFollows
    <2>2. n = i + 1 + m
      OBVIOUS
    <2> HIDE DEF m, n, i
    <2> QED
      BY <1>2, <1>7, <2>1, <2>2
  <1> HIDE DEF i, n
  <1>9. /\ f \in [Steps(e) -> ResultType]
        /\ f[i] = [status |-> "failed", version |-> 0]
        /\ \A j \in Steps(e) : i < j /\ j < n =>
              f[j] = [status |-> "dependent", version |-> 0] /\ SameGroup(e, i, j)
        /\ \A j \in Steps(e) : j < i \/ n <= j => f[j] = x.results[j]
    <2>1. \A j \in Rest(e, i) : SameGroup(e, i, j)
      BY DEF Rest
    <2>2. ASSUME NEW j \in Steps(e), j < i \/ n <= j PROVE j # i /\ j \notin Rest(e, i)
      <3>1. j \in Nat
        BY <1>7
      <3>2. j # i /\ ~(i < j /\ j < n)
        BY <1>2, <1>8, <2>2, <3>1
      <3> QED
        BY <1>8, <3>2
    <2> QED
      BY <1>3, <1>8, <2>1, <2>2 DEF FailureAt
  <1>10. \A j \in Steps(e) : n <= j => f[j] = Pending /\ x.dispatch[j] = 0
    <2>1. \A j \in Steps(e) : n <= j => i < j
      BY <1>2, <1>7, <1>8
    <2> QED
      BY <1>6, <1>9, <2>1
  <1>11. GoneOn(e, f, n, y)
    <2>1. 1 < n
      BY <1>2, <1>8
    <2>2. n \in Nat /\ n <= Len(Plan[e]) + 1
      BY <1>8
    <2>3. f \in [Steps(e) -> ResultType] /\ GoesOn(x, e, f, n, y) /\ y.dispatch = x.dispatch
      BY <1>3, <1>4, <1>9
    <2>4. \A j \in Steps(e) : n <= j => f[j] = Pending /\ x.dispatch[j] = 0
      BY <1>10
    <2> QED
      BY <2>1, <2>2, <2>3, <2>4, GoesOnSound
  <1>12. \A j \in Steps(e) : j < i => y.results[j] = x.results[j] /\ y.dispatch[j] = x.dispatch[j]
    <2>1. ASSUME NEW j \in Steps(e), j < i PROVE j < n
      <3>1. j \in Nat
        BY <1>7
      <3> QED
        BY <1>2, <1>8, <2>1, <3>1
    <2> QED
      BY <1>4, <1>9, <1>11, <2>1 DEF GoneOn
  <1>13. y.results[i] = [status |-> "failed", version |-> 0]
    BY <1>2, <1>8, <1>9, <1>11 DEF GoneOn
  <1>14. \A j \in Steps(e) : i < j /\ j < n =>
            y.results[j] = [status |-> "dependent", version |-> 0] /\ SameGroup(e, i, j) /\ y.dispatch[j] = 0
    BY <1>4, <1>6, <1>9, <1>11 DEF GoneOn
  <1>15. \A j \in 1..(i - 1) : StepSound(y, e, j, After(y, e, j - 1, b))
    BY <1>1, <1>12, PrefixKept DEF i
  <1>16. ASSUME NEW m \in Nat, i <= m + 1, m < n PROVE After(y, e, m, b) = x.version
    <2> DEFINE l == i - 1
    <2>1. l \in Int /\ l <= m
      BY <1>2, <1>16
    <2>2. \A j \in 1..l : y.results[j] = x.results[j]
      <3>1. \A j \in 1..l : j \in Steps(e) /\ j < i
        BY <1>2 DEF Steps
      <3> QED
        BY <1>12, <3>1
    <2>3. \A j \in 1..m : l < j => y.results[j].status # "succeeded"
      <3>1. \A j \in 1..m : l < j => j \in Steps(e) /\ (j = i \/ (i < j /\ j < n))
        BY <1>2, <1>8, <1>16 DEF Steps
      <3> QED
        BY <1>13, <1>14, <3>1
    <2>4. After(y, e, m, b) = After(x, e, l, b)
      <3> HIDE DEF l
      <3> QED
        BY <2>1, <2>2, <2>3, <1>16, SameConfirmed
    <2> QED
      BY <1>5, <2>4
  <1>17. FailedGroups(x, e)
    BY <1>1, PrefixParts
  <1>18. FailedGroups(y, e)
    <2> SUFFICES ASSUME NEW j \in Steps(e), NEW k \in Steps(e),
                        j < k, SameGroup(e, j, k), y.results[j].status = "failed"
                 PROVE  y.results[k].status = "dependent"
      BY DEF FailedGroups
    <2>1. j \in Nat /\ k \in Nat /\ k <= Len(Plan[e])
      BY <1>7
    <2>2. CASE j < i
      <3>1. x.results[k].status = "dependent"
        BY <1>12, <1>17, <2>2 DEF FailedGroups
      <3>2. k < i
        <4>1. ~(i <= k)
          BY <1>1, <3>1, PlaceLeft DEF i
        <4> QED
          BY <1>2, <2>1, <4>1
      <3> QED
        BY <1>12, <3>1, <3>2
    <2>3. CASE j = i
      <3>1. k \in Rest(e, i)
        BY <1>2, <2>1, <2>3 DEF Rest
      <3> QED
        BY <1>8, <1>14, <3>1
    <2>4. CASE i < j /\ j < n
      BY <1>14, <2>4
    <2>5. CASE n <= j
      BY <1>11, <2>5 DEF GoneOn
    <2> QED
      BY <1>2, <1>8, <2>1, <2>2, <2>3, <2>4, <2>5
  <1>19. StepSound(y, e, i, After(y, e, i - 1, b))
    <2>1. After(y, e, i - 1, b) = x.version
      <3>1. i - 1 \in Nat /\ i <= (i - 1) + 1 /\ i - 1 < n
        BY <1>2, <1>8
      <3> QED
        BY <1>16, <3>1
    <2>2. y.results[i].status = "failed" /\ y.results[i].version = 0
      BY <1>13
    <2>3. ValidStep(y, e, i, x.version)
      BY <2>2, StepCases
    <2>4. x.version # 0
      BY RowColumns, VersionNumbers
    <2>5. Kind(<<e, i>>) # "invalid" => x.results[i].status # "pending"
      BY DEF i
    <2>6. ValidDispatch(y, e, i, x.version)
      BY <1>4, <1>6, <2>2, <2>4, <2>5, DispatchCases DEF Kind
    <2> QED
      BY <2>1, <2>3, <2>6 DEF StepSound
  <1>20. ASSUME NEW j \in Steps(e), i < j, j < n PROVE StepSound(y, e, j, After(y, e, j - 1, b))
    <2>1. y.results[j].status = "dependent" /\ y.results[j].version = 0 /\ y.dispatch[j] = 0
      BY <1>14, <1>20
    <2>2. i \in 1..(j - 1) /\ SameGroup(e, j, i) /\ y.results[i].status = "failed"
      <3>1. i \in 1..(j - 1)
        <4>1. j \in Nat
          BY <1>7
        <4> QED
          BY <1>2, <1>20, <4>1
      <3>2. SameGroup(e, i, j)
        BY <1>14, <1>20
      <3> QED
        BY <1>13, <3>1, <3>2 DEF SameGroup
    <2>3. ASSUME NEW k \in (i + 1)..(j - 1) PROVE y.results[k].status = "dependent"
      <3>1. k \in Steps(e) /\ i < k /\ k < n
        BY <1>2, <1>7, <1>8, <1>20 DEF Steps
      <3> QED
        BY <1>14, <3>1
    <2>4. ValidStep(y, e, j, After(y, e, j - 1, b))
      BY <2>1, <2>2, <2>3, StepCases
    <2>5. ValidDispatch(y, e, j, After(y, e, j - 1, b))
      BY <2>1, DispatchCases
    <2> QED
      BY <2>4, <2>5 DEF StepSound
  <1>21. \A j \in 1..(y.next - 1) : StepSound(y, e, j, After(y, e, j - 1, b))
    <2>1. ASSUME NEW j \in 1..(y.next - 1)
          PROVE  j \in 1..(i - 1) \/ j = i \/ (j \in Steps(e) /\ i < j /\ j < n)
      BY <1>2, <1>4, <1>8 DEF Steps
    <2> QED
      BY <1>15, <1>19, <1>20, <2>1
  <1>22. y.version = After(y, e, y.next - 1, b)
    <2>1. n - 1 \in Nat /\ i <= (n - 1) + 1 /\ n - 1 < n
      BY <1>2, <1>8
    <2> QED
      BY <1>4, <1>16, <2>1
  <1>23. ValidPrefix(y, e, b)
    BY <1>18, <1>21, <1>22, PrefixParts DEF Carried
  <1>24. Deferral(e, y, b)
    BY <1>1, <1>4, ReleasedOrigin
  <1>25. CaughtUp(e, y, b)
    BY <1>22 DEF CaughtUp
  <1> QED
    BY <1>11, <1>23, <1>24, <1>25 DEF RowSound, GoneOn

\* An action nobody knows the outcome of stays where it is.
LEMMA UnknownSound ==
  ASSUME NEW e \in Executions, NEW x \in RowType(e), NEW y, NEW b \in Nat, RowSound(e, x, b),
         x.status = "running", x.context, IsUnknown(x, e, x.next, y),
         x.results[x.next].status \in {"accepted", "unknown"}
  PROVE  RowSound(e, y, b)
  <1> DEFINE i == x.next
  <1>1. Deferral(e, x, b) /\ ValidPrefix(x, e, b) /\ Place(e, x) /\ CaughtUp(e, x, b)
    BY DEF RowSound, ActiveStatus
  <1>2. i \in Steps(e) /\ i \in Nat
    BY <1>1, PlaceLeft DEF Place
  <1>3. /\ Released(x, y) /\ y.version = x.version /\ y.status = "waiting" /\ y.next = i
        /\ y.results[i].status = "unknown" /\ y.results[i].version = x.results[i].version
        /\ \A j \in Steps(e) : j # i => y.results[j] = x.results[j]
    BY DEF IsUnknown
  <1>4. y.dispatch = x.dispatch
    BY <1>3 DEF Released
  <1> HIDE DEF i
  <1>5. \A j \in Steps(e) : i < j => y.results[j] = Pending /\ y.dispatch[j] = 0
    BY <1>1, <1>2, <1>3, <1>4, PlanSteps DEF Place, i
  <1>6. Place(e, y)
    <2>1. Kind(<<e, i>>) # "invalid" /\ x.dispatch[i] = x.version /\ x.results[i].version = 0
      BY <1>1 DEF Place, i
    <2> QED
      BY <1>2, <1>3, <1>4, <1>5, <2>1 DEF Place
  <1>7. ValidPrefix(y, e, b) /\ After(y, e, y.next - 1, b) = After(x, e, x.next - 1, b)
    <2>1. ASSUME NEW j \in Steps(e), j < i
          PROVE  y.results[j] = x.results[j] /\ y.dispatch[j] = x.dispatch[j]
      <3>1. j # i
        BY <1>2, <2>1
      <3> QED
        BY <1>3, <1>4, <3>1
    <2>2. ASSUME NEW j \in Steps(e), i <= j PROVE y.results[j].status # "failed"
      BY <1>3, <1>6, <2>2, PlaceLeft
    <2> QED
      BY <1>1, <1>3, <2>1, <2>2, PrefixWaits DEF i
  <1>8. CaughtUp(e, y, b)
    BY <1>1, <1>3, <1>7 DEF CaughtUp
  <1>9. Deferral(e, y, b)
    BY <1>1, <1>3, ReleasedOrigin
  <1> QED
    BY <1>3, <1>6, <1>7, <1>8, <1>9 DEF RowSound, FinalStatus

\* Only the holder of the lease writes, and what it writes is sound.
LEMMA RecordSound ==
  ASSUME Shape, Truthful, Fenced, HeardTrue, Sound, [Next]_vars, NEW r \in Runners, Record(r)
  PROVE  Sound'
  <1>1. RowsType /\ RunnersShape
    BY DEF Shape
  <1>2. /\ runner[r].pc = "record" /\ runner[r].command \in Commands
        /\ runner[r].answer \in {"ok", "refused", "unknown"}
    BY <1>1, RecordEffect
  <1>3. PICK e \in Executions : \E i \in Steps(e) :
           /\ runner[r].command = <<e, i>>
           /\ row' = row \/ RecordWrites(r, e, i)
    BY <1>1, RecordEffect
  <1>4. PICK i \in Steps(e) :
           /\ runner[r].command = <<e, i>>
           /\ row' = row \/ RecordWrites(r, e, i)
    BY <1>3
  <1>5. CASE row' = row
    BY <1>5, SoundNoRow
  <1>6. CASE RecordWrites(r, e, i)
    <2> DEFINE x == row[e]
               y == row'[e]
               b == Base(e)
    <2>1. /\ OnlyRow(e) /\ x.lease = r
          /\ y.status \in FinalStatus => x.status \in ActiveStatus
      BY <1>6 DEF RecordWrites, Active
    <2>2. /\ i = x.next
          /\ Kind(<<e, i>>) # "invalid" => x.results[i].status \notin NotSent
      BY <1>4, <2>1 DEF Truthful, HolderSends
    <2>3. HolderFine(e, i, x)
      BY <1>4, <2>1 DEF Fenced, HoldersFine
    <2>4. ~Damaged(e) /\ x.status # "manual_action_required"
      <3>1. x.lease # NoRunner
        BY <2>1, AbsentAssumption
      <3> QED
        BY <3>1 DEF Sound
    <2>5. Kind(<<e, i>>) = "invalid" => ~Confirms(runner[r]) /\ Refutes(runner[r])
      BY <1>2, <1>4 DEF Truthful, InvalidUnsent, Confirms, Refutes
    <2>6. x.status = "running" /\ x.context
      <3>1. x.context
        BY <2>3 DEF HolderFine
      <3>2. CASE Kind(<<e, i>>) = "invalid" /\ x.cancel /\ x.status = "cancelled"
        <4>1. HasFailed(x, e, i, y)
          BY <1>6, <2>5, <3>2 DEF RecordWrites
        <4>2. PICK f, n : GoesOn(x, e, f, n, y) /\ n = i + 1 + Cardinality(Rest(e, i))
          BY <4>1 DEF HasFailed
        <4>3. n \in Nat /\ Len(Plan[e]) \in Nat
          BY <4>2, RestFollows, PlanSteps
        <4>4. y.status \in FinalStatus
          BY <3>2, <4>2, <4>3, CompletedStatusValues DEF GoesOn, FinalStatus
        <4> QED
          BY <2>1, <3>2, <4>4 DEF ActiveStatus
      <3> QED
        BY <2>3, <2>4, <3>1, <3>2 DEF HolderFine
    <2>7. RowSound(e, x, b) /\ x \in RowType(e) /\ b \in Nat
      BY <1>1, BaseVersion, VersionNumbers DEF Sound, RowsType
    <2>8. Place(e, x) /\ CaughtUp(e, x, b)
      BY <2>6, <2>7 DEF RowSound, ActiveStatus
    <2>9. Kind(<<e, i>>) # "invalid" =>
            /\ x.results[i].status \in {"accepted", "unknown"}
            /\ x.dispatch[i] = x.version /\ runner[r].version = x.version
      <3>1. Kind(<<e, i>>) # "invalid" => runner[r].version = x.dispatch[i]
        BY <1>4 DEF Fenced, SentFrozen
      <3> QED
        BY <2>2, <2>8, <3>1 DEF Place, NotSent
    <2>10. Preceded(e)
      BY <2>6 DEF Sound
    <2>11. RowSound(e, y, b) /\ y.status # "manual_action_required" /\ Released(x, y)
      <3>1. CASE Confirms(runner[r])
        <4>1. runner[r].output \in Nat /\ HasSucceeded(x, e, i, runner[r].output, y)
          BY <1>6, <3>1, VersionNumbers DEF RecordWrites
        <4>2. Kind(<<e, i>>) # "invalid"
          BY <2>5, <3>1
        <4>3. Advances(e, i, runner[r].output, x.version)
          BY <1>4, <2>9, <3>1, <4>2 DEF Confirms
        <4>4. RowSound(e, y, b) /\ y.status \notin {"running", "waiting", "manual_action_required"}
          BY <2>2, <2>6, <2>7, <2>9, <4>1, <4>2, <4>3, SuccessSound
        <4> QED
          BY <4>1, <4>4 DEF HasSucceeded
      <3>2. CASE ~Confirms(runner[r]) /\ Refutes(runner[r])
        <4>1. HasFailed(x, e, i, y)
          BY <1>6, <3>2 DEF RecordWrites
        <4>2. Kind(<<e, i>>) # "invalid" => x.results[i].status # "pending"
          BY <2>9
        <4>3. RowSound(e, y, b) /\ y.status \notin {"running", "waiting", "manual_action_required"}
          BY <2>2, <2>6, <2>7, <4>1, <4>2, FailureSound
        <4> QED
          BY <4>1, <4>3 DEF HasFailed
      <3>3. CASE ~Confirms(runner[r]) /\ ~Refutes(runner[r])
        <4>1. IsUnknown(x, e, i, y)
          BY <1>6, <3>3 DEF RecordWrites
        <4>2. x.results[i].status \in {"accepted", "unknown"}
          BY <2>5, <2>9, <3>3
        <4>3. RowSound(e, y, b)
          BY <2>2, <2>6, <2>7, <4>1, <4>2, UnknownSound
        <4> QED
          BY <4>1, <4>3 DEF IsUnknown
      <3> QED
        BY <3>1, <3>2, <3>3
    <2>12. y.evaluation = x.evaluation /\ y.lease = NoRunner
      BY <2>11 DEF Released
    <2> QED
      BY <2>1, <2>10, <2>11, <2>12, SoundNext
  <1> QED
    BY <1>4, <1>5, <1>6

\* Every step keeps the rows sound.
LEMMA SoundStep == Shape /\ Truthful /\ Fenced /\ HeardTrue /\ Sound /\ [Next]_vars => Sound'
  <1> SUFFICES ASSUME Shape, Truthful, Fenced, HeardTrue, Sound, [Next]_vars PROVE Sound'
    OBVIOUS
  <1>1. CASE \E r \in Runners : Claim(r)
    BY <1>1, QuarantineSound, CancelRestSound, ClaimEvaluationSound, ClaimActionSound DEF Claim
  <1>2. CASE \E r \in Runners : Record(r)
    BY <1>2, RecordSound
  <1>3. CASE \E r \in Runners : Decide(r)
    BY <1>3, DecideSound
  <1>4. CASE \E e \in Executions : Cancel(e) \/ LeaseExpires(e)
    BY <1>4, CancelSound, LeaseExpiresSound
  <1>5. CASE \/ \E r \in Runners : Send(r) \/ Evaluate(r) \/ Crash(r)
             \/ \E q \in flight : Owner(q)
             \/ HumanChange \/ Elsewhere \/ UNCHANGED vars
    BY <1>5, OtherwiseSound
  <1> QED
    BY <1>1, <1>2, <1>3, <1>4, <1>5 DEF Next, Step

\* The inductive invariant of the runner, with its checkpoints.
LEMMA SoundAlways == Spec => []Sound
  <1>1. Init => Sound
    BY SoundInit
  <1>2. Invariant /\ Sound /\ [Next]_vars => Sound'
    BY SoundStep DEF Invariant
  <1> QED
    BY <1>1, <1>2, Invariance, PTL DEF Spec

\* No order of deaths, retries, cancellations and edits writes a checkpoint the loop
\* itself takes for a corrupt one (automationPredecessorVersion,
\* validAutomationContinuingCheckpoint).
THEOREM SoundRowsKept == Spec => []SoundNotQuarantined
  <1>1. Sound => SoundNotQuarantined
    BY DEF Sound, SoundNotQuarantined
  <1> QED
    BY <1>1, SoundAlways, PTL

\* What a rule goes on from is what its predecessors left at the owners
\* (automationPredecessorVersion).
THEOREM PredecessorsInherited == Spec => []Inherited
  <1>1. Invariant /\ Sound => Inherited
    <2> SUFFICES ASSUME Invariant, Sound, NEW e \in Executions,
                        ~Damaged(e - 1), \A p \in 1..(e - 1) : ~Active(p)
                 PROVE  PredecessorVersion(e) = FactVersion + Cardinality(MadeBefore(e))
      BY DEF Inherited, MadeBefore
    <2>1. RowsType /\ Truthful /\ StepsTold /\ RowsFine
      BY DEF Invariant, Shape, Fenced
    <2>2. Preceded(e) /\ PredecessorVersion(e) = Base(e)
      BY <2>1, TurnPreceded
    <2> QED
      BY <2>1, <2>2, BaseIsMade
  <1> QED
    BY <1>1, SoundAlways, Invariance, PTL

\* What a person has to look at is not written any more: nobody holds a lease on it.
LEMMA QuarantinedStays ==
  ASSUME Shape, Fenced, Sound, [Next]_vars, NEW p \in Executions, row[p].status = "manual_action_required"
  PROVE  row'[p] = row[p]
  <1>1. /\ RowsType /\ RunnersShape /\ FlightShape /\ faults \in 0..MaxFaults
        /\ RowFine(p, row[p])
    BY DEF Shape, Fenced, RowsFine
  <1>2. ~Active(p) /\ ~row[p].live
    BY <1>1 DEF Active, ActiveStatus, RowFine
  <1>3. row[p].lease = NoRunner /\ NoRunner \notin Runners
    BY AbsentAssumption DEF Sound
  <1>4. ASSUME NEW e \in Executions, OnlyRow(e), e # p PROVE row'[p] = row[p]
    BY <1>4 DEF OnlyRow
  <1>5. ASSUME NEW r \in Runners, NEW e \in Executions,
               Quarantine(r, e) \/ CancelRest(r, e) \/ ClaimEvaluation(r, e) \/ ClaimAction(r, e)
        PROVE  row'[p] = row[p]
    <2>1. OnlyRow(e) /\ Turn(r, e)
      BY <1>1, <1>5, QuarantineEffect, CancelRestEffect, ClaimEvaluationEffect, ClaimActionEffect
    <2> QED
      BY <1>2, <1>4, <2>1 DEF Turn
  <1>6. ASSUME NEW r \in Runners, Record(r) PROVE row'[p] = row[p]
    <2>1. \E e \in Executions : row' = row \/ (row[e].lease = r /\ OnlyRow(e))
      BY <1>1, <1>6, RecordEffect DEF RecordWrites
    <2> QED
      BY <1>3, <1>4, <2>1
  <1>7. ASSUME NEW r \in Runners, Decide(r) PROVE row'[p] = row[p]
    <2>1. \E e \in Executions : row' = row \/ (row[e].lease = r /\ OnlyRow(e))
      BY <1>1, <1>7, DecideEffect
    <2> QED
      BY <1>3, <1>4, <2>1
  <1>8. ASSUME NEW e \in Executions, Cancel(e) \/ LeaseExpires(e) PROVE row'[p] = row[p]
    <2>1. OnlyRow(e) /\ (Active(e) \/ row[e].live)
      BY <1>1, <1>8, CancelEffect, LeaseExpiresEffect
    <2> QED
      BY <1>2, <1>4, <2>1
  <1>9. ASSUME NEW r \in Runners, Send(r) \/ Evaluate(r) \/ Crash(r) PROVE row' = row
    BY <1>9 DEF Send, Evaluate, Crash
  <1>10. ASSUME NEW q \in flight, Owner(q) PROVE row' = row
    BY <1>10, OwnerStep DEF OwnerEffect
  <1>11. HumanChange \/ Elsewhere \/ UNCHANGED vars => row' = row
    BY DEF HumanChange, Elsewhere, vars
  <1> QED
    BY <1>5, <1>6, <1>7, <1>8, <1>9, <1>10, <1>11 DEF Next, Step, Claim

\* What is not active is not written again.
LEMMA InactiveStays ==
  ASSUME Shape, Truthful, Fenced, Sound, [Next]_vars, NEW e \in Executions, ~Active(e)
  PROVE  row'[e] = row[e]
  <1>1. row[e].status \in FinalStatus
    <2>1. row[e].status \in ActiveStatus \cup FinalStatus
      BY RowColumns DEF Shape, RowsType
    <2> QED
      BY <2>1 DEF Active
  <1>2. CASE Ended(e)
    BY <1>2, EndedStays
  <1>3. CASE ~Ended(e)
    <2>1. row[e].status = "manual_action_required"
      BY <1>1, <1>3 DEF Ended
    <2> QED
      BY <2>1, QuarantinedStays
  <1> QED
    BY <1>2, <1>3

\* An execution that has ended is not written again (finishAutomationExecution).
THEOREM EndedStaysEnded == Spec => FinalIsFinal
  <1>1. Invariant /\ Sound /\ [Next]_vars => (\A e \in Executions : ~Active(e) => row'[e] = row[e])
    BY InactiveStays DEF Invariant
  <1>2. Invariant /\ Sound /\ [Next]_vars => [\A e \in Executions : ~Active(e) => row'[e] = row[e]]_vars
    BY <1>1
  <1> QED
    BY <1>2, SoundAlways, Invariance, PTL DEF Spec, FinalIsFinal

(***************************************************************************)
(* The owners, as the runner sees them: CommandOnce.                       *)
(***************************************************************************)

\* What a row says of frozen commands and of successes is kept.
ReportsKept(x, y, e) ==
    \A i \in Steps(e) :
        /\ x.dispatch[i] # 0 => y.dispatch[i] = x.dispatch[i]
        /\ x.results[i].status = "succeeded" => y.results[i] = x.results[i]

NoReport(x, y, e) ==
    \A i \in Steps(e) : y.results[i].status = "succeeded" => x.results[i].status = "succeeded"

\* The action i of e is recorded as its receipt says.
NewReport(e, i) ==
    /\ row[e].results[i].status # "succeeded"
    /\ row'[e].results[i].status = "succeeded"
    /\ receipt[<<e, i>>] # NoReceipt
    /\ row'[e].results[i].version = receipt[<<e, i>>].output
    /\ \A p \in Executions : \A j \in Steps(p) :
          row'[p].results[j].status = "succeeded" =>
              row[p].results[j].status = "succeeded" \/ (p = e /\ j = i)

QuietReports == \A e \in Executions : ReportsKept(row[e], row'[e], e) /\ NoReport(row[e], row'[e], e)

\* A row that is written without a success.
LEMMA OneRowReports ==
  ASSUME NEW e \in Executions, OnlyRow(e),
         \A i \in Steps(e) :
            /\ row[e].dispatch[i] # 0 => row'[e].dispatch[i] = row[e].dispatch[i]
            /\ \/ row'[e].results[i] = row[e].results[i]
               \/ row[e].results[i].status # "succeeded" /\ row'[e].results[i].status # "succeeded"
  PROVE  QuietReports
  <1>1. ASSUME NEW p \in Executions, p # e
        PROVE  ReportsKept(row[p], row'[p], p) /\ NoReport(row[p], row'[p], p)
    <2>1. row'[p] = row[p]
      BY <1>1 DEF OnlyRow
    <2> QED
      BY <2>1 DEF ReportsKept, NoReport
  <1>2. ReportsKept(row[e], row'[e], e)
    BY DEF ReportsKept
  <1>3. NoReport(row[e], row'[e], e)
    BY DEF NoReport
  <1> QED
    BY <1>1, <1>2, <1>3 DEF QuietReports

\* Steps that write no row report nothing.
LEMMA NoRowReports ==
  ASSUME row' = row
  PROVE  QuietReports
  BY DEF QuietReports, ReportsKept, NoReport

\* The results of an execution that goes on: those it was given, or cancelled.
LEMMA GoesOnResults ==
  ASSUME NEW e \in Executions, NEW x, NEW f \in [Steps(e) -> ResultType], NEW n, NEW y, GoesOn(x, e, f, n, y),
         NEW j \in Steps(e)
  PROVE  \/ y.results[j] = f[j]
         \/ y.results[j].status = "cancelled" /\ j \in n..Len(Plan[e])
  <1>1. CASE x.cancel /\ n <= Len(Plan[e])
    <2> DEFINE S == n..Len(Plan[e])
    <2>1. y.results = Mark(f, S, "cancelled")
      BY <1>1 DEF GoesOn
    <2>2. "cancelled" \in ResultStatus
      BY DEF ResultStatus
    <2>3. \/ Mark(f, S, "cancelled")[j] = f[j]
          \/ Mark(f, S, "cancelled")[j].status = "cancelled" /\ j \in S
      BY DEF Mark
    <2> QED
      BY <2>1, <2>3
  <1>2. CASE ~(x.cancel /\ n <= Len(Plan[e]))
    BY <1>2 DEF GoesOn
  <1> QED
    BY <1>1, <1>2

\* A record reports one success, as the receipt says it, or none.
LEMMA RecordReports ==
  ASSUME Shape, Truthful, Fenced, HeardTrue, NEW r \in Runners, NEW e \in Executions, NEW i \in Steps(e),
         runner[r].pc = "record", runner[r].command = <<e, i>>, RecordWrites(r, e, i)
  PROVE  \/ QuietReports
         \/ NewReport(e, i) /\ \A p \in Executions : ReportsKept(row[p], row'[p], p)
  <1> DEFINE x == row[e]
             y == row'[e]
  <1>1. OnlyRow(e) /\ i = x.next /\ Released(x, y)
    <2>1. RecordedSteps(r, e, i)
      BY RecordedStepsHold DEF Fenced
    <2>2. OnlyRow(e)
      BY DEF RecordWrites
    <2> QED
      BY <2>1, <2>2 DEF RecordedSteps
  <1>2. y.dispatch = x.dispatch
    BY <1>1 DEF Released
  <1>3. ASSUME NEW j \in Steps(e) PROVE x.results[j].status = "succeeded" => j < i
    BY <1>1 DEF Fenced, StepsTold, StepTold, Completed
  <1>4. i \in Nat /\ \A j \in Steps(e) : j \in Nat
    BY PlanSteps
  <1>5. CASE Confirms(runner[r]) /\ HasSucceeded(x, e, i, runner[r].output, y)
    <2>1. PICK f : SuccessAt(x, e, i, runner[r].output, f) /\ GoesOn(x, e, f, i + 1, y)
      BY <1>5 DEF HasSucceeded
    <2>2. /\ f \in [Steps(e) -> ResultType]
          /\ f[i] = [status |-> "succeeded", version |-> runner[r].output]
          /\ \A j \in Steps(e) : j # i => f[j] = x.results[j]
      BY <2>1 DEF SuccessAt
    <2>3. ASSUME NEW j \in Steps(e)
          PROVE  y.results[j] = f[j] \/ (y.results[j].status = "cancelled" /\ i < j)
      <3>1. y.results[j] = f[j] \/ (y.results[j].status = "cancelled" /\ j \in (i + 1)..Len(Plan[e]))
        BY <2>1, <2>2, GoesOnResults
      <3> QED
        BY <1>4, <3>1
    <2>4. y.results[i] = [status |-> "succeeded", version |-> runner[r].output]
      BY <1>4, <2>2, <2>3
    <2>5. receipt[<<e, i>>] # NoReceipt /\ receipt[<<e, i>>].output = runner[r].output
      BY <1>5 DEF HeardTrue, Confirms
    <2>6. x.results[i].status # "succeeded"
      BY <1>3, <1>4
    <2>7. ASSUME NEW j \in Steps(e), y.results[j].status = "succeeded"
          PROVE  x.results[j].status = "succeeded" \/ j = i
      BY <2>2, <2>3, <2>7
    <2>8. ASSUME NEW j \in Steps(e), x.results[j].status = "succeeded"
          PROVE  y.results[j] = x.results[j]
      <3>1. j < i /\ j # i
        BY <1>3, <1>4, <2>8
      <3>2. ~(i < j)
        BY <1>4, <3>1
      <3> QED
        BY <2>2, <2>3, <3>1, <3>2
    <2>9. NewReport(e, i)
      BY <1>1, <2>4, <2>5, <2>6, <2>7 DEF NewReport, OnlyRow
    <2>10. ASSUME NEW p \in Executions PROVE ReportsKept(row[p], row'[p], p)
      <3>1. p = e \/ row'[p] = row[p]
        BY <1>1 DEF OnlyRow
      <3> QED
        BY <1>2, <2>8, <3>1 DEF ReportsKept
    <2> QED
      BY <2>9, <2>10
  <1>6. CASE HasFailed(x, e, i, y)
    <2> DEFINE n == i + 1 + Cardinality(Rest(e, i))
    <2>1. PICK f : FailureAt(x, e, i, f) /\ GoesOn(x, e, f, n, y)
      BY <1>6 DEF HasFailed
    <2>2. n \in Nat /\ i < n
      <3> DEFINE m == Cardinality(Rest(e, i))
      <3>1. m \in Nat /\ n = i + 1 + m
        BY RestFollows
      <3> HIDE DEF m, n
      <3> QED
        BY <1>4, <3>1
    <2> HIDE DEF n
    <2>3. f \in [Steps(e) -> ResultType]
      BY <2>1 DEF FailureAt
    <2>4. ASSUME NEW j \in Steps(e)
          PROVE  f[j] = x.results[j] \/ (f[j].status # "succeeded" /\ x.results[j].status # "succeeded")
      <3>1. CASE j = i
        BY <1>3, <1>4, <2>1, <3>1 DEF FailureAt
      <3>2. CASE j \in Rest(e, i)
        <4>1. i < j
          BY <1>4, <3>2 DEF Rest
        <4> QED
          BY <1>3, <1>4, <2>1, <3>2, <4>1 DEF FailureAt
      <3>3. CASE j # i /\ j \notin Rest(e, i)
        BY <2>1, <3>3 DEF FailureAt
      <3> QED
        BY <3>1, <3>2, <3>3
    <2>5. ASSUME NEW j \in Steps(e)
          PROVE  y.results[j] = f[j] \/ (y.results[j].status = "cancelled" /\ i < j)
      <3>1. y.results[j] = f[j] \/ (y.results[j].status = "cancelled" /\ j \in n..Len(Plan[e]))
        BY <2>1, <2>3, GoesOnResults
      <3> QED
        BY <1>4, <2>2, <3>1
    <2>6. ASSUME NEW j \in Steps(e)
          PROVE  \/ y.results[j] = x.results[j]
                 \/ x.results[j].status # "succeeded" /\ y.results[j].status # "succeeded"
      <3>1. CASE y.results[j] = f[j]
        BY <2>4, <3>1
      <3>2. CASE y.results[j].status = "cancelled" /\ i < j
        <4>1. ~(j < i)
          BY <1>4, <3>2
        <4> QED
          BY <1>3, <3>2, <4>1
      <3> QED
        BY <2>5, <3>1, <3>2
    <2> QED
      BY <1>1, <1>2, <2>6, OneRowReports
  <1>7. CASE IsUnknown(x, e, i, y)
    <2>1. x.results[i].status # "succeeded"
      BY <1>3, <1>4
    <2>2. ASSUME NEW j \in Steps(e)
          PROVE  \/ y.results[j] = x.results[j]
                 \/ x.results[j].status # "succeeded" /\ y.results[j].status # "succeeded"
      BY <1>7, <2>1 DEF IsUnknown
    <2> QED
      BY <1>1, <1>2, <2>2, OneRowReports
  <1> QED
    BY <1>5, <1>6, <1>7 DEF RecordWrites

\* What a step does to the store of the owners, as the rows tell it: nothing, an effect,
\* or the report of one.
Reports ==
    \/ receipt' = receipt /\ QuietReports
    \/ row' = row /\ \E q \in flight : Performs(q)
    \/ /\ receipt' = receipt
       /\ \A p \in Executions : ReportsKept(row[p], row'[p], p)
       /\ \E e \in Executions : \E i \in Steps(e) : NewReport(e, i)

\* The next action of a row has not been reported, and no later one has.
LEMMA NextUnreported ==
  ASSUME StepsTold, NEW e \in Executions, NEW i \in Steps(e), row[e].next <= i, row[e].next \in Nat
  PROVE  row[e].results[i].status # "succeeded"
  <1>1. ~(i < row[e].next)
    BY PlanSteps
  <1> QED
    BY <1>1 DEF StepsTold, StepTold, Completed

\* A claim of an action keeps the command that was frozen.
LEMMA ClaimActionReports ==
  ASSUME Shape, Truthful, Fenced, NEW r \in Runners, NEW e \in Executions, ClaimAction(r, e)
  PROVE  receipt' = receipt /\ QuietReports
  <1> DEFINE x == row[e]
             y == row'[e]
  <1>1. RowsType /\ RunnersShape /\ StepsTold
    BY DEF Shape, Fenced
  <1>2. /\ OnlyRow(e) /\ OwnersKept /\ x.next \in Steps(e)
        /\ IsAccepted(x, e, r, StartVersion(e), Frozen(e), y)
    BY <1>1, ClaimActionEffect
  <1>3. x.dispatch[x.next] # 0 => Frozen(e) = x.dispatch[x.next]
    BY DEF Frozen
  <1>4. x.next \in Nat
    BY <1>2, PlanSteps
  <1>5. x.results[x.next].status # "succeeded"
    BY <1>1, <1>2, <1>4, NextUnreported
  <1>6. ASSUME NEW i \in Steps(e)
        PROVE  /\ x.dispatch[i] # 0 => y.dispatch[i] = x.dispatch[i]
               /\ \/ y.results[i] = x.results[i]
                  \/ x.results[i].status # "succeeded" /\ y.results[i].status # "succeeded"
    <2>1. CASE i # x.next \/ Kind(<<e, x.next>>) = "invalid"
      BY <1>2, <2>1 DEF IsAccepted
    <2>2. CASE i = x.next /\ Kind(<<e, x.next>>) # "invalid"
      BY <1>2, <1>3, <1>5, <2>2 DEF IsAccepted
    <2> QED
      BY <2>1, <2>2
  <1>7. QuietReports
    BY <1>2, <1>6, OneRowReports
  <1> QED
    BY <1>2, <1>7 DEF OwnersKept

\* A cancellation sets aside actions that were not started.
LEMMA CancelledReports ==
  ASSUME RowsType, LaterUnsent, StepsTold, NEW e \in Executions, NEW S, OnlyRow(e),
         IsCancelled(row[e], e, S, row'[e]),
         \A i \in Steps(e) : i \in S => row[e].next <= i \/ row[e].results[i].status = "pending"
  PROVE  QuietReports
  <1>1. row[e].next \in Nat
    BY RowColumns DEF RowsType
  <1>2. ASSUME NEW i \in Steps(e)
        PROVE  /\ row'[e].dispatch[i] = row[e].dispatch[i]
               /\ \/ row'[e].results[i] = row[e].results[i]
                  \/ row[e].results[i].status # "succeeded" /\ row'[e].results[i].status # "succeeded"
    <2>1. CASE i \in S
      <3>1. row[e].results[i].status # "succeeded"
        BY <1>1, <2>1, NextUnreported
      <3> QED
        BY <2>1, <3>1 DEF IsCancelled
    <2>2. CASE i \notin S
      BY <2>2 DEF IsCancelled
    <2> QED
      BY <2>1, <2>2 DEF IsCancelled
  <1> QED
    BY <1>2, OneRowReports

\* An update that leaves results and commands alone reports nothing.
LEMMA SameReports ==
  ASSUME NEW e \in Executions, OnlyRow(e),
         row'[e].results = row[e].results, row'[e].dispatch = row[e].dispatch
  PROVE  QuietReports
  BY OneRowReports

\* The other claims report nothing.
LEMMA ClaimReports ==
  ASSUME Shape, Truthful, Fenced, NEW r \in Runners, Claim(r)
  PROVE  receipt' = receipt /\ QuietReports
  <1>1. RowsType /\ RunnersShape /\ StepsTold /\ LaterUnsent
    BY DEF Shape, Fenced, Truthful
  <1>2. PICK e \in Executions :
           Quarantine(r, e) \/ CancelRest(r, e) \/ ClaimEvaluation(r, e) \/ ClaimAction(r, e)
    BY DEF Claim
  <1>3. CASE Quarantine(r, e)
    <2>1. OnlyRow(e) /\ IsQuarantined(row[e], row'[e]) /\ ElseKept
      BY <1>1, <1>3, QuarantineEffect
    <2> QED
      BY <2>1, SameReports DEF IsQuarantined, SameProgress, ElseKept, OwnersKept
  <1>4. CASE CancelRest(r, e)
    <2> DEFINE S == row[e].next..Len(Plan[e])
    <2>1. OnlyRow(e) /\ ElseKept /\ IsCancelled(row[e], e, S, row'[e])
      BY <1>1, <1>4, CancelRestEffect
    <2>2. \A i \in Steps(e) : i \in S => row[e].next <= i
      OBVIOUS
    <2> HIDE DEF S
    <2>3. QuietReports
      BY <1>1, <2>1, <2>2, CancelledReports
    <2> QED
      BY <2>1, <2>3 DEF ElseKept, OwnersKept
  <1>5. CASE ClaimEvaluation(r, e)
    <2>1. OnlyRow(e) /\ IsLeased(row[e], r, row'[e]) /\ OwnersKept
      BY <1>1, <1>5, ClaimEvaluationEffect
    <2> QED
      BY <2>1, SameReports DEF IsLeased, SameProgress, OwnersKept
  <1>6. CASE ClaimAction(r, e)
    BY <1>6, ClaimActionReports
  <1> QED
    BY <1>2, <1>3, <1>4, <1>5, <1>6

\* So do decisions, cancellations and the end of leases.
LEMMA OtherRowReports ==
  ASSUME Shape, Truthful, Fenced,
         \/ \E r \in Runners : Decide(r)
         \/ \E e \in Executions : Cancel(e) \/ LeaseExpires(e)
  PROVE  receipt' = receipt /\ QuietReports
  <1>1. RowsType /\ RunnersShape /\ StepsTold /\ LaterUnsent /\ faults \in 0..MaxFaults
    BY DEF Shape, Fenced, Truthful
  <1>2. ASSUME NEW r \in Runners, Decide(r) PROVE receipt' = receipt /\ QuietReports
    <2>1. receipt' = receipt
      BY <1>1, <1>2, DecideEffect DEF OwnersKept
    <2>2. PICK e \in Executions :
             \/ row' = row
             \/ OnlyRow(e) /\ IsDecided(row[e], runner[r].answer, runner[r].version, row'[e])
      BY <1>1, <1>2, DecideEffect
    <2>3. QuietReports
      BY <2>2, NoRowReports, SameReports DEF IsDecided
    <2> QED
      BY <2>1, <2>3
  <1>3. ASSUME NEW e \in Executions, Cancel(e) PROVE receipt' = receipt /\ QuietReports
    <2>1. /\ OnlyRow(e) /\ receipt' = receipt
          /\ \/ IsAsked(row[e], row'[e]) \/ IsDropped(row[e], row'[e])
             \/ IsCancelled(row[e], e, PendingSteps(row[e]), row'[e])
      BY <1>1, <1>3, CancelEffect DEF ElseKept, OwnersKept
    <2>2. CASE IsAsked(row[e], row'[e]) \/ IsDropped(row[e], row'[e])
      BY <2>1, <2>2, SameReports DEF IsAsked, IsDropped, SameProgress
    <2>3. CASE IsCancelled(row[e], e, PendingSteps(row[e]), row'[e])
      <3>1. \A i \in Steps(e) : i \in PendingSteps(row[e]) => row[e].results[i].status = "pending"
        BY DEF PendingSteps
      <3>2. QuietReports
        BY <1>1, <2>1, <2>3, <3>1, CancelledReports
      <3> QED
        BY <2>1, <3>2
    <2> QED
      BY <2>1, <2>2, <2>3
  <1>4. ASSUME NEW e \in Executions, LeaseExpires(e) PROVE receipt' = receipt /\ QuietReports
    <2>1. OnlyRow(e) /\ ElseKept /\ IsExpired(row[e], row'[e])
      BY <1>1, <1>4, LeaseExpiresEffect
    <2> QED
      BY <2>1, SameReports DEF IsExpired, SameProgress, ElseKept, OwnersKept
  <1> QED
    BY <1>2, <1>3, <1>4

\* Every step does one of the three.
LEMMA StepReports == Shape /\ Truthful /\ Fenced /\ HeardTrue /\ [Next]_vars => Reports
  <1> SUFFICES ASSUME Shape, Truthful, Fenced, HeardTrue, [Next]_vars PROVE Reports
    OBVIOUS
  <1>1. CASE \E r \in Runners : Claim(r)
    BY <1>1, ClaimReports DEF Reports
  <1>2. CASE \/ \E r \in Runners : Decide(r)
             \/ \E e \in Executions : Cancel(e) \/ LeaseExpires(e)
    BY <1>2, OtherRowReports DEF Reports
  <1>3. ASSUME NEW r \in Runners, Record(r) PROVE Reports
    <2>1. RowsType /\ RunnersShape
      BY DEF Shape
    <2>2. receipt' = receipt /\ runner[r].pc = "record"
      BY <1>3, <2>1, RecordEffect DEF OwnersKept
    <2>3. PICK e \in Executions : \E i \in Steps(e) :
             runner[r].command = <<e, i>> /\ (row' = row \/ RecordWrites(r, e, i))
      BY <1>3, <2>1, RecordEffect
    <2>4. PICK i \in Steps(e) :
             runner[r].command = <<e, i>> /\ (row' = row \/ RecordWrites(r, e, i))
      BY <2>3
    <2>5. CASE row' = row
      BY <2>2, <2>5, NoRowReports DEF Reports
    <2>6. CASE RecordWrites(r, e, i)
      <3>1. \/ QuietReports
            \/ NewReport(e, i) /\ \A p \in Executions : ReportsKept(row[p], row'[p], p)
        BY <2>2, <2>4, <2>6, RecordReports
      <3> QED
        BY <2>2, <3>1 DEF Reports
    <2> QED
      BY <2>4, <2>5, <2>6
  <1>4. ASSUME NEW q \in flight, Owner(q) PROVE Reports
    <2>1. OwnerEffect(q)
      BY <1>4, OwnerStep
    <2>2. row' = row /\ (Performs(q) \/ NothingDone)
      BY <2>1 DEF OwnerEffect
    <2> QED
      BY <2>2, NoRowReports DEF Reports, NothingDone
  <1>5. ASSUME NEW r \in Runners, Send(r) \/ Evaluate(r) \/ Crash(r) PROVE Reports
    <2>1. row' = row /\ receipt' = receipt
      BY <1>5 DEF Send, Evaluate, Crash
    <2> QED
      BY <2>1, NoRowReports DEF Reports
  <1>6. CASE HumanChange \/ Elsewhere \/ UNCHANGED vars
    <2>1. row' = row /\ receipt' = receipt
      BY <1>6 DEF HumanChange, Elsewhere, vars
    <2> QED
      BY <2>1, NoRowReports DEF Reports
  <1> QED
    BY <1>1, <1>2, <1>3, <1>4, <1>5, <1>6 DEF Next, Step

\* The rows and the owners agree: a receipt is for the command as it was frozen, and a
\* success was reported from it.
OwnersAgree ==
    \A e \in Executions : \A i \in Steps(e) :
        /\ receipt[<<e, i>>] # NoReceipt =>
              receipt[<<e, i>>] \in ReceiptType /\ receipt[<<e, i>>].input = row[e].dispatch[i]
        /\ row[e].results[i].status = "succeeded" =>
              receipt[<<e, i>>] # NoReceipt /\ row[e].results[i].version = receipt[<<e, i>>].output

\* No row is reported and no receipt issued at admission.
LEMMA OwnersAgreeInit == Init => OwnersAgree
  <1> SUFFICES ASSUME Init, NEW e \in Executions, NEW i \in Steps(e)
               PROVE  receipt[<<e, i>>] = NoReceipt /\ row[e].results[i].status = "pending"
    BY DEF OwnersAgree
  <1>1. receipt[<<e, i>>] = NoReceipt
    BY CommandPairs DEF Init
  <1>2. PICK f \in [Executions -> {Queued, Deferred, Rejected, Unreadable}] :
           row = [p \in Executions |-> Admitted(p, f[p])]
    BY DEF Init
  <1>3. row[e].results[i] = Pending
    BY <1>2 DEF Admitted
  <1> QED
    BY <1>1, <1>3 DEF Pending

\* A report keeps the rows in agreement with receipts that stay.
LEMMA AgreeReported ==
  ASSUME OwnersAgree, receipt' = receipt, \A p \in Executions : ReportsKept(row[p], row'[p], p),
         \A e \in Executions : \A i \in Steps(e) : row'[e].results[i].status = "succeeded" =>
            \/ row[e].results[i].status = "succeeded"
            \/ receipt[<<e, i>>] # NoReceipt /\ row'[e].results[i].version = receipt[<<e, i>>].output
  PROVE  OwnersAgree'
  <1> SUFFICES ASSUME NEW e \in Executions, NEW i \in Steps(e)
               PROVE  /\ receipt[<<e, i>>] # NoReceipt =>
                            /\ receipt[<<e, i>>] \in ReceiptType
                            /\ receipt[<<e, i>>].input = row'[e].dispatch[i]
                      /\ row'[e].results[i].status = "succeeded" =>
                            /\ receipt[<<e, i>>] # NoReceipt
                            /\ row'[e].results[i].version = receipt[<<e, i>>].output
    BY DEF OwnersAgree
  <1>1. ASSUME receipt[<<e, i>>] # NoReceipt
        PROVE  receipt[<<e, i>>] \in ReceiptType /\ receipt[<<e, i>>].input = row'[e].dispatch[i]
    <2>1. receipt[<<e, i>>] \in ReceiptType /\ receipt[<<e, i>>].input = row[e].dispatch[i]
      BY <1>1 DEF OwnersAgree
    <2>2. row[e].dispatch[i] # 0
      BY <2>1, VersionNumbers DEF ReceiptType
    <2> QED
      BY <2>1, <2>2 DEF ReportsKept
  <1>2. ASSUME row'[e].results[i].status = "succeeded"
        PROVE  receipt[<<e, i>>] # NoReceipt /\ row'[e].results[i].version = receipt[<<e, i>>].output
    <2>1. CASE row[e].results[i].status = "succeeded"
      BY <2>1 DEF OwnersAgree, ReportsKept
    <2>2. CASE row[e].results[i].status # "succeeded"
      BY <1>2, <2>2
    <2> QED
      BY <2>1, <2>2
  <1> QED
    BY <1>1, <1>2

\* An effect has the input of its frozen command.
LEMMA PerformedReceipt ==
  ASSUME Shape, Fenced, NEW q \in flight, Performs(q)
  PROVE  /\ q.command \in Commands /\ receipt[q.command] = NoReceipt
         /\ \E z \in ReceiptType : /\ receipt' = [receipt EXCEPT ![q.command] = z]
                                   /\ z.input = row[q.command[1]].dispatch[q.command[2]]
  <1>1. q.command \in Commands
    BY RequestFields DEF Shape
  <1>2. PICK e \in Executions : \E i \in Steps(e) : q.command = <<e, i>>
    BY <1>1, CommandPairs
  <1>3. PICK i \in Steps(e) : q.command = <<e, i>>
    BY <1>2
  <1>4. q.version = row[e].dispatch[i]
    BY <1>3 DEF Fenced, SentFrozen
  <1>5. row[q.command[1]].dispatch[q.command[2]] = q.version
    BY <1>3, <1>4
  <1> QED
    BY <1>1, <1>5 DEF Performs

\* Effects and reports keep the rows in agreement with the owners.
LEMMA OwnersAgreeStep == Shape /\ Fenced /\ Reports /\ OwnersAgree => OwnersAgree'
  <1> SUFFICES ASSUME Shape, Fenced, Reports, OwnersAgree PROVE OwnersAgree'
    OBVIOUS
  <1>1. CASE receipt' = receipt /\ QuietReports
    BY <1>1, AgreeReported DEF QuietReports, NoReport
  <1>2. CASE row' = row /\ \E q \in flight : Performs(q)
    <2>1. PICK q \in flight : Performs(q)
      BY <1>2
    <2>2. q.command \in Commands /\ receipt[q.command] = NoReceipt
      BY <2>1, PerformedReceipt
    <2>3. PICK z \in ReceiptType : /\ receipt' = [receipt EXCEPT ![q.command] = z]
                                   /\ z.input = row[q.command[1]].dispatch[q.command[2]]
      BY <2>1, PerformedReceipt
    <2>4. DOMAIN receipt = Commands
      BY DEF Shape, ChangesShape
    <2> SUFFICES ASSUME NEW e \in Executions, NEW i \in Steps(e)
                 PROVE  /\ receipt'[<<e, i>>] # NoReceipt =>
                              /\ receipt'[<<e, i>>] \in ReceiptType
                              /\ receipt'[<<e, i>>].input = row[e].dispatch[i]
                        /\ row[e].results[i].status = "succeeded" =>
                              /\ receipt'[<<e, i>>] # NoReceipt
                              /\ row[e].results[i].version = receipt'[<<e, i>>].output
      BY <1>2 DEF OwnersAgree
    <2>5. <<e, i>> \in Commands
      BY CommandPairs
    <2>6. CASE q.command = <<e, i>>
      <3>1. receipt'[<<e, i>>] = z /\ z.input = row[e].dispatch[i]
        BY <2>3, <2>4, <2>5, <2>6
      <3>2. row[e].results[i].status # "succeeded"
        BY <2>2, <2>6 DEF OwnersAgree
      <3> QED
        BY <3>1, <3>2
    <2>7. CASE q.command # <<e, i>>
      <3>1. receipt'[<<e, i>>] = receipt[<<e, i>>]
        BY <2>3, <2>4, <2>5, <2>7
      <3> QED
        BY <3>1 DEF OwnersAgree
    <2> QED
      BY <2>6, <2>7
  <1>3. CASE /\ receipt' = receipt
             /\ \A p \in Executions : ReportsKept(row[p], row'[p], p)
             /\ \E e \in Executions : \E i \in Steps(e) : NewReport(e, i)
    <2>1. PICK e \in Executions : \E i \in Steps(e) : NewReport(e, i)
      BY <1>3
    <2>2. PICK i \in Steps(e) : NewReport(e, i)
      BY <2>1
    <2>3. ASSUME NEW p \in Executions, NEW j \in Steps(p), row'[p].results[j].status = "succeeded"
          PROVE  \/ row[p].results[j].status = "succeeded"
                 \/ receipt[<<p, j>>] # NoReceipt /\ row'[p].results[j].version = receipt[<<p, j>>].output
      BY <2>2, <2>3 DEF NewReport
    <2> QED
      BY <1>3, <2>3, AgreeReported
  <1> QED
    BY <1>1, <1>2, <1>3 DEF Reports

\* The rows and the owners agree in every reachable state.
LEMMA OwnersAgreeAlways == Spec => []OwnersAgree
  <1>1. Init => OwnersAgree
    BY OwnersAgreeInit
  <1>2. Invariant /\ OwnersAgree /\ [Next]_vars => OwnersAgree'
    BY StepReports, OwnersAgreeStep DEF Invariant
  <1> QED
    BY <1>1, <1>2, Invariance, PTL DEF Spec

\* The state of CommandOnce, as the refinement gives it.
OwnersDone == [c \in Commands |-> Outcome(c)]
TellingOf(c) == [caller |-> c, kind |-> "ok", output |-> row[c[1]].results[c[2]].version]
RowsTold == {TellingOf(c) : c \in Reported}

\* What was done under a key is its command, as it was frozen.
LEMMA OutcomeIs ==
  ASSUME OwnersAgree, NEW c \in Commands
  PROVE  /\ receipt[c] = NoReceipt => Outcome(c) = NoReceipt
         /\ receipt[c] # NoReceipt => /\ Outcome(c) = [input |-> c, output |-> receipt[c].output]
                                      /\ receipt[c].output \in Versions
                                      /\ Outcome(c) # NoReceipt
  <1>1. ASSUME receipt[c] # NoReceipt
        PROVE  receipt[c].input = row[c[1]].dispatch[c[2]] /\ receipt[c].output \in Versions
    <2>1. c[1] \in Executions /\ c[2] \in Steps(c[1]) /\ c = <<c[1], c[2]>>
      BY CommandPairs
    <2>2. receipt[c] \in ReceiptType /\ receipt[c].input = row[c[1]].dispatch[c[2]]
      BY <1>1, <2>1 DEF OwnersAgree
    <2> QED
      BY <2>2 DEF ReceiptType
  <1>2. receipt[c] = NoReceipt => Outcome(c) = NoReceipt
    BY DEF Outcome
  <1>3. receipt[c] # NoReceipt => Outcome(c) = [input |-> c, output |-> receipt[c].output]
    BY <1>1 DEF Outcome
  <1>4. receipt[c] # NoReceipt => Outcome(c) # NoReceipt
    BY <1>1, <1>3, AbsentAssumption
  <1> QED
    BY <1>1, <1>2, <1>3, <1>4

\* Receipts that stay are worth the same.
LEMMA SameDone ==
  ASSUME OwnersAgree, OwnersAgree', receipt' = receipt
  PROVE  OwnersDone' = OwnersDone
  <1>1. ASSUME NEW c \in Commands PROVE Outcome(c)' = Outcome(c)
    <2>1. c[1] \in Executions /\ c[2] \in Steps(c[1]) /\ c = <<c[1], c[2]>>
      BY CommandPairs
    <2>2. receipt[c] # NoReceipt => receipt[c].input = row[c[1]].dispatch[c[2]]
      BY <2>1 DEF OwnersAgree
    <2>3. receipt[c] # NoReceipt => receipt[c].input = row'[c[1]].dispatch[c[2]]
      BY <2>1 DEF OwnersAgree
    <2> QED
      BY <2>2, <2>3 DEF Outcome
  <1> QED
    BY <1>1 DEF OwnersDone

\* Rows that report what they did tell the same.
LEMMA SameTold ==
  ASSUME QuietReports
  PROVE  RowsTold' = RowsTold
  <1>1. ASSUME NEW c \in Commands
        PROVE  /\ c \in Reported' <=> c \in Reported
               /\ c \in Reported => TellingOf(c)' = TellingOf(c)
    <2>1. c[1] \in Executions /\ c[2] \in Steps(c[1])
      BY CommandPairs
    <2> QED
      BY <2>1 DEF QuietReports, ReportsKept, NoReport, Reported, TellingOf
  <1>2. Reported' = Reported /\ Reported \subseteq Commands
    <2>1. Reported \subseteq Commands /\ Reported' \subseteq Commands
      BY DEF Reported
    <2> QED
      BY <1>1, <2>1
  <1> QED
    BY <1>1, <1>2 DEF RowsTold

\* A new report tells what its receipt says.
LEMMA NewTold ==
  ASSUME NEW e \in Executions, NEW i \in Steps(e), NewReport(e, i),
         \A p \in Executions : ReportsKept(row[p], row'[p], p)
  PROVE  RowsTold' = RowsTold \cup {[caller |-> <<e, i>>, kind |-> "ok", output |-> receipt[<<e, i>>].output]}
  <1> DEFINE c0 == <<e, i>>
  <1>1. c0 \in Commands /\ c0[1] = e /\ c0[2] = i
    BY CommandPairs
  <1>2. ASSUME NEW c \in Commands
        PROVE  /\ c \in Reported' <=> c \in Reported \/ c = c0
               /\ c \in Reported => TellingOf(c)' = TellingOf(c)
    <2>1. c[1] \in Executions /\ c[2] \in Steps(c[1]) /\ c = <<c[1], c[2]>>
      BY CommandPairs
    <2>2. row[c[1]].results[c[2]].status = "succeeded" => row'[c[1]].results[c[2]] = row[c[1]].results[c[2]]
      BY <2>1 DEF ReportsKept
    <2>3. row'[c[1]].results[c[2]].status = "succeeded" =>
             row[c[1]].results[c[2]].status = "succeeded" \/ (c[1] = e /\ c[2] = i)
      BY <2>1 DEF NewReport
    <2>4. row'[e].results[i].status = "succeeded"
      BY DEF NewReport
    <2> QED
      BY <1>1, <2>1, <2>2, <2>3, <2>4 DEF Reported, TellingOf
  <1>3. Reported' = Reported \cup {c0} /\ Reported \subseteq Commands
    <2>1. Reported \subseteq Commands /\ Reported' \subseteq Commands
      BY DEF Reported
    <2> QED
      BY <1>1, <1>2, <2>1
  <1>4. TellingOf(c0)' = [caller |-> c0, kind |-> "ok", output |-> receipt[c0].output]
    BY <1>1 DEF TellingOf, NewReport
  <1>5. \A c \in Reported : TellingOf(c)' = TellingOf(c)
    BY <1>2, <1>3
  <1> HIDE DEF c0
  <1>6. RowsTold' = {TellingOf(c)' : c \in Reported} \cup {TellingOf(c0)'}
    BY <1>3 DEF RowsTold
  <1> QED
    BY <1>4, <1>5, <1>6 DEF RowsTold, c0

\* An effect is done under its own key.
LEMMA EffectDone ==
  ASSUME OwnersAgree, OwnersAgree', NEW c \in Commands, receipt[c] = NoReceipt, NEW z \in ReceiptType,
         DOMAIN receipt = Commands, receipt' = [receipt EXCEPT ![c] = z]
  PROVE  OwnersDone' = [OwnersDone EXCEPT ![c] = [input |-> c, output |-> z.output]]
  <1>1. ASSUME NEW d \in Commands, d # c PROVE Outcome(d)' = Outcome(d)
    <2>1. receipt'[d] = receipt[d]
      BY <1>1
    <2>2. d[1] \in Executions /\ d[2] \in Steps(d[1]) /\ d = <<d[1], d[2]>>
      BY CommandPairs
    <2>3. receipt[d] # NoReceipt => receipt[d].input = row[d[1]].dispatch[d[2]]
      BY <2>2 DEF OwnersAgree
    <2>4. receipt[d] # NoReceipt => receipt[d].input = row'[d[1]].dispatch[d[2]]
      BY <2>1, <2>2 DEF OwnersAgree
    <2> QED
      BY <2>1, <2>3, <2>4 DEF Outcome
  <1>2. Outcome(c)' = [input |-> c, output |-> z.output]
    <2>1. receipt'[c] = z /\ z # NoReceipt
      BY ReceiptIsOne
    <2>2. c[1] \in Executions /\ c[2] \in Steps(c[1]) /\ c = <<c[1], c[2]>>
      BY CommandPairs
    <2>3. z.input = row'[c[1]].dispatch[c[2]]
      BY <2>1, <2>2 DEF OwnersAgree
    <2> QED
      BY <2>1, <2>3 DEF Outcome
  <1> QED
    BY <1>1, <1>2 DEF OwnersDone

\* To the runner the owners of the commands keep the promise of CommandOnce: a command
\* takes effect once, with the input that was frozen for it, and a row that says it
\* succeeded says what its receipt says (prepareAutomationDispatch, moduleClient.command).
THEOREM OwnersKeepPromise == Spec => ImplementsOwnerPromise
  <1>1. Init => Once!Init
    <2> SUFFICES ASSUME Init PROVE Once!Init
      OBVIOUS
    <2>1. \A c \in Commands : receipt[c] = NoReceipt
      BY DEF Init
    <2>2. Reported = {}
      <3> SUFFICES ASSUME NEW c \in Commands, row[c[1]].results[c[2]].status = "succeeded" PROVE FALSE
        BY DEF Reported
      <3>1. c[1] \in Executions /\ c[2] \in Steps(c[1])
        BY CommandPairs
      <3>2. PICK f \in [Executions -> {Queued, Deferred, Rejected, Unreadable}] :
               row = [p \in Executions |-> Admitted(p, f[p])]
        BY DEF Init
      <3>3. row[c[1]].results[c[2]] = Pending
        BY <3>1, <3>2 DEF Admitted
      <3> QED
        BY <3>3 DEF Pending
    <2> QED
      BY <2>1, <2>2 DEF Once!Init, Outcome
  <1>2. Invariant /\ OwnersAgree /\ OwnersAgree' /\ Reports => [Once!Next]_(Once!vars)
    <2> SUFFICES ASSUME Invariant, OwnersAgree, OwnersAgree', Reports PROVE [Once!Next]_(Once!vars)
      OBVIOUS
    <2>1. CASE receipt' = receipt /\ QuietReports
      <3>1. OwnersDone' = OwnersDone /\ RowsTold' = RowsTold
        BY <2>1, SameDone, SameTold
      <3> QED
        BY <3>1 DEF Once!vars, OwnersDone, RowsTold, TellingOf
    <2>2. CASE row' = row /\ \E q \in flight : Performs(q)
      <3>1. Shape /\ Fenced /\ DOMAIN receipt = Commands
        BY DEF Invariant, Shape, ChangesShape
      <3>2. PICK q \in flight : Performs(q)
        BY <2>2
      <3> DEFINE c == q.command
      <3>3. c \in Commands /\ receipt[c] = NoReceipt
        BY <3>1, <3>2, PerformedReceipt
      <3>4. PICK z \in ReceiptType : receipt' = [receipt EXCEPT ![c] = z]
        BY <3>1, <3>2, PerformedReceipt
      <3> HIDE DEF c
      <3>5. OwnersDone' = [OwnersDone EXCEPT ![c] = [input |-> c, output |-> z.output]]
        BY <3>1, <3>3, <3>4, EffectDone
      <3>6. QuietReports
        BY <2>2, NoRowReports
      <3>7. RowsTold' = RowsTold
        BY <3>6, SameTold
      <3>8. z.output \in Versions /\ OwnersDone[c] = NoReceipt
        BY <3>3, OutcomeIs DEF ReceiptType, OwnersDone
      <3>9. Once!PerformSilently(c, z.output)
        BY <3>3, <3>5, <3>7, <3>8
           DEF Once!PerformSilently, Once!Perform, OwnersDone, RowsTold, TellingOf
      <3> QED
        BY <3>3, <3>8, <3>9 DEF Once!Next
    <2>3. CASE /\ receipt' = receipt
               /\ \A p \in Executions : ReportsKept(row[p], row'[p], p)
               /\ \E e \in Executions : \E i \in Steps(e) : NewReport(e, i)
      <3>1. PICK e \in Executions : \E i \in Steps(e) : NewReport(e, i)
        BY <2>3
      <3>2. PICK i \in Steps(e) : NewReport(e, i)
        BY <3>1
      <3> DEFINE c == <<e, i>>
      <3>3. c \in Commands /\ receipt[c] # NoReceipt
        BY <3>2, CommandPairs DEF NewReport
      <3>4. RowsTold' = RowsTold \cup {[caller |-> c, kind |-> "ok", output |-> receipt[c].output]}
        BY <2>3, <3>2, NewTold
      <3> HIDE DEF c
      <3>5. OwnersDone' = OwnersDone
        BY <2>3, SameDone
      <3>6. OwnersDone[c] = [input |-> c, output |-> receipt[c].output] /\ OwnersDone[c] # NoReceipt
        BY <3>3, OutcomeIs DEF OwnersDone
      <3>7. Once!Tell(c)
        BY <3>3, <3>4, <3>5, <3>6 DEF Once!Tell, Once!Verdict, OwnersDone, RowsTold, TellingOf
      <3> QED
        BY <3>3, <3>7 DEF Once!Next
    <2> QED
      BY <2>1, <2>2, <2>3 DEF Reports
  <1>3. Invariant /\ OwnersAgree /\ OwnersAgree' /\ [Next]_vars => [Once!Next]_(Once!vars)
    BY <1>2, StepReports DEF Invariant
  <1> QED
    BY <1>1, <1>3, Invariance, OwnersAgreeAlways, PTL DEF Spec, ImplementsOwnerPromise, Once!Spec

=============================================================================
