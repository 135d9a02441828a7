----------------------- MODULE CommandReceiptsProofs ------------------------
(***************************************************************************)
(* Proofs about CommandReceipts, for any callers, keys and requests: type  *)
(* correctness; a command takes effect once and exactly when its receipt   *)
(* stands; every answer is the recorded one; a refused request left        *)
(* nothing; and each step is a step of CommandOnce or leaves it alone.     *)
(***************************************************************************)
EXTENDS CommandReceipts, TLAPS

USE KeyAssumption, RequestAssumption, AbsentAssumption

----------------------------------------------------------------------------
(* Types *)

LEMMA GotoType ==
    ASSUME TypeOK, NEW q \in Requests, NEW pc \in Steps, request[q].caller \in Callers, Goto(q, pc)
    PROVE  TypeOK'
BY DEF TypeOK, Goto

LEMMA AnswerType ==
    ASSUME TypeOK, NEW q \in Requests, request[q].caller \in Callers,
           NEW kind \in Kinds, NEW output \in 0..MaxRequests, Answer(q, kind, output)
    PROVE  /\ request' \in [Requests -> [pc : Steps \cup {"unused", "done"},
                                         caller : Callers \cup {NoCaller}, said : Kinds \cup {""}]]
           /\ \A p \in Requests : request'[p].pc # "unused" => request'[p].caller \in Callers
           /\ waiting' \in [Callers -> 0..MaxRequests]
           /\ told' \subseteq Answers
<1>1. request' = [request EXCEPT ![q].pc = "done", ![q].said = kind]
  BY DEF Answer
<1> DEFINE c == request[q].caller
<1>0. 0 \in 0..MaxRequests
  BY RequestAssumption
<1>2. waiting' \in [Callers -> 0..MaxRequests]
  <2>1. waiting \in [Callers -> 0..MaxRequests]
    BY DEF TypeOK
  <2>2. waiting' = [waiting EXCEPT ![c] = 0] \/ waiting' = [waiting EXCEPT ![c] = waiting[c]]
    BY DEF Answer
  <2> QED
    BY <1>0, <2>1, <2>2
<1>3. told' \subseteq Answers
  <2>1. told' = told \/ (kind \in {"ok", "conflict"}
                         /\ told' = told \cup {[caller |-> c, kind |-> kind, output |-> output]})
    BY DEF Answer
  <2>2. told \subseteq Answers
    BY DEF TypeOK
  <2>3. CASE told' = told
    BY <2>2, <2>3
  <2>4. CASE kind \in {"ok", "conflict"}
             /\ told' = told \cup {[caller |-> c, kind |-> kind, output |-> output]}
    <3>1. [caller |-> c, kind |-> kind, output |-> output] \in Answers
      BY <2>4 DEF Answers
    <3> QED
      BY <2>2, <2>4, <3>1
  <2> QED
    BY <2>1, <2>3, <2>4
<1> QED
  BY <1>1, <1>2, <1>3 DEF TypeOK

LEMMA AnswerOnlyType ==
    ASSUME TypeOK, NEW q \in Requests, request[q].caller \in Callers,
           NEW kind \in Kinds, NEW output \in 0..MaxRequests, Answer(q, kind, output),
           UNCHANGED <<receipt, performed>>
    PROVE  TypeOK'
BY AnswerType DEF TypeOK

LEMMA ReplayType ==
    ASSUME TypeOK, NEW q \in Requests, request[q].caller \in Callers, Replay(q)
    PROVE  TypeOK'
<1>1. receipt[Key(q)] \in Receipts
  BY DEF Replay, TypeOK, Key
<1>2. receipt[Key(q)].output \in 0..MaxRequests
  BY <1>1 DEF Receipts, Requests
<1>3. CASE Answer(q, "ok", receipt[Key(q)].output) /\ UNCHANGED <<receipt, performed>>
  BY <1>2, <1>3, AnswerOnlyType DEF Kinds
<1>4. CASE Answer(q, "conflict", 0) /\ UNCHANGED <<receipt, performed>>
  <2>1. 0 \in 0..MaxRequests
    OBVIOUS
  <2> QED
    BY <2>1, <1>4, AnswerOnlyType DEF Kinds
<1> QED
  BY <1>3, <1>4 DEF Replay

LEMMA PersistType ==
    ASSUME TypeOK, NEW q \in Requests, request[q].caller \in Callers, Persist(q)
    PROVE  /\ receipt' \in [Keys -> Receipts \cup {NoReceipt}]
           /\ performed' \in [Keys -> SUBSET Requests]
<1>1. Key(q) \in Keys /\ Input(q) \in Inputs
  BY DEF Key, Input
<1>2. [input |-> Input(q), output |-> q] \in Receipts
  BY <1>1 DEF Receipts
<1> QED
  BY <1>1, <1>2 DEF Persist, TypeOK

LEMMA CommitType ==
    ASSUME TypeOK, NEW q \in Requests, request[q].caller \in Callers, Persist(q),
           NEW kind \in Kinds, NEW output \in 0..MaxRequests, Answer(q, kind, output)
    PROVE  TypeOK'
BY AnswerType, PersistType DEF TypeOK

LEMMA TypeStep == TypeOK /\ [Next]_vars => TypeOK'
<1> SUFFICES ASSUME TypeOK, [Next]_vars PROVE TypeOK'
  OBVIOUS
<1>0. 0 \in 0..MaxRequests /\ \A q \in Requests : q \in 0..MaxRequests
  BY DEF Requests
<1>1. ASSUME NEW c \in Callers, GiveUp(c) PROVE TypeOK'
  <2>1. waiting' \in [Callers -> 0..MaxRequests]
    BY <1>0, <1>1 DEF GiveUp, TypeOK
  <2> QED
    BY <1>1, <2>1 DEF GiveUp, TypeOK
<1>2. ASSUME NEW c \in Callers, NEW q \in Requests, Send(c, q) PROVE TypeOK'
  <2>1. request' \in [Requests -> [pc : Steps \cup {"unused", "done"},
                                   caller : Callers \cup {NoCaller}, said : Kinds \cup {""}]]
    BY <1>2 DEF Send, TypeOK, Steps
  <2>2. \A p \in Requests : request'[p].pc # "unused" => request'[p].caller \in Callers
    BY <1>2 DEF Send, TypeOK
  <2>3. waiting' \in [Callers -> 0..MaxRequests]
    BY <1>0, <1>2 DEF Send, TypeOK
  <2> QED
    BY <2>1, <2>2, <2>3, <1>2 DEF Send, TypeOK
<1>3. ASSUME NEW q \in Requests, Execute(q) PROVE TypeOK'
  <2>0. request[q].caller \in Callers
    BY <1>3 DEF TypeOK, Execute, LookUp, Prepared, PreparationFails, LookAgain, Begin, Reserve,
                HandlerSucceeds, HandlerFails, CommitStep, Commit, CommitUnheard, CommitFails, Reload
  <2>1. CASE LookUp(q)
    BY <2>0, <2>1, ReplayType, GotoType DEF LookUp, Steps
  <2>2. CASE Prepared(q)
    BY <2>0, <2>2, GotoType DEF Prepared, Steps
  <2>3. CASE PreparationFails(q)
    BY <2>0, <2>3, GotoType DEF PreparationFails, Steps
  <2>4. CASE LookAgain(q)
    BY <1>0, <2>0, <2>4, ReplayType, AnswerOnlyType DEF LookAgain, Kinds
  <2>5. CASE Begin(q)
    BY <2>0, <2>5, ReplayType, GotoType DEF Begin, Steps
  <2>6. CASE Reserve(q)
    <3>1. CASE Goto(q, "running")
      BY <2>0, <3>1, GotoType DEF Steps
    <3>2. CASE Goto(q, "conflicted")
      BY <2>0, <3>2, GotoType DEF Steps
    <3> QED
      BY <2>6, <3>1, <3>2 DEF Reserve
  <2>7. CASE HandlerSucceeds(q)
    BY <2>0, <2>7, GotoType DEF HandlerSucceeds, Steps
  <2>8. CASE HandlerFails(q)
    BY <1>0, <2>0, <2>8, AnswerOnlyType DEF HandlerFails, Kinds
  <2>9. CASE Commit(q)
    BY <1>0, <2>0, <2>9, CommitType DEF Commit, Kinds
  <2>10. CASE CommitUnheard(q)
    BY <1>0, <2>0, <2>10, CommitType DEF CommitUnheard, Kinds
  <2>11. CASE CommitFails(q)
    BY <1>0, <2>0, <2>11, AnswerOnlyType DEF CommitFails, Kinds
  <2>12. CASE Reload(q)
    BY <1>0, <2>0, <2>12, ReplayType, AnswerOnlyType DEF Reload, Kinds
  <2> QED
    BY <1>3, <2>1, <2>2, <2>3, <2>4, <2>5, <2>6, <2>7, <2>8, <2>9, <2>10, <2>11, <2>12
       DEF Execute, CommitStep
<1>4. ASSUME NEW q \in Requests, Refuse(q) PROVE TypeOK'
  <2>1. request[q].caller \in Callers
    BY <1>4 DEF Refuse, TypeOK
  <2> QED
    BY <1>0, <1>4, <2>1, AnswerOnlyType DEF Refuse, Kinds
<1>5. ASSUME NEW q \in Requests, Crash(q) PROVE TypeOK'
  BY <1>5 DEF Crash, Active, TypeOK, Steps
<1>6. CASE UNCHANGED vars
  BY <1>6 DEF vars, TypeOK
<1> QED
  BY <1>1, <1>2, <1>3, <1>4, <1>5, <1>6 DEF Next

\* Every reachable state is well typed, whatever is sent, given up and lost.
THEOREM TypeCorrect == Spec => []TypeOK
<1>0. 0 \in 0..MaxRequests
  BY RequestAssumption
<1>1. Init => TypeOK
  <2> SUFFICES ASSUME Init PROVE TypeOK
    OBVIOUS
  <2>1. request \in [Requests -> [pc : Steps \cup {"unused", "done"},
                                 caller : Callers \cup {NoCaller}, said : Kinds \cup {""}]]
    BY DEF Init
  <2>2. \A q \in Requests : request[q].pc = "unused"
    BY DEF Init
  <2>3. /\ receipt \in [Keys -> Receipts \cup {NoReceipt}]
        /\ performed \in [Keys -> SUBSET Requests]
        /\ told \subseteq Answers
    BY DEF Init
  <2>4. waiting \in [Callers -> 0..MaxRequests]
    BY <1>0 DEF Init
  <2> QED
    BY <2>1, <2>2, <2>3, <2>4 DEF TypeOK
<1> QED
  BY <1>1, TypeStep, PTL DEF Spec

----------------------------------------------------------------------------
(* The invariant that carries the safety properties from step to step. *)

\* At most one open transaction holds a key, and only while the key is unused.
HoldersAlone ==
    \A q \in Requests : Holds(q) =>
        /\ receipt[Key(q)] = NoReceipt
        /\ \A p \in Requests : Holds(p) /\ Key(p) = Key(q) => p = q

\* A request whose writes are committed is over and was not refused.
PerformersAreDone ==
    \A k \in Keys : \A q \in performed[k] : request[q].pc = "done" /\ request[q].said # "refused"

\* Only a request that is over has answered.
SaidWhenDone == \A q \in Requests : request[q].said # "" => request[q].pc = "done"

ReceiptsInv ==
    /\ HoldersAlone
    /\ PerformersAreDone
    /\ SaidWhenDone
    /\ EffectIffReceipt
    /\ AnswersRecorded

\* What a step that commits nothing may do: it leaves the requests that are over
\* alone, gives no key to anyone new, and tells only what a receipt says.
Quiet ==
    /\ UNCHANGED <<receipt, performed>>
    /\ \A p \in Requests :
          /\ request[p].pc = "done" => request'[p] = request[p]
          /\ request'[p].pc \in {"running", "commit"} =>
                Holds(p) /\ request'[p].caller = request[p].caller
          /\ request'[p].said # "" => request'[p].pc = "done"
    /\ \/ told' = told
       \/ \E c \in Callers :
             /\ receipt[KeyOf[c]] # NoReceipt
             /\ told' = told \cup {Once!Verdict(c, receipt[KeyOf[c]])}

LEMMA GotoQuiet ==
    ASSUME TypeOK, SaidWhenDone, NEW q \in Requests, Active(q), NEW pc \in Steps, Goto(q, pc),
           pc \in {"running", "commit"} => Holds(q)
    PROVE  Quiet
BY DEF Goto, Quiet, SaidWhenDone, TypeOK, Steps, Holds, Active

LEMMA AnswerRequest ==
    ASSUME TypeOK, SaidWhenDone, NEW q \in Requests, Active(q), NEW kind \in Kinds, NEW output,
           Answer(q, kind, output)
    PROVE  \A p \in Requests :
              /\ request[p].pc = "done" => request'[p] = request[p]
              /\ request'[p].pc \in {"running", "commit"} =>
                    Holds(p) /\ request'[p].caller = request[p].caller
              /\ request'[p].said # "" => request'[p].pc = "done"
<1>1. request' = [request EXCEPT ![q].pc = "done", ![q].said = kind]
  BY DEF Answer
<1> QED
  BY <1>1 DEF SaidWhenDone, TypeOK, Steps, Holds, Active

LEMMA FailureQuiet ==
    ASSUME TypeOK, SaidWhenDone, NEW q \in Requests, Active(q),
           NEW kind \in {"refused", "unavailable"}, NEW output, Answer(q, kind, output),
           UNCHANGED <<receipt, performed>>
    PROVE  Quiet
<1>1. told' = told
  BY DEF Answer
<1>2. kind \in Kinds
  BY DEF Kinds
<1> QED
  BY <1>1, <1>2, AnswerRequest DEF Quiet

LEMMA ReplayQuiet ==
    ASSUME TypeOK, SaidWhenDone, NEW q \in Requests, Active(q), Replay(q)
    PROVE  Quiet
<1> DEFINE c == request[q].caller
<1>1. c \in Callers /\ receipt[KeyOf[c]] # NoReceipt
  BY DEF Replay, Key, Active, TypeOK, Steps
<1>2. CASE receipt[Key(q)].input = Input(q) /\ Answer(q, "ok", receipt[Key(q)].output)
           /\ UNCHANGED <<receipt, performed>>
  <2>1. told' = told \/ told' = told \cup {Once!Verdict(c, receipt[KeyOf[c]])}
    BY <1>2 DEF Answer, Once!Verdict, Key, Input
  <2>2. "ok" \in Kinds
    BY DEF Kinds
  <2>3. \A p \in Requests :
            /\ request[p].pc = "done" => request'[p] = request[p]
            /\ request'[p].pc \in {"running", "commit"} =>
                  Holds(p) /\ request'[p].caller = request[p].caller
            /\ request'[p].said # "" => request'[p].pc = "done"
    BY <1>2, <2>2, AnswerRequest
  <2> QED
    BY <1>1, <1>2, <2>1, <2>3 DEF Quiet
<1>3. CASE receipt[Key(q)].input # Input(q) /\ Answer(q, "conflict", 0)
           /\ UNCHANGED <<receipt, performed>>
  <2>1. told' = told \/ told' = told \cup {Once!Verdict(c, receipt[KeyOf[c]])}
    BY <1>3 DEF Answer, Once!Verdict, Key, Input
  <2>2. "conflict" \in Kinds
    BY DEF Kinds
  <2>3. \A p \in Requests :
            /\ request[p].pc = "done" => request'[p] = request[p]
            /\ request'[p].pc \in {"running", "commit"} =>
                  Holds(p) /\ request'[p].caller = request[p].caller
            /\ request'[p].said # "" => request'[p].pc = "done"
    BY <1>3, <2>2, AnswerRequest
  <2> QED
    BY <1>1, <1>3, <2>1, <2>3 DEF Quiet
<1> QED
  BY <1>2, <1>3 DEF Replay

\* The two kinds of step that are not quiet.
Reserves(q) == Reserve(q) /\ Missing(q)
Persists(q) == Commit(q) \/ CommitUnheard(q)

LEMMA StepShape ==
    ASSUME TypeOK, SaidWhenDone, [Next]_vars
    PROVE  Quiet \/ \E q \in Requests : Reserves(q) \/ Persists(q)
<1>1. ASSUME NEW c \in Callers, GiveUp(c) PROVE Quiet
  BY <1>1 DEF GiveUp, Quiet, SaidWhenDone, Holds, TypeOK
<1>2. ASSUME NEW c \in Callers, NEW q \in Requests, Send(c, q) PROVE Quiet
  BY <1>2 DEF Send, Quiet, SaidWhenDone, Holds, TypeOK
<1>3. ASSUME NEW q \in Requests, Execute(q) PROVE Quiet \/ Reserves(q) \/ Persists(q)
  <2>0. Active(q)
    BY <1>3 DEF Active, Steps, Execute, LookUp, Prepared, PreparationFails, LookAgain, Begin,
                Reserve, HandlerSucceeds, HandlerFails, CommitStep, Commit, CommitUnheard,
                CommitFails, Reload
  <2>1. CASE LookUp(q)
    BY <2>0, <2>1, ReplayQuiet, GotoQuiet DEF LookUp, Steps
  <2>2. CASE Prepared(q)
    BY <2>0, <2>2, GotoQuiet DEF Prepared, Steps
  <2>3. CASE PreparationFails(q)
    BY <2>0, <2>3, GotoQuiet DEF PreparationFails, Steps
  <2>4. CASE LookAgain(q)
    BY <2>0, <2>4, ReplayQuiet, FailureQuiet DEF LookAgain
  <2>5. CASE Begin(q)
    BY <2>0, <2>5, ReplayQuiet, GotoQuiet DEF Begin, Steps
  <2>6. CASE Reserve(q)
    <3>1. CASE ~Missing(q)
      <4>1. Goto(q, "conflicted")
        BY <2>6, <3>1 DEF Reserve
      <4> QED
        BY <2>0, <4>1, GotoQuiet DEF Steps
    <3> QED
      BY <2>6, <3>1 DEF Reserves
  <2>7. CASE HandlerSucceeds(q)
    BY <2>0, <2>7, GotoQuiet DEF HandlerSucceeds, Steps, Holds
  <2>8. CASE HandlerFails(q)
    BY <2>0, <2>8, FailureQuiet DEF HandlerFails
  <2>9. CASE CommitFails(q)
    BY <2>0, <2>9, FailureQuiet DEF CommitFails
  <2>10. CASE Reload(q)
    BY <2>0, <2>10, ReplayQuiet, FailureQuiet DEF Reload
  <2>11. CASE Commit(q) \/ CommitUnheard(q)
    BY <2>11 DEF Persists
  <2> QED
    BY <1>3, <2>1, <2>2, <2>3, <2>4, <2>5, <2>6, <2>7, <2>8, <2>9, <2>10, <2>11
       DEF Execute, CommitStep
<1>4. ASSUME NEW q \in Requests, Refuse(q) PROVE Quiet
  BY <1>4, FailureQuiet DEF Refuse, Active, Steps
<1>5. ASSUME NEW q \in Requests, Crash(q) PROVE Quiet
  BY <1>5 DEF Crash, Active, Steps, Quiet, SaidWhenDone, Holds, TypeOK
<1>6. CASE UNCHANGED vars
  BY <1>6 DEF vars, Quiet, SaidWhenDone, Holds, TypeOK
<1> QED
  BY <1>1, <1>2, <1>3, <1>4, <1>5, <1>6 DEF Next

----------------------------------------------------------------------------
(* The three kinds of step preserve the invariant. *)

LEMMA QuietPreserves == ASSUME TypeOK, TypeOK', ReceiptsInv, Quiet PROVE ReceiptsInv'
<1>1. HoldersAlone'
  <2>1. \A p \in Requests : Holds(p)' => Holds(p) /\ Key(p)' = Key(p)
    BY DEF Quiet, Holds, Key
  <2>2. receipt' = receipt /\ HoldersAlone
    BY DEF Quiet, ReceiptsInv
  <2> QED
    BY <2>1, <2>2 DEF HoldersAlone
<1>2. PerformersAreDone'
  <2> SUFFICES ASSUME NEW j \in Keys, NEW p \in performed'[j]
               PROVE  request'[p].pc = "done" /\ request'[p].said # "refused"
    BY DEF PerformersAreDone
  <2>1. p \in performed[j] /\ p \in Requests
    BY DEF Quiet, TypeOK
  <2>2. request[p].pc = "done" /\ request[p].said # "refused"
    BY <2>1 DEF ReceiptsInv, PerformersAreDone
  <2> QED
    BY <2>1, <2>2 DEF Quiet
<1>3. SaidWhenDone'
  BY DEF SaidWhenDone, Quiet
<1>4. EffectIffReceipt'
  BY DEF ReceiptsInv, EffectIffReceipt, Quiet
<1>5. AnswersRecorded'
  <2> SUFFICES ASSUME NEW a \in told'
               PROVE  LET row == receipt[KeyOf[a.caller]]
                      IN  /\ row # NoReceipt
                          /\ a.kind = "ok" => row.input = InputOf[a.caller] /\ row.output = a.output
                          /\ a.kind = "conflict" => row.input # InputOf[a.caller]
    BY DEF AnswersRecorded, Quiet
  <2>1. CASE a \in told
    BY <2>1 DEF ReceiptsInv, AnswersRecorded
  <2>2. CASE a \notin told
    <3>1. PICK c \in Callers : receipt[KeyOf[c]] # NoReceipt /\ a = Once!Verdict(c, receipt[KeyOf[c]])
      BY <2>2 DEF Quiet
    <3> QED
      BY <3>1 DEF Once!Verdict
  <2> QED
    BY <2>1, <2>2
<1> QED
  BY <1>1, <1>2, <1>3, <1>4, <1>5 DEF ReceiptsInv

LEMMA ReservePreserves ==
    ASSUME TypeOK, TypeOK', ReceiptsInv, NEW q \in Requests, Reserves(q)
    PROVE  ReceiptsInv'
<1>1. /\ request' = [request EXCEPT ![q].pc = "running"]
      /\ UNCHANGED <<receipt, performed, waiting, told>>
      /\ request[q].pc = "reserve"
      /\ receipt[Key(q)] = NoReceipt
      /\ KeyFree(q)
  BY DEF Reserves, Reserve, Goto, Missing
<1>0. request[q] \in [pc : Steps \cup {"unused", "done"},
                      caller : Callers \cup {NoCaller}, said : Kinds \cup {""}]
  BY DEF TypeOK
<1>2. /\ \A p \in Requests \ {q} : request'[p] = request[p]
      /\ request'[q].pc = "running" /\ request'[q].said = request[q].said
      /\ request'[q].caller = request[q].caller
  BY <1>0, <1>1 DEF TypeOK
<1>3. HoldersAlone'
  <2>1. \A p \in Requests : /\ Key(p)' = Key(p)
                            /\ Holds(p)' => p = q \/ Holds(p)
    BY <1>2 DEF Key, Holds
  <2>2. /\ \A p \in Requests : Holds(p) => receipt[Key(p)] = NoReceipt
        /\ \A p, r \in Requests : Holds(p) /\ Holds(r) /\ Key(r) = Key(p) => r = p
    BY DEF ReceiptsInv, HoldersAlone
  <2>3. \A p \in Requests : Holds(p) /\ Key(p) = Key(q) => p = q
    BY <1>1 DEF KeyFree
  <2> SUFFICES ASSUME NEW p \in Requests, Holds(p)'
               PROVE  /\ receipt'[Key(p)'] = NoReceipt
                      /\ \A r \in Requests : Holds(r)' /\ Key(r)' = Key(p)' => r = p
    BY DEF HoldersAlone
  <2>4. receipt'[Key(p)'] = NoReceipt
    BY <1>1, <2>1, <2>2
  <2>5. \A r \in Requests : Holds(r)' /\ Key(r)' = Key(p)' => r = p
    BY <2>1, <2>2, <2>3
  <2> QED
    BY <2>4, <2>5
<1>4. PerformersAreDone'
  <2> SUFFICES ASSUME NEW j \in Keys, NEW p \in performed'[j]
               PROVE  request'[p].pc = "done" /\ request'[p].said # "refused"
    BY DEF PerformersAreDone
  <2>1. p \in performed[j] /\ p \in Requests
    BY <1>1 DEF TypeOK
  <2>2. request[p].pc = "done" /\ request[p].said # "refused"
    BY <2>1 DEF ReceiptsInv, PerformersAreDone
  <2> QED
    BY <1>1, <1>2, <2>1, <2>2
<1>5. SaidWhenDone'
  <2>1. request[q].said = ""
    BY <1>1 DEF ReceiptsInv, SaidWhenDone
  <2> QED
    BY <1>2, <2>1 DEF ReceiptsInv, SaidWhenDone
<1>6. EffectIffReceipt' /\ AnswersRecorded'
  BY <1>1 DEF ReceiptsInv, EffectIffReceipt, AnswersRecorded
<1> QED
  BY <1>3, <1>4, <1>5, <1>6 DEF ReceiptsInv

\* What the two commits have in common.
LEMMA PersistShape ==
    ASSUME TypeOK, NEW q \in Requests, Persists(q)
    PROVE  /\ request[q].pc = "commit"
           /\ \E kind \in {"ok", "unavailable"} :
                 request' = [request EXCEPT ![q].pc = "done", ![q].said = kind]
           /\ receipt' = [receipt EXCEPT ![Key(q)] = [input |-> Input(q), output |-> q]]
           /\ performed' = [performed EXCEPT ![Key(q)] = performed[Key(q)] \cup {q}]
           /\ \/ told' = told
              \/ told' = told \cup {[caller |-> request[q].caller, kind |-> "ok", output |-> q]}
<1>1. CASE Commit(q)
  BY <1>1 DEF Commit, Persist, Answer
<1>2. CASE CommitUnheard(q)
  BY <1>2 DEF CommitUnheard, Persist, Answer
<1> QED
  BY <1>1, <1>2 DEF Persists

LEMMA PersistPreserves ==
    ASSUME TypeOK, TypeOK', ReceiptsInv, NEW q \in Requests, Persists(q)
    PROVE  ReceiptsInv'
<1> DEFINE k == Key(q)
<1> DEFINE row == [input |-> Input(q), output |-> q]
<1>1. /\ request[q].pc = "commit" /\ Holds(q)
      /\ request[q].caller \in Callers /\ k \in Keys
      /\ receipt[k] = NoReceipt /\ performed[k] = {}
  <2>1. request[q].pc = "commit"
    BY PersistShape
  <2>2. request[q].caller \in Callers
    BY <2>1 DEF TypeOK
  <2>3. k \in Keys
    BY <2>2 DEF Key
  <2> QED
    BY <2>1, <2>2, <2>3 DEF Holds, ReceiptsInv, HoldersAlone, EffectIffReceipt
<1>2. PICK kind \in {"ok", "unavailable"} :
         request' = [request EXCEPT ![q].pc = "done", ![q].said = kind]
  BY PersistShape
<1>3. /\ \A p \in Requests \ {q} : request'[p] = request[p]
      /\ request'[q].pc = "done" /\ request'[q].said = kind
      /\ request'[q].caller = request[q].caller
  <2>1. request[q] \in [pc : Steps \cup {"unused", "done"},
                        caller : Callers \cup {NoCaller}, said : Kinds \cup {""}]
    BY DEF TypeOK
  <2> QED
    BY <1>2, <2>1 DEF TypeOK
<1>4. row # NoReceipt
  <2>1. Input(q) \in Inputs /\ q \in Nat
    BY <1>1, KeyAssumption DEF Input, Requests
  <2>2. row \in [input : Inputs, output : Nat]
    BY <2>1
  <2> QED
    BY <2>2, AbsentAssumption
<1>5. /\ receipt' = [receipt EXCEPT ![k] = row]
      /\ performed' = [performed EXCEPT ![k] = {q}]
  <2>1. performed' = [performed EXCEPT ![k] = performed[k] \cup {q}]
    BY PersistShape
  <2>2. performed[k] \cup {q} = {q}
    BY <1>1
  <2> QED
    BY <2>1, <2>2, PersistShape
<1>6. /\ receipt'[k] = row /\ performed'[k] = {q}
      /\ \A j \in Keys \ {k} : receipt'[j] = receipt[j] /\ performed'[j] = performed[j]
  BY <1>1, <1>5 DEF TypeOK
<1> HIDE DEF k, row
<1>7. HoldersAlone'
  <2> SUFFICES ASSUME NEW p \in Requests, Holds(p)'
               PROVE  /\ receipt'[Key(p)'] = NoReceipt
                      /\ \A r \in Requests : Holds(r)' /\ Key(r)' = Key(p)' => r = p
    BY DEF HoldersAlone
  <2>1. p # q /\ Holds(p) /\ Key(p)' = Key(p)
    BY <1>3 DEF Holds, Key
  <2>2. Key(p) # Key(q)
    BY <1>1, <2>1 DEF ReceiptsInv, HoldersAlone
  <2>3. Key(p) \in Keys
    BY <2>1 DEF Holds, TypeOK, Key
  <2>4. \A r \in Requests : Holds(r)' => Holds(r) /\ Key(r)' = Key(r)
    BY <1>3 DEF Holds, Key
  <2>5. receipt[Key(p)] = NoReceipt /\ \A r \in Requests : Holds(r) /\ Key(r) = Key(p) => r = p
    BY <2>1 DEF ReceiptsInv, HoldersAlone
  <2> QED
    BY <1>6, <2>1, <2>2, <2>3, <2>4, <2>5 DEF k
<1>8. PerformersAreDone'
  <2> SUFFICES ASSUME NEW j \in Keys, NEW p \in performed'[j]
               PROVE  request'[p].pc = "done" /\ request'[p].said # "refused"
    BY DEF PerformersAreDone
  <2>1. CASE j = k
    <3>1. p = q
      BY <1>1, <1>6, <2>1
    <3> QED
      BY <1>3, <3>1
  <2>2. CASE j # k
    <3>1. p \in performed[j] /\ p \in Requests
      BY <1>6, <2>2 DEF TypeOK
    <3>2. request[p].pc = "done" /\ request[p].said # "refused"
      BY <3>1 DEF ReceiptsInv, PerformersAreDone
    <3> QED
      BY <1>1, <1>3, <3>1, <3>2
  <2> QED
    BY <2>1, <2>2
<1>9. SaidWhenDone'
  BY <1>3 DEF ReceiptsInv, SaidWhenDone
<1>10. EffectIffReceipt'
  <2>1. receipt'[k] # NoReceipt /\ performed'[k] = {receipt'[k].output}
    BY <1>4, <1>6 DEF row
  <2>2. \A j \in Keys \ {k} : performed'[j] = IF receipt'[j] = NoReceipt THEN {} ELSE {receipt'[j].output}
    BY <1>6 DEF ReceiptsInv, EffectIffReceipt
  <2> QED
    BY <2>1, <2>2 DEF EffectIffReceipt
<1>11. AnswersRecorded'
  <2> SUFFICES ASSUME NEW a \in told'
               PROVE  /\ receipt'[KeyOf[a.caller]] # NoReceipt
                      /\ a.kind = "ok" => /\ receipt'[KeyOf[a.caller]].input = InputOf[a.caller]
                                          /\ receipt'[KeyOf[a.caller]].output = a.output
                      /\ a.kind = "conflict" => receipt'[KeyOf[a.caller]].input # InputOf[a.caller]
    BY DEF AnswersRecorded
  <2>1. CASE a \in told
    <3>1. KeyOf[a.caller] \in Keys
      BY <2>1 DEF TypeOK, Answers
    <3>2. KeyOf[a.caller] # k
      BY <1>1, <2>1 DEF ReceiptsInv, AnswersRecorded
    <3> QED
      BY <1>6, <2>1, <3>1, <3>2 DEF ReceiptsInv, AnswersRecorded
  <2>2. CASE a \notin told
    <3>1. \/ told' = told
          \/ told' = told \cup {[caller |-> request[q].caller, kind |-> "ok", output |-> q]}
      BY PersistShape, Zenon
    <3>2. a = [caller |-> request[q].caller, kind |-> "ok", output |-> q]
      BY <2>2, <3>1
    <3> QED
      BY <1>4, <1>6, <3>2 DEF k, row, Key, Input
  <2> QED
    BY <2>1, <2>2
<1> QED
  BY <1>7, <1>8, <1>9, <1>10, <1>11 DEF ReceiptsInv

LEMMA ReceiptsStep == TypeOK /\ TypeOK' /\ ReceiptsInv /\ [Next]_vars => ReceiptsInv'
<1> SUFFICES ASSUME TypeOK, TypeOK', ReceiptsInv, [Next]_vars PROVE ReceiptsInv'
  OBVIOUS
<1>1. Quiet \/ \E q \in Requests : Reserves(q) \/ Persists(q)
  BY StepShape DEF ReceiptsInv
<1> QED
  BY <1>1, QuietPreserves, ReservePreserves, PersistPreserves

LEMMA ReceiptsHold == Spec => []ReceiptsInv
<1>1. Init => ReceiptsInv
  <2> SUFFICES ASSUME Init PROVE ReceiptsInv
    OBVIOUS
  <2>1. \A q \in Requests : request[q].pc = "unused" /\ request[q].said = ""
    BY DEF Init
  <2>2. HoldersAlone /\ SaidWhenDone
    BY <2>1 DEF HoldersAlone, SaidWhenDone, Holds
  <2>3. \A k \in Keys : receipt[k] = NoReceipt /\ performed[k] = {}
    BY DEF Init
  <2>4. PerformersAreDone /\ EffectIffReceipt
    BY <2>3 DEF PerformersAreDone, EffectIffReceipt
  <2>5. AnswersRecorded
    BY DEF Init, AnswersRecorded
  <2> QED
    BY <2>2, <2>4, <2>5 DEF ReceiptsInv
<1> QED
  BY <1>1, ReceiptsStep, TypeCorrect, PTL DEF Spec

----------------------------------------------------------------------------
(* Theorems *)

\* A command takes effect at most once per key, and exactly when its receipt stands
\* (receipts.go:107-141).
THEOREM EffectOnce == Spec => []EffectIffReceipt
<1>1. ReceiptsInv => EffectIffReceipt
  BY DEF ReceiptsInv
<1> QED
  BY <1>1, ReceiptsHold, PTL

\* Every success and every conflict a caller heard agrees with the committed receipt
\* (receipts.go:117-123, 143-153).
THEOREM AnswersAgree == Spec => []AnswersRecorded
<1>1. ReceiptsInv => AnswersRecorded
  BY DEF ReceiptsInv
<1> QED
  BY <1>1, ReceiptsHold, PTL

\* A request that was refused left nothing behind and never will (receipts.go:134).
THEOREM RefusalIsFinal == Spec => []RefusedLeavesNothing
<1>1. TypeOK /\ ReceiptsInv => RefusedLeavesNothing
  BY DEF ReceiptsInv, PerformersAreDone, RefusedLeavesNothing, TypeOK
<1> QED
  BY <1>1, ReceiptsHold, TypeCorrect, PTL

\* The receipts implement a call that takes effect once and is answered from what was
\* recorded (CommandOnce): each step is one of its steps or leaves its state alone.
THEOREM ReceiptsImplementOnce == Spec => ImplementsCommandOnce
<1>1. Init => Once!Init
  BY DEF Init, Once!Init
<1>2. TypeOK /\ ReceiptsInv /\ [Next]_vars => [Once!Next]_(Once!vars)
  <2> SUFFICES ASSUME TypeOK, ReceiptsInv, [Next]_vars PROVE [Once!Next]_(Once!vars)
    OBVIOUS
  <2>1. CASE Quiet
    <3>1. CASE told' = told
      BY <2>1, <3>1 DEF Quiet, Once!vars
    <3>2. ASSUME NEW c \in Callers, receipt[KeyOf[c]] # NoReceipt,
                 told' = told \cup {Once!Verdict(c, receipt[KeyOf[c]])}
          PROVE  Once!Next
      BY <2>1, <3>2 DEF Quiet, Once!Next, Once!Tell
    <3> QED
      BY <2>1, <3>1, <3>2 DEF Quiet
  <2>2. ASSUME NEW q \in Requests, Reserves(q) PROVE UNCHANGED Once!vars
    BY <2>2 DEF Reserves, Reserve, Goto, Once!vars
  <2>3. ASSUME NEW q \in Requests, Persists(q) PROVE Once!Next
    <3> DEFINE c == request[q].caller
    <3>1. c \in Callers /\ receipt[KeyOf[c]] = NoReceipt
      <4>1. request[q].pc = "commit"
        BY <2>3, PersistShape
      <4> QED
        BY <4>1 DEF TypeOK, ReceiptsInv, HoldersAlone, Holds, Key
    <3>2. Once!Perform(c, q)
      BY <2>3, <3>1, PersistShape DEF Once!Perform, Key, Input
    <3>3. \/ told' = told
          \/ told' = told \cup {[caller |-> c, kind |-> "ok", output |-> q]}
      BY <2>3, PersistShape
    <3>4. Once!PerformSilently(c, q) \/ Once!PerformAndTell(c, q)
      BY <3>2, <3>3 DEF Once!PerformSilently, Once!PerformAndTell
    <3> QED
      BY <3>1, <3>4 DEF Once!Next
  <2>4. Quiet \/ \E q \in Requests : Reserves(q) \/ Persists(q)
    BY StepShape DEF ReceiptsInv
  <2> QED
    BY <2>1, <2>2, <2>3, <2>4
<1> QED
  BY <1>1, <1>2, ReceiptsHold, TypeCorrect, PTL DEF Spec, ImplementsCommandOnce, Once!Spec
=============================================================================
