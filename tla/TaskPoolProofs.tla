--------------------------- MODULE TaskPoolProofs ---------------------------
(***************************************************************************)
(* A successful pool has every result, and every worker finds a sentinel,  *)
(* for any number of inputs, workers and killed workers.                   *)
(***************************************************************************)
EXTENDS TaskPool, FiniteSetTheorems, TLAPS

(* A worker that ended well met a sentinel, so every input had left the    *)
(* queue by then and no more can come.                                     *)
SentinelInv ==
  /\ pc = "feed" => closed = 0
  /\ \A k \in Workers :
       /\ wk[k] \in {"onexit", "ok"} => taken > fed /\ pc # "feed"
       /\ wk[k] = "ok" => errors[k] = {}
       /\ wk[k] = "run" => cur[k] \in Inputs

(* While nothing went wrong in the parent, all inputs were put. *)
FedInv == pc # "feed" /\ outcome = "none" => fed = NInputs

IInv == TypeOK /\ Accounted /\ SentinelInv /\ FedInv /\ CollectFindsAll

LEMMA WorkersCardinality == Cardinality(Workers) \in Nat
  BY TaskPoolAssumption, FS_CardinalityType

LEMMA InitIInv == Init => IInv
  BY TaskPoolAssumption, WorkersCardinality
  DEF Init, IInv, TypeOK, Accounted, SentinelInv, FedInv, CollectFindsAll, Inputs,
      WorkerStates, ParentStates

LEMMA NextIInv == IInv /\ [Next]_vars => IInv'
<1> SUFFICES ASSUME IInv, [Next]_vars PROVE IInv'
  OBVIOUS
<1> USE TaskPoolAssumption, WorkersCardinality DEF IInv, pool
<1>1. CASE UNCHANGED vars
  BY <1>1 DEF vars, TypeOK, Accounted, Spoilt, SentinelInv, FedInv, CollectFindsAll
<1>2. CASE Put
  <2> USE <1>2 DEF Put
  <2>1. TypeOK'
    BY DEF TypeOK, SentinelInv, Inputs, WorkerStates, Ended, ParentStates
  <2>2. Accounted'
    BY DEF TypeOK, Accounted, Spoilt, SentinelInv, Inputs, Ended
  <2>3. SentinelInv' /\ FedInv'
    BY DEF TypeOK, SentinelInv, FedInv, Inputs, Ended
  <2>4. CollectFindsAll'
    BY DEF TypeOK, Accounted, Spoilt, SentinelInv, FedInv, CollectFindsAll, Inputs
  <2> QED
    BY <2>1, <2>2, <2>3, <2>4
<1>3. CASE LeaveBlock
  <2> USE <1>3 DEF LeaveBlock
  <2>1. TypeOK'
    BY DEF TypeOK, SentinelInv, Inputs, WorkerStates, Ended, ParentStates
  <2>2. Accounted'
    BY DEF TypeOK, Accounted, Spoilt, SentinelInv, Inputs, Ended
  <2>3. SentinelInv' /\ FedInv'
    BY DEF TypeOK, SentinelInv, FedInv, Inputs, Ended
  <2>4. CollectFindsAll'
    BY DEF TypeOK, Accounted, Spoilt, SentinelInv, FedInv, CollectFindsAll, Inputs
  <2> QED
    BY <2>1, <2>2, <2>3, <2>4
<1>4. CASE PutSentinel
  <2> USE <1>4 DEF PutSentinel
  <2>1. TypeOK'
    BY DEF TypeOK, SentinelInv, Inputs, WorkerStates, Ended, ParentStates
  <2>2. Accounted'
    BY DEF TypeOK, Accounted, Spoilt, SentinelInv, Inputs, Ended
  <2>3. SentinelInv' /\ FedInv'
    BY DEF TypeOK, SentinelInv, FedInv, Inputs, Ended
  <2>4. CollectFindsAll'
    BY DEF TypeOK, Accounted, Spoilt, SentinelInv, FedInv, CollectFindsAll, Inputs
  <2> QED
    BY <2>1, <2>2, <2>3, <2>4
<1>5. CASE WaitForWorkers
  <2> USE <1>5 DEF WaitForWorkers
  <2>1. TypeOK'
    BY DEF TypeOK, SentinelInv, Inputs, WorkerStates, Ended, ParentStates
  <2>2. Accounted'
    BY DEF TypeOK, Accounted, Spoilt, SentinelInv, Inputs, Ended
  <2>3. SentinelInv' /\ FedInv'
    BY DEF TypeOK, SentinelInv, FedInv, Inputs, Ended
  <2>4. CollectFindsAll'
    BY DEF TypeOK, Accounted, Spoilt, SentinelInv, FedInv, CollectFindsAll, Inputs
  <2> QED
    BY <2>1, <2>2, <2>3, <2>4
<1>6. CASE Joined
  <2> USE <1>6 DEF Joined
  <2>1. TypeOK'
    BY DEF TypeOK, SentinelInv, Inputs, WorkerStates, Ended, ParentStates
  <2>2. Accounted'
    BY DEF TypeOK, Accounted, Spoilt, SentinelInv, Inputs, Ended
  <2>3. SentinelInv' /\ FedInv'
    BY DEF TypeOK, SentinelInv, FedInv, Inputs, Ended
  <2>4. CollectFindsAll'
    <3>1. CASE outcome = "none" /\ \A k \in Workers : wk[k] = "ok"
      <4>1. fed = NInputs
        BY <3>1 DEF FedInv
      <4>2. taken > fed
        BY <3>1 DEF SentinelInv
      <4>3. \A k \in Workers : ~Spoilt(k) /\ wk[k] # "run"
        BY <3>1 DEF Spoilt, SentinelInv
      <4>4. \A i \in Inputs : i \in out
        BY <4>1, <4>2, <4>3 DEF Accounted, Inputs, TypeOK
      <4> QED
        BY <4>4 DEF CollectFindsAll, TypeOK
    <3>2. CASE ~(outcome = "none" /\ \A k \in Workers : wk[k] = "ok")
      BY <3>2 DEF CollectFindsAll
    <3> QED
      BY <3>1, <3>2
  <2> QED
    BY <2>1, <2>2, <2>3, <2>4
<1>7. CASE Collect
  <2> USE <1>7 DEF Collect
  <2>1. TypeOK'
    BY DEF TypeOK, SentinelInv, Inputs, WorkerStates, Ended, ParentStates
  <2>2. Accounted'
    BY DEF TypeOK, Accounted, Spoilt, SentinelInv, Inputs, Ended
  <2>3. SentinelInv' /\ FedInv'
    BY DEF TypeOK, SentinelInv, FedInv, Inputs, Ended
  <2>4. CollectFindsAll'
    BY DEF TypeOK, Accounted, Spoilt, SentinelInv, FedInv, CollectFindsAll, Inputs
  <2> QED
    BY <2>1, <2>2, <2>3, <2>4
<1>8. ASSUME NEW k \in Workers, TakeInput(k) PROVE IInv'
  <2> USE <1>8 DEF TakeInput, SetWorker, Available, NextIsInput
  <2>1. TypeOK'
    BY DEF TypeOK, SentinelInv, Inputs, WorkerStates, Ended, ParentStates
  <2>2. Accounted'
    BY DEF TypeOK, Accounted, Spoilt, SentinelInv, Inputs, Ended
  <2>3. SentinelInv' /\ FedInv'
    BY DEF TypeOK, SentinelInv, FedInv, Inputs, Ended
  <2>4. CollectFindsAll'
    BY DEF TypeOK, Accounted, Spoilt, SentinelInv, FedInv, CollectFindsAll, Inputs
  <2> QED
    BY <2>1, <2>2, <2>3, <2>4
<1>9. ASSUME NEW k \in Workers, SkipInput(k) PROVE IInv'
  <2> USE <1>9 DEF SkipInput, SetWorker, Available, NextIsInput
  <2>1. TypeOK'
    BY DEF TypeOK, SentinelInv, Inputs, WorkerStates, Ended, ParentStates
  <2>2. Accounted'
    BY DEF TypeOK, Accounted, Spoilt, SentinelInv, Inputs, Ended
  <2>3. SentinelInv' /\ FedInv'
    BY DEF TypeOK, SentinelInv, FedInv, Inputs, Ended
  <2>4. CollectFindsAll'
    BY DEF TypeOK, Accounted, Spoilt, SentinelInv, FedInv, CollectFindsAll, Inputs
  <2> QED
    BY <2>1, <2>2, <2>3, <2>4
<1>10. ASSUME NEW k \in Workers, TakeSentinel(k) PROVE IInv'
  <2> USE <1>10 DEF TakeSentinel, SetWorker, Available, NextIsInput
  <2>1. TypeOK'
    BY DEF TypeOK, SentinelInv, Inputs, WorkerStates, Ended, ParentStates
  <2>2. Accounted'
    BY DEF TypeOK, Accounted, Spoilt, SentinelInv, Inputs, Ended
  <2>3. SentinelInv' /\ FedInv'
    BY DEF TypeOK, SentinelInv, FedInv, Inputs, Ended
  <2>4. CollectFindsAll'
    BY DEF TypeOK, Accounted, Spoilt, SentinelInv, FedInv, CollectFindsAll, Inputs
  <2> QED
    BY <2>1, <2>2, <2>3, <2>4
<1>11. ASSUME NEW k \in Workers, TaskReturns(k) PROVE IInv'
  <2> USE <1>11 DEF TaskReturns, SetWorker
  <2>1. TypeOK'
    BY DEF TypeOK, SentinelInv, Inputs, WorkerStates, Ended, ParentStates
  <2>2. Accounted'
    BY DEF TypeOK, Accounted, Spoilt, SentinelInv, Inputs, Ended
  <2>3. SentinelInv' /\ FedInv'
    BY DEF TypeOK, SentinelInv, FedInv, Inputs, Ended
  <2>4. CollectFindsAll'
    BY DEF TypeOK, Accounted, Spoilt, SentinelInv, FedInv, CollectFindsAll, Inputs
  <2> QED
    BY <2>1, <2>2, <2>3, <2>4
<1>12. ASSUME NEW k \in Workers, TaskRaises(k) PROVE IInv'
  <2> USE <1>12 DEF TaskRaises, SetWorker
  <2>1. TypeOK'
    BY DEF TypeOK, SentinelInv, Inputs, WorkerStates, Ended, ParentStates
  <2>2. Accounted'
    BY DEF TypeOK, Accounted, Spoilt, SentinelInv, Inputs, Ended
  <2>3. SentinelInv' /\ FedInv'
    BY DEF TypeOK, SentinelInv, FedInv, Inputs, Ended
  <2>4. CollectFindsAll'
    BY DEF TypeOK, Accounted, Spoilt, SentinelInv, FedInv, CollectFindsAll, Inputs
  <2> QED
    BY <2>1, <2>2, <2>3, <2>4
<1>13. ASSUME NEW k \in Workers, EndWorker(k) PROVE IInv'
  <2> USE <1>13 DEF EndWorker, SetWorker
  <2>1. TypeOK'
    BY DEF TypeOK, SentinelInv, Inputs, WorkerStates, Ended, ParentStates
  <2>2. Accounted'
    BY DEF TypeOK, Accounted, Spoilt, SentinelInv, Inputs, Ended
  <2>3. SentinelInv' /\ FedInv'
    BY DEF TypeOK, SentinelInv, FedInv, Inputs, Ended
  <2>4. CollectFindsAll'
    BY DEF TypeOK, Accounted, Spoilt, SentinelInv, FedInv, CollectFindsAll, Inputs
  <2> QED
    BY <2>1, <2>2, <2>3, <2>4
<1>14. ASSUME NEW k \in Workers, OnExitRaises(k) PROVE IInv'
  <2> USE <1>14 DEF OnExitRaises, SetWorker
  <2>1. TypeOK'
    BY DEF TypeOK, SentinelInv, Inputs, WorkerStates, Ended, ParentStates
  <2>2. Accounted'
    BY DEF TypeOK, Accounted, Spoilt, SentinelInv, Inputs, Ended
  <2>3. SentinelInv' /\ FedInv'
    BY DEF TypeOK, SentinelInv, FedInv, Inputs, Ended
  <2>4. CollectFindsAll'
    BY DEF TypeOK, Accounted, Spoilt, SentinelInv, FedInv, CollectFindsAll, Inputs
  <2> QED
    BY <2>1, <2>2, <2>3, <2>4
<1>15. ASSUME NEW k \in Workers, KillWorker(k) PROVE IInv'
  <2> USE <1>15 DEF KillWorker, SetWorker
  <2>1. TypeOK'
    BY DEF TypeOK, SentinelInv, Inputs, WorkerStates, Ended, ParentStates
  <2>2. Accounted'
    BY DEF TypeOK, Accounted, Spoilt, SentinelInv, Inputs, Ended
  <2>3. SentinelInv' /\ FedInv'
    BY DEF TypeOK, SentinelInv, FedInv, Inputs, Ended
  <2>4. CollectFindsAll'
    BY DEF TypeOK, Accounted, Spoilt, SentinelInv, FedInv, CollectFindsAll, Inputs
  <2> QED
    BY <2>1, <2>2, <2>3, <2>4
<1>16. ASSUME NEW k \in Workers, Rob(k) PROVE IInv'
  <2> USE <1>16 DEF Rob, SetWorker, Available, NextIsInput
  <2>1. TypeOK'
    BY DEF TypeOK, SentinelInv, Inputs, WorkerStates, Ended, ParentStates
  <2>2. Accounted'
    BY DEF TypeOK, Accounted, Spoilt, SentinelInv, Inputs, Ended
  <2>3. SentinelInv' /\ FedInv'
    BY DEF TypeOK, SentinelInv, FedInv, Inputs, Ended
  <2>4. CollectFindsAll'
    BY DEF TypeOK, Accounted, Spoilt, SentinelInv, FedInv, CollectFindsAll, Inputs
  <2> QED
    BY <2>1, <2>2, <2>3, <2>4
<1> QED
  BY <1>1, <1>2, <1>3, <1>4, <1>5, <1>6, <1>7, <1>8, <1>9, <1>10, <1>11, <1>12, <1>13, <1>14, <1>15, <1>16 DEF Next, ParentStep, WorkerStep, Over

(* The inductive invariant holds in every reachable state. *)
LEMMA SpecIInv == Spec => []IInv
  BY InitIInv, NextIInv, PTL DEF Spec

(* The variables of the pool keep their types; no more items are taken     *)
(* than were put, and no more sentinels are put than there are workers.    *)
THEOREM TypeCorrect == Spec => []TypeOK
  BY SpecIInv, PTL DEF IInv

(* An input that left the queue is being run, has its result, or went to a *)
(* worker that does not end well.                                          *)
THEOREM InputsAccounted == Spec => []Accounted
  BY SpecIInv, PTL DEF IInv

(* A pool that returns, or is about to collect its results, has the result *)
(* of every input; the parent never waits for one that does not come.      *)
THEOREM SuccessIsComplete == Spec => []CollectFindsAll
  BY SpecIInv, PTL DEF IInv
-----------------------------------------------------------------------------
(* Every sentinel that left the queue made a worker need one no more.      *)
SentinelsTaken == IF taken <= fed THEN 0 ELSE taken - fed

Balance ==
  /\ SentinelsTaken + Cardinality(Needy) <= Cardinality(Workers)
  /\ pc = "wait" => closed = Cardinality(Workers)

LEMMA NeedyFinite ==
  /\ IsFiniteSet(Needy) /\ Cardinality(Needy) \in Nat
  /\ Cardinality(Needy) <= Cardinality(Workers)
  BY TaskPoolAssumption, FS_Subset, FS_CardinalityType DEF Needy

LEMMA InitBalance == Init => Balance
  BY NeedyFinite, WorkersCardinality DEF Init, Balance, SentinelsTaken

(* Who needs a sentinel after the step of a worker. *)
LEMMA WorkerLeaves ==
  ASSUME NEW k \in Needy, Needy' = Needy \ {k}
  PROVE  Cardinality(Needy') = Cardinality(Needy) - 1
  BY NeedyFinite, FS_RemoveElement

LEMMA NeedyOnlyFalls ==
  ASSUME Needy' \subseteq Needy
  PROVE  Cardinality(Needy') \in Nat /\ Cardinality(Needy') <= Cardinality(Needy)
  BY NeedyFinite, FS_Subset, FS_CardinalityType

LEMMA NextBalance == IInv /\ Balance /\ [Next]_vars => Balance'
<1> SUFFICES ASSUME IInv, Balance, [Next]_vars PROVE Balance'
  OBVIOUS
<1> USE NeedyFinite, WorkersCardinality DEF Balance, SentinelsTaken, pool
<1>0. /\ fed \in Nat /\ taken \in Nat /\ closed \in Nat
      /\ wk \in [Workers -> WorkerStates] /\ closed <= Cardinality(Workers)
  BY TaskPoolAssumption DEF IInv, TypeOK
<1>1. CASE UNCHANGED <<taken, wk, fed, closed, pc>>
  BY <1>1 DEF Needy
<1>2. CASE Put
  <2>1. Needy' = Needy /\ fed' = fed + 1 /\ taken' = taken /\ pc' = "feed"
    BY <1>2 DEF Put, Needy
  <2> QED BY <1>0, <2>1
<1>3. CASE LeaveBlock \/ PutSentinel \/ WaitForWorkers \/ Joined \/ Collect
  <2>1. /\ UNCHANGED <<Needy, fed, taken>>
        /\ pc' = "wait" => closed' = Cardinality(Workers)
    BY <1>3 DEF LeaveBlock, PutSentinel, WaitForWorkers, Joined, Collect, Needy
  <2> QED BY <1>0, <2>1
<1>4. ASSUME NEW k \in Workers, TakeInput(k) \/ SkipInput(k) PROVE Balance'
  <2>1. UNCHANGED <<fed, closed, pc>> /\ taken < fed /\ taken' = taken + 1
    BY <1>4 DEF TakeInput, SkipInput, NextIsInput
  <2>2. Needy' \subseteq Needy
    BY <1>0, <1>4 DEF TakeInput, SkipInput, SetWorker, Needy
  <2> QED BY <1>0, <2>1, <2>2, NeedyOnlyFalls
<1>5. ASSUME NEW k \in Workers, TakeSentinel(k) \/ Rob(k) PROVE Balance'
  <2>1. UNCHANGED <<fed, closed, pc>> /\ taken' = taken + 1
    BY <1>5 DEF TakeSentinel, Rob
  <2>2. /\ wk[k] \in {"get", "robber"}
        /\ \E s \in {"onexit", "killed"} : wk' = [wk EXCEPT ![k] = s]
    BY <1>5 DEF TakeSentinel, Rob, SetWorker
  <2>3. k \in Needy /\ Needy' = Needy \ {k}
    BY <1>0, <2>2 DEF Needy
  <2>4. Cardinality(Needy') = Cardinality(Needy) - 1
    BY <2>3, WorkerLeaves
  <2> QED BY <1>0, <2>1, <2>4
<1>6. ASSUME NEW k \in Workers,
             \/ TaskReturns(k) \/ TaskRaises(k) \/ EndWorker(k) \/ OnExitRaises(k)
             \/ KillWorker(k)
      PROVE  Balance'
  <2>1. UNCHANGED <<fed, closed, pc, taken>>
    BY <1>6 DEF TaskReturns, TaskRaises, EndWorker, OnExitRaises, KillWorker
  <2>2. \/ wk[k] \in {"run", "get"} /\ \E s \in WorkerStates : wk' = [wk EXCEPT ![k] = s]
        \/ \E s \in {"ok", "failed", "killed"} : wk' = [wk EXCEPT ![k] = s]
    BY <1>6 DEF TaskReturns, TaskRaises, EndWorker, OnExitRaises, KillWorker, SetWorker,
       WorkerStates, Ended
  <2>3. Needy' \subseteq Needy
    BY <1>0, <2>2 DEF Needy
  <2> QED BY <1>0, <2>1, <2>3, NeedyOnlyFalls
<1>7. CASE UNCHANGED vars
  BY <1>1, <1>7 DEF vars
<1> QED
  BY <1>2, <1>3, <1>4, <1>5, <1>6, <1>7 DEF Next, ParentStep, WorkerStep, Over

(* While the parent waits, every worker that will call get again finds a   *)
(* sentinel of its own, whoever was killed where.                          *)
THEOREM EveryWorkerStops == Spec => []SentinelForEach
<1>1. IInv /\ Balance => SentinelForEach
  BY NeedyFinite, WorkersCardinality, TaskPoolAssumption
  DEF IInv, TypeOK, Balance, SentinelsTaken, SentinelForEach
<1> QED BY <1>1, SpecIInv, InitBalance, NextBalance, PTL DEF Spec
-----------------------------------------------------------------------------
(* The pool as a ParallelTasks context.  A worker is only judged while the *)
(* parent has not gone on, and a pool that collects met no exception.      *)
JoinInv ==
  /\ pc \in {"collect", "over"} => \A k \in Workers : wk[k] \in Ended
  /\ pc # "over" => outcome \in {"none", "foreground"}
  /\ pc = "collect" => outcome = "none"

LEMMA InitJoinInv == Init => JoinInv
  BY DEF Init, JoinInv

LEMMA NextJoinInv == TypeOK /\ JoinInv /\ [Next]_vars => JoinInv'
<1> SUFFICES ASSUME TypeOK, JoinInv, [Next]_vars PROVE JoinInv'
  OBVIOUS
<1> USE DEF JoinInv, pool, TypeOK
<1>1. CASE UNCHANGED vars
  BY <1>1 DEF vars
<1>2. CASE Put \/ LeaveBlock \/ PutSentinel \/ WaitForWorkers
  BY <1>2 DEF Put, LeaveBlock, PutSentinel, WaitForWorkers
<1>3. CASE Joined
  BY <1>3 DEF Joined
<1>4. CASE Collect
  BY <1>4 DEF Collect
<1>5. ASSUME NEW k \in Workers, WorkerStep(k) \/ KillWorker(k)
      PROVE  JoinInv'
  <2>1. UNCHANGED <<pc, outcome>>
    BY <1>5 DEF WorkerStep, TakeInput, SkipInput, TakeSentinel, TaskReturns, TaskRaises,
       EndWorker, OnExitRaises, KillWorker
  <2>2. wk[k] \notin Ended \/ pc \notin {"collect", "over"}
    BY <1>5 DEF WorkerStep, TakeInput, SkipInput, TakeSentinel, TaskReturns, TaskRaises,
       EndWorker, OnExitRaises, KillWorker, Ended
  <2> QED BY <2>1, <2>2
<1>6. ASSUME NEW k \in Workers, Rob(k)
      PROVE  JoinInv'
  BY <1>6 DEF Rob, SetWorker, Ended
<1> QED BY <1>1, <1>2, <1>3, <1>4, <1>5, <1>6 DEF Next, ParentStep, Over

(* What a context sees of its steps. *)
Verdict == [k \in Workers |-> Judged(wk[k])]

LEMMA VerdictStep ==
  ASSUME TypeOK, NEW k \in Workers, NEW s, SetWorker(k, s)
  PROVE  Verdict' = [Verdict EXCEPT ![k] = Judged(s)]
<1>1. /\ wk' = [wk EXCEPT ![k] = s]
      /\ wk \in [Workers -> WorkerStates]
  BY DEF TypeOK, SetWorker
<1>2. \A q \in Workers : Judged(wk'[q]) = IF q = k THEN Judged(s) ELSE Judged(wk[q])
  BY <1>1
<1> QED BY <1>2 DEF Verdict

(* The workers of a pool are steps of a ParallelTasks context, and the     *)
(* pool relies on no more than StepRunner promises: whatever it does is a  *)
(* step of StepRunner, or is not seen there.                               *)
THEOREM PoolIsStepRunner == Spec => ImplementsStepRunner
<1>1. Init => Promise!Init
  BY DEF Init, Promise!Init, Judged, JoinOutcome, Ended
<1>2. TypeOK /\ JoinInv /\ [Next]_vars => [Promise!Next]_<<Verdict, JoinOutcome>>
  <2> SUFFICES ASSUME TypeOK, JoinInv, [Next]_vars
               PROVE  Promise!Next \/ UNCHANGED <<Verdict, JoinOutcome>>
    BY DEF Verdict
  <2>1. CASE UNCHANGED vars
    BY <2>1 DEF vars, Verdict, JoinOutcome
  <2>2. CASE Put \/ LeaveBlock \/ PutSentinel \/ WaitForWorkers
    <3>1. /\ UNCHANGED wk
          /\ pc \notin {"collect", "over"} /\ pc' \notin {"collect", "over"}
      BY <2>2 DEF Put, LeaveBlock, PutSentinel, WaitForWorkers
    <3> QED BY <3>1 DEF Verdict, JoinOutcome
  <2>3. CASE Joined
    <3>1. UNCHANGED Verdict /\ \A k \in Workers : wk[k] \in Ended
      BY <2>3 DEF Joined, Verdict
    <3>2. \A k \in Workers : /\ Verdict[k] # "pending"
                             /\ Verdict[k] = "ok" <=> wk[k] = "ok"
                             /\ wk[k] # "ok" => Verdict[k] = "failed"
      BY <3>1 DEF Verdict, Judged, Ended
    <3>3. JoinOutcome = "none" /\ outcome \in {"none", "foreground"}
      BY <2>3 DEF Joined, JoinOutcome, JoinInv
    <3>4. CASE outcome = "none" /\ \A k \in Workers : wk[k] = "ok"
      <4>1. JoinOutcome' = "returned"
        BY <2>3, <3>4 DEF Joined, JoinOutcome
      <4> QED BY <3>1, <3>2, <3>3, <3>4, <4>1 DEF Promise!Next, Promise!Return, Verdict
    <3>5. CASE outcome = "none" /\ \E k \in Workers : wk[k] # "ok"
      <4>1. JoinOutcome' = "raised"
        BY <2>3, <3>5 DEF Joined, JoinOutcome
      <4> QED BY <3>1, <3>2, <3>3, <3>5, <4>1
                 DEF Promise!Next, Promise!Raise, Promise!AllEnded, Verdict
    <3>6. CASE outcome = "foreground"
      <4>1. JoinOutcome' = "foreground"
        BY <2>3, <3>6 DEF Joined, JoinOutcome
      <4> QED BY <3>1, <3>2, <3>3, <4>1
                 DEF Promise!Next, Promise!PassOn, Promise!AllEnded, Verdict
    <3> QED BY <3>3, <3>4, <3>5, <3>6
  <2>4. CASE Collect
    BY <2>4 DEF Collect, Verdict, JoinOutcome, JoinInv
  <2>5. ASSUME NEW k \in Workers, NEW s, SetWorker(k, s), UNCHANGED <<pc, outcome>>,
               Judged(s) = Judged(wk[k])
        PROVE  UNCHANGED <<Verdict, JoinOutcome>>
    <3>1. Verdict' = [Verdict EXCEPT ![k] = Verdict[k]]
      BY <2>5, VerdictStep DEF Verdict
    <3> QED BY <2>5, <3>1 DEF Verdict, JoinOutcome
  <2>6. ASSUME NEW k \in Workers,
               \/ TakeInput(k) \/ SkipInput(k) \/ TakeSentinel(k)
               \/ TaskReturns(k) \/ TaskRaises(k)
        PROVE  UNCHANGED <<Verdict, JoinOutcome>>
    <3>1. UNCHANGED <<pc, outcome>>
      BY <2>6 DEF TakeInput, SkipInput, TakeSentinel, TaskReturns, TaskRaises, pool
    <3>2. UNCHANGED wk \/ \E s \in {"get", "run", "onexit"} :
            SetWorker(k, s) /\ wk[k] \in {"get", "run"}
      BY <2>6 DEF TakeInput, SkipInput, TakeSentinel, TaskReturns, TaskRaises
    <3>3. \A s \in {"get", "run", "onexit"} : Judged(s) = "pending"
      BY DEF Judged, Ended
    <3>4. CASE UNCHANGED wk
      BY <3>1, <3>4 DEF Verdict, JoinOutcome
    <3> QED BY <2>5, <3>1, <3>2, <3>3, <3>4
  <2>7. ASSUME NEW k \in Workers, EndWorker(k) \/ OnExitRaises(k)
        PROVE  Promise!Next
    <3>1. UNCHANGED JoinOutcome /\ JoinOutcome = "none" /\ wk[k] = "onexit"
      BY <2>7 DEF EndWorker, OnExitRaises, pool, JoinOutcome, JoinInv, Ended
    <3>2. SetWorker(k, "ok") \/ SetWorker(k, "failed")
      BY <2>7 DEF EndWorker, OnExitRaises
    <3>3. Verdict[k] = "pending" /\ Judged("ok") = "ok" /\ Judged("failed") = "failed"
      BY <3>1 DEF Verdict, Judged, Ended
    <3>4. \/ Verdict' = [Verdict EXCEPT ![k] = "ok"]
          \/ Verdict' = [Verdict EXCEPT ![k] = "failed"]
      BY <3>2, <3>3, VerdictStep
    <3>5. Promise!Complete(k) \/ Promise!Fail(k)
      BY <3>1, <3>3, <3>4 DEF Promise!Complete, Promise!Fail, Verdict
    <3> QED BY <3>5 DEF Promise!Next
  <2>8. ASSUME NEW k \in Workers, KillWorker(k)
        PROVE  Promise!Next
    <3>1. UNCHANGED JoinOutcome /\ JoinOutcome = "none"
      BY <2>8 DEF KillWorker, pool, JoinOutcome
    <3>2. SetWorker(k, "robber") \/ SetWorker(k, "killed")
      BY <2>8 DEF KillWorker
    <3>3. /\ Verdict[k] # "failed"
          /\ Judged("robber") = "failed" /\ Judged("killed") = "failed"
      BY <2>8 DEF KillWorker, Verdict, Judged, Ended
    <3>4. Verdict' = [Verdict EXCEPT ![k] = "failed"]
      BY <3>2, <3>3, VerdictStep
    <3>5. Promise!Fail(k)
      BY <3>1, <3>3, <3>4 DEF Promise!Fail, Verdict
    <3> QED BY <3>5 DEF Promise!Next
  <2>9. ASSUME NEW k \in Workers, Rob(k)
        PROVE  UNCHANGED <<Verdict, JoinOutcome>>
    <3>1. /\ wk[k] = "robber" /\ SetWorker(k, "killed")
          /\ UNCHANGED <<pc, outcome>>
      BY <2>9 DEF Rob, pool
    <3>2. Judged("killed") = Judged("robber")
      BY DEF Judged, Ended
    <3> QED BY <2>5, <3>1, <3>2
  <2> QED BY <2>1, <2>2, <2>3, <2>4, <2>6, <2>7, <2>8, <2>9
             DEF Next, ParentStep, WorkerStep, Over
<1> QED
  BY <1>1, <1>2, SpecIInv, InitJoinInv, NextJoinInv, PTL
  DEF Spec, IInv, ImplementsStepRunner, Promise!Spec, Verdict
-----------------------------------------------------------------------------
(* Each worker counts once in AtLeast(n) for every n up to its rank.       *)
LEMMA LevelFinite ==
  ASSUME NEW n \in 1..4
  PROVE  IsFiniteSet(AtLeast(n)) /\ Cardinality(AtLeast(n)) \in Nat
  BY TaskPoolAssumption, FS_Subset, FS_CardinalityType DEF AtLeast

LEMMA LevelStep ==
  ASSUME TypeOK, NEW k \in Workers, NEW s \in WorkerStates, SetWorker(k, s),
         NEW n \in 1..4
  PROVE  Cardinality(AtLeast(n)') =
           Cardinality(AtLeast(n)) + (IF WorkerRank(s) >= n THEN 1 ELSE 0)
                                   - (IF WorkerRank(wk[k]) >= n THEN 1 ELSE 0)
<1>1. wk' = [wk EXCEPT ![k] = s] /\ wk \in [Workers -> WorkerStates]
  BY DEF TypeOK, SetWorker
<1>2. IsFiniteSet(AtLeast(n)) /\ Cardinality(AtLeast(n)) \in Nat
  BY LevelFinite
<1>3. k \in AtLeast(n) <=> WorkerRank(wk[k]) >= n
  BY DEF AtLeast
<1>4. AtLeast(n)' = IF WorkerRank(s) >= n THEN AtLeast(n) \cup {k} ELSE AtLeast(n) \ {k}
  BY <1>1 DEF AtLeast
<1>5. /\ Cardinality(AtLeast(n) \cup {k}) =
            IF k \in AtLeast(n) THEN Cardinality(AtLeast(n)) ELSE Cardinality(AtLeast(n)) + 1
      /\ Cardinality(AtLeast(n) \ {k}) =
            IF k \in AtLeast(n) THEN Cardinality(AtLeast(n)) - 1 ELSE Cardinality(AtLeast(n))
  BY <1>2, FS_AddElement, FS_RemoveElement
<1>6. Cardinality(AtLeast(n)') =
        IF WorkerRank(s) >= n THEN Cardinality(AtLeast(n) \cup {k})
                              ELSE Cardinality(AtLeast(n) \ {k})
  BY <1>4
<1> HIDE DEF AtLeast, WorkerRank
<1> QED BY <1>2, <1>3, <1>5, <1>6

LEMMA RankRange ==
  ASSUME NEW s
  PROVE  WorkerRank(s) \in 0..4
  BY DEF WorkerRank

LEMMA WorkersLeftStep ==
  ASSUME TypeOK, NEW k \in Workers, NEW s \in WorkerStates, SetWorker(k, s)
  PROVE  /\ WorkersLeft \in Nat /\ WorkersLeft' \in Nat
         /\ WorkersLeft' = WorkersLeft + WorkerRank(s) - WorkerRank(wk[k])
<1> DEFINE C(n) == Cardinality(AtLeast(n))
           D(n) == Cardinality(AtLeast(n)')
           In(r, n) == IF r >= n THEN 1 ELSE 0
           a == WorkerRank(wk[k])
           b == WorkerRank(s)
<1>1. /\ D(1) = C(1) + In(b, 1) - In(a, 1)
      /\ D(2) = C(2) + In(b, 2) - In(a, 2)
      /\ D(3) = C(3) + In(b, 3) - In(a, 3)
      /\ D(4) = C(4) + In(b, 4) - In(a, 4)
  BY LevelStep
<1>2. C(1) \in Nat /\ C(2) \in Nat /\ C(3) \in Nat /\ C(4) \in Nat
  BY LevelFinite
<1>3. D(1) \in Nat /\ D(2) \in Nat /\ D(3) \in Nat /\ D(4) \in Nat
  <2>1. \A n \in 1..4 : IsFiniteSet(AtLeast(n)')
    BY TaskPoolAssumption, FS_Subset DEF AtLeast
  <2> QED BY <2>1, FS_CardinalityType
<1>4. WorkersLeft = C(1) + C(2) + C(3) + C(4) /\ WorkersLeft' = D(1) + D(2) + D(3) + D(4)
  BY DEF WorkersLeft
<1>5. a \in 0..4 /\ b \in 0..4
  BY RankRange
<1>6. \A r \in 0..4 : In(r, 1) + In(r, 2) + In(r, 3) + In(r, 4) = r
  OBVIOUS
<1>7. \A r \in 0..4 : \A n \in 1..4 : In(r, n) \in 0..1
  OBVIOUS
<1> HIDE DEF C, D, In, a, b
<1>8. /\ In(a, 1) + In(a, 2) + In(a, 3) + In(a, 4) = a
      /\ In(b, 1) + In(b, 2) + In(b, 3) + In(b, 4) = b
  BY <1>5, <1>6
<1>9. /\ In(a, 1) \in 0..1 /\ In(a, 2) \in 0..1 /\ In(a, 3) \in 0..1 /\ In(a, 4) \in 0..1
      /\ In(b, 1) \in 0..1 /\ In(b, 2) \in 0..1 /\ In(b, 3) \in 0..1 /\ In(b, 4) \in 0..1
  BY <1>5, <1>7
<1> HIDE DEF WorkersLeft
<1>10. D(1) + D(2) + D(3) + D(4) =
         C(1) + C(2) + C(3) + C(4)
           + (In(b, 1) + In(b, 2) + In(b, 3) + In(b, 4))
           - (In(a, 1) + In(a, 2) + In(a, 3) + In(a, 4))
  BY <1>1, <1>2, <1>9
<1>11. WorkersLeft' = WorkersLeft + b - a
  BY <1>4, <1>8, <1>10
<1>12. WorkersLeft \in Nat /\ WorkersLeft' \in Nat
  BY <1>2, <1>3, <1>4
<1> QED BY <1>11, <1>12 DEF a, b

(* The stock of work is never overdrawn. *)
LEMMA WorkIsNatural == TypeOK => Work \in Nat
<1> SUFFICES ASSUME TypeOK PROVE Work \in Nat
  OBVIOUS
<1>1. ItemsLeft \in Nat /\ NInputs - fed \in Nat /\ Cardinality(Workers) - closed \in Nat
  BY TaskPoolAssumption, WorkersCardinality DEF TypeOK, ItemsLeft
<1>2. WorkersLeft \in Nat
  BY LevelFinite DEF WorkersLeft
<1>3. ParentLeft \in Nat
  BY DEF ParentLeft
<1> HIDE DEF ItemsLeft, WorkersLeft, ParentLeft
<1> QED BY <1>1, <1>2, <1>3 DEF Work

(* A step of a worker, with what it takes off the queue and its new state. *)
LEMMA WorkerUses ==
  ASSUME TypeOK, TypeOK', NEW k \in Workers, NEW s \in WorkerStates, SetWorker(k, s),
         NEW n \in 0..1, taken' = taken + n, UNCHANGED pool,
         WorkerRank(s) < WorkerRank(wk[k]) + 2 * n
  PROVE  Work' < Work
<1>1. /\ WorkersLeft \in Nat /\ WorkersLeft' \in Nat
      /\ WorkersLeft' = WorkersLeft + WorkerRank(s) - WorkerRank(wk[k])
  BY WorkersLeftStep
<1>2. /\ ItemsLeft \in Int /\ ItemsLeft' = ItemsLeft - n
      /\ NInputs - fed \in Int /\ Cardinality(Workers) - closed \in Int
  BY TaskPoolAssumption, WorkersCardinality DEF TypeOK, ItemsLeft
<1>3. ParentLeft \in Nat /\ ParentLeft' = ParentLeft
  BY DEF ParentLeft, pool
<1>4. WorkerRank(s) \in Nat /\ WorkerRank(wk[k]) \in Nat
  BY RankRange
<1>5. /\ Work = (NInputs - fed) + (Cardinality(Workers) - closed) + 2 * ItemsLeft
                  + WorkersLeft + ParentLeft
      /\ Work' = (NInputs - fed) + (Cardinality(Workers) - closed) + 2 * ItemsLeft'
                   + WorkersLeft' + ParentLeft'
  BY DEF Work, pool
<1> HIDE DEF ItemsLeft, WorkersLeft, ParentLeft, WorkerRank
<1> QED BY <1>1, <1>2, <1>3, <1>4, <1>5

(* Nothing in a pool goes on for ever: every step uses up some of a finite *)
(* stock of work, so a pool takes finitely many steps, however many        *)
(* inputs, workers and kills there are.                                    *)
THEOREM PoolIsFinite == Spec => WorkShrinks /\ [](Work \in Nat)
<1>1. TypeOK /\ TypeOK' /\ [Next]_vars => [Work' < Work]_vars
  <2> SUFFICES ASSUME TypeOK, TypeOK', Next, ~UNCHANGED vars PROVE Work' < Work
    OBVIOUS
  <2>1. CASE ParentStep
    <3>1. UNCHANGED <<taken, wk>>
      BY <2>1 DEF ParentStep, Put, LeaveBlock, PutSentinel, WaitForWorkers, Joined, Collect
    <3>2. UNCHANGED <<ItemsLeft, WorkersLeft>> /\ ItemsLeft \in Int /\ WorkersLeft \in Nat
      BY <3>1, LevelFinite, TaskPoolAssumption, WorkersCardinality
      DEF ItemsLeft, WorkersLeft, AtLeast, TypeOK
    <3>3. /\ fed \in Int /\ closed \in Int /\ NInputs \in Int
          /\ Cardinality(Workers) \in Int
      BY TaskPoolAssumption, WorkersCardinality DEF TypeOK
    <3>4. \/ fed' = fed + 1 /\ closed' = closed /\ pc' = pc
          \/ fed' = fed /\ closed' = closed + 1 /\ pc' = pc
          \/ /\ fed' = fed /\ closed' = closed
             /\ <<pc, pc'>> \in {<<"feed", "close">>, <<"close", "wait">>,
                                 <<"wait", "collect">>, <<"wait", "over">>,
                                 <<"collect", "over">>}
      BY <2>1 DEF ParentStep, Put, LeaveBlock, PutSentinel, WaitForWorkers, Joined, Collect
    <3>5. /\ ParentLeft \in Nat /\ ParentLeft' \in Nat
          /\ pc' = pc => ParentLeft' = ParentLeft
      BY DEF ParentLeft
    <3>6. <<pc, pc'>> \in {<<"feed", "close">>, <<"close", "wait">>,
                           <<"wait", "collect">>, <<"wait", "over">>,
                           <<"collect", "over">>} => ParentLeft' < ParentLeft
      BY DEF ParentLeft
    <3>7. CASE fed' = fed + 1 /\ closed' = closed /\ pc' = pc
      BY <3>2, <3>3, <3>5, <3>7 DEF Work
    <3>8. CASE fed' = fed /\ closed' = closed + 1 /\ pc' = pc
      BY <3>2, <3>3, <3>5, <3>8 DEF Work
    <3>9. CASE fed' = fed /\ closed' = closed /\ ParentLeft' < ParentLeft
      BY <3>2, <3>3, <3>5, <3>9 DEF Work
    <3> QED BY <3>4, <3>6, <3>7, <3>8, <3>9
  <2>2. CASE Over
    BY <2>2 DEF Over
  <2>3. ASSUME NEW k \in Workers, TakeInput(k) \/ TakeSentinel(k) \/ Rob(k)
        PROVE  Work' < Work
    <3>1. PICK s \in WorkerStates :
            SetWorker(k, s) /\ WorkerRank(s) < WorkerRank(wk[k]) + 2 * 1
      BY <2>3 DEF TakeInput, TakeSentinel, Rob, WorkerRank, WorkerStates, Ended
    <3>2. taken' = taken + 1 /\ UNCHANGED pool
      BY <2>3 DEF TakeInput, TakeSentinel, Rob
    <3> QED BY <3>1, <3>2, WorkerUses
  <2>4. ASSUME NEW k \in Workers, SkipInput(k)
        PROVE  Work' < Work
    <3>1. SetWorker(k, "get") /\ "get" \in WorkerStates
      BY <2>4 DEF SkipInput, SetWorker, TypeOK, WorkerStates
    <3>2. WorkerRank("get") < WorkerRank(wk[k]) + 2 * 1
      BY <2>4 DEF SkipInput, WorkerRank
    <3>3. taken' = taken + 1 /\ UNCHANGED pool
      BY <2>4 DEF SkipInput
    <3> QED BY <3>1, <3>2, <3>3, WorkerUses
  <2>5. ASSUME NEW k \in Workers,
               \/ TaskReturns(k) \/ TaskRaises(k) \/ EndWorker(k) \/ OnExitRaises(k)
               \/ KillWorker(k)
        PROVE  Work' < Work
    <3>1. PICK s \in WorkerStates :
            SetWorker(k, s) /\ WorkerRank(s) < WorkerRank(wk[k]) + 2 * 0
      <4>1. CASE TaskReturns(k) \/ TaskRaises(k)
        BY <4>1 DEF TaskReturns, TaskRaises, WorkerRank, WorkerStates, Ended
      <4>2. CASE EndWorker(k) \/ OnExitRaises(k)
        BY <4>2 DEF EndWorker, OnExitRaises, WorkerRank, WorkerStates, Ended
      <4>3. CASE KillWorker(k)
        <5>1. wk[k] \in {"get", "run", "onexit", "ok"}
          BY <4>3 DEF KillWorker, TypeOK, WorkerStates, Ended
        <5> QED BY <4>3, <5>1 DEF KillWorker, WorkerRank, WorkerStates, Ended
      <4> QED BY <2>5, <4>1, <4>2, <4>3
    <3>2. taken' = taken + 0 /\ UNCHANGED pool
      BY <2>5 DEF TaskReturns, TaskRaises, EndWorker, OnExitRaises, KillWorker, TypeOK
    <3> QED BY <3>1, <3>2, WorkerUses
  <2> QED BY <2>1, <2>2, <2>3, <2>4, <2>5 DEF Next, WorkerStep
<1> QED
  BY <1>1, WorkIsNatural, SpecIInv, PTL DEF Spec, IInv, WorkShrinks

(* No pool gets stuck: until it is over, its parent has a step to take, or *)
(* some worker has (the guards of their actions, written out).  In         *)
(* particular no worker blocks in queue.get, and the parent does not block *)
(* on out_queue.  Together with PoolIsFinite this is what Termination      *)
(* needs beside the fairness of the scheduler.                             *)
ParentCanStep == \/ pc = "feed" /\ fed <= NInputs
                 \/ pc = "close" /\ closed <= Cardinality(Workers)
                 \/ pc = "wait" /\ \A k \in Workers : wk[k] \in Ended
                 \/ pc = "collect" /\ Cardinality(out) >= NInputs
WorkerCanStep(k) == \/ wk[k] \in {"run", "onexit"}
                    \/ wk[k] = "get" /\ Available
NeverStuck == pc # "over" => ParentCanStep \/ \E k \in Workers : WorkerCanStep(k)

THEOREM PoolNeverStuck == Spec => []NeverStuck
<1>1. ASSUME TypeOK, CollectFindsAll, Balance, pc # "over"
      PROVE  ParentCanStep \/ \E k \in Workers : WorkerCanStep(k)
  <2>1. CASE pc \in {"feed", "close"}
    BY <1>1, <2>1, TaskPoolAssumption, WorkersCardinality DEF TypeOK, ParentCanStep
  <2>2. CASE pc = "collect"
    <3>1. out = 1..NInputs
      BY <1>1, <2>2 DEF CollectFindsAll, Inputs
    <3>2. Cardinality(1..NInputs) = NInputs
      BY TaskPoolAssumption, FS_Interval
    <3> QED BY <2>2, <3>1, <3>2, TaskPoolAssumption DEF ParentCanStep
  <2>3. CASE pc = "wait" /\ \A k \in Workers : wk[k] \in Ended
    BY <2>3 DEF ParentCanStep
  <2>4. ASSUME pc = "wait", NEW k \in Workers, wk[k] \notin Ended
        PROVE  WorkerCanStep(k)
    <3>1. wk[k] \in {"get", "run", "onexit"}
      BY <1>1, <2>4 DEF TypeOK, WorkerStates
    <3>2. CASE wk[k] = "get"
      <4>1. k \in Needy
        BY <3>2 DEF Needy
      <4>2. Cardinality(Needy) >= 1
        BY <4>1, NeedyFinite, FS_EmptySet
      <4>3. /\ SentinelsTaken + Cardinality(Needy) <= Cardinality(Workers)
            /\ closed = Cardinality(Workers)
        BY <1>1, <2>4 DEF Balance
      <4>4. taken < fed + closed
        BY <1>1, <4>2, <4>3, NeedyFinite, WorkersCardinality, TaskPoolAssumption
        DEF SentinelsTaken, TypeOK
      <4> QED BY <3>2, <4>4 DEF WorkerCanStep, Available
    <3> QED BY <3>1, <3>2 DEF WorkerCanStep
  <2> QED BY <1>1, <2>1, <2>2, <2>3, <2>4 DEF TypeOK, ParentStates
<1>2. IInv /\ Balance => NeverStuck
  BY <1>1 DEF IInv, NeverStuck
<1> QED BY <1>2, SpecIInv, InitBalance, NextBalance, PTL DEF Spec
=============================================================================
