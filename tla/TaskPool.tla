------------------------------ MODULE TaskPool ------------------------------
(***************************************************************************)
(* lib/parallel.py: BackgroundTaskRunner and RunTasksInProcessPool.  The   *)
(* parent puts inputs on a managed queue and, when its block is left, one  *)
(* _AllTasksComplete per worker; each worker process runs TaskRunner,      *)
(* which takes items until it meets a sentinel.  The workers are the steps *)
(* of a ParallelTasks context, of which this module uses what StepRunner   *)
(* promises: the parent goes on once every worker has ended, and raises if *)
(* one of them failed.  ImplementsStepRunner says that it uses no more.    *)
(*                                                                         *)
(* The queue is first-in first-out and inputs are put before sentinels, so *)
(* it is given by three counters: position k holds input k if k <= fed and *)
(* a sentinel if fed < k <= fed + closed; the first "taken" are gone.      *)
(***************************************************************************)
EXTENDS Naturals, FiniteSets

CONSTANTS NInputs,              \* inputs the caller wants to put
          Workers,              \* worker processes
          BodyMayRaise,         \* the caller's block may raise between two puts
          OnExitMayRaise,       \* the exit handler may raise
          MaxCrashes            \* bound: workers that are killed

Inputs == 1..NInputs

ASSUME TaskPoolAssumption ==
  /\ NInputs \in Nat /\ MaxCrashes \in Nat
  /\ IsFiniteSet(Workers) /\ Workers # {}
  /\ BodyMayRaise \in BOOLEAN /\ OnExitMayRaise \in BOOLEAN

VARIABLES
  fed,          \* inputs put on the queue
  closed,       \* sentinels put on the queue
  taken,        \* items taken off the queue
  wk,           \* what each worker is doing
  cur,          \* the input a worker took last, 0 before the first
  took,         \* the inputs that have left the queue for each worker
  errors,       \* TaskRunner's "errors": inputs whose task raised, per worker
  out,          \* out_queue: inputs whose result was put there
  crashes,      \* workers that were killed
  pc,           \* where the parent is
  outcome       \* how the pool ended

vars == <<fed, closed, taken, wk, cur, took, errors, out, crashes, pc, outcome>>
pool == <<fed, closed, pc, outcome>>

Ended == {"ok", "failed", "killed", "robber"}
WorkerStates == {"get", "run", "onexit"} \cup Ended
ParentStates == {"feed", "close", "wait", "collect", "over"}

Init == /\ fed = 0 /\ closed = 0 /\ taken = 0
        /\ wk = [k \in Workers |-> "get"]
        /\ cur = [k \in Workers |-> 0]
        /\ took = [k \in Workers |-> {}]
        /\ errors = [k \in Workers |-> {}]
        /\ out = {}
        /\ crashes = 0
        /\ pc = "feed" /\ outcome = "none"
-----------------------------------------------------------------------------
(*                              The parent                                 *)

Put == /\ pc = "feed" /\ fed < NInputs
       /\ fed' = fed + 1
       /\ UNCHANGED <<closed, taken, wk, cur, took, errors, out, crashes, pc, outcome>>

(* Mutant: one sentinel too many. *)
PutSentinelOnceMore ==
  /\ pc = "close" /\ closed <= Cardinality(Workers)
  /\ closed' = closed + 1
  /\ UNCHANGED <<fed, taken, wk, cur, took, errors, out, crashes, pc, outcome>>

(* The block ends, normally after the last input, or with an exception; in *)
(* both cases the "finally" puts the sentinels.                            *)
LeaveBlock ==
  /\ pc = "feed"
  /\ \/ fed = NInputs /\ UNCHANGED outcome
     \/ BodyMayRaise /\ outcome' = "foreground"
  /\ pc' = "close"
  /\ UNCHANGED <<fed, closed, taken, wk, cur, took, errors, out, crashes>>

(* Mutant: one sentinel too few. *)
WaitForWorkersEarly ==
  /\ pc = "close" /\ closed + 1 = Cardinality(Workers)
  /\ pc' = "wait"
  /\ UNCHANGED <<fed, closed, taken, wk, cur, took, errors, out, crashes, outcome>>

PutSentinel ==
  /\ pc = "close" /\ closed < Cardinality(Workers)
  /\ closed' = closed + 1
  /\ UNCHANGED <<fed, taken, wk, cur, took, errors, out, crashes, pc, outcome>>

WaitForWorkers ==
  /\ pc = "close" /\ closed = Cardinality(Workers)
  /\ pc' = "wait"
  /\ UNCHANGED <<fed, closed, taken, wk, cur, took, errors, out, crashes, outcome>>

(* Mutant: only the first errors are waited for, as with halt_on_error.    *)
JoinedOnError ==
  /\ pc = "wait"
  /\ \/ \A k \in Workers : wk[k] \in Ended
     \/ \E k \in Workers : wk[k] \in Ended \ {"ok"}
  /\ IF outcome = "none" /\ \A k \in Workers : wk[k] = "ok"
     THEN pc' = "collect" /\ UNCHANGED outcome
     ELSE /\ pc' = "over"
          /\ outcome' = IF outcome = "none" THEN "raised" ELSE outcome
  /\ UNCHANGED <<fed, closed, taken, wk, cur, took, errors, out, crashes>>

(* The end of the ParallelTasks context; a foreground exception takes      *)
(* precedence over a BackgroundFailure.                                    *)
Joined ==
  /\ pc = "wait" /\ \A k \in Workers : wk[k] \in Ended
  /\ IF outcome = "none" /\ \A k \in Workers : wk[k] = "ok"
     THEN pc' = "collect" /\ UNCHANGED outcome
     ELSE /\ pc' = "over"
          /\ outcome' = IF outcome = "none" THEN "raised" ELSE outcome
  /\ UNCHANGED <<fed, closed, taken, wk, cur, took, errors, out, crashes>>

(* RunTasksInProcessPool: one blocking out_queue.get() per input. *)
Collect ==
  /\ pc = "collect" /\ Cardinality(out) >= NInputs
  /\ pc' = "over" /\ outcome' = "returned"
  /\ UNCHANGED <<fed, closed, taken, wk, cur, took, errors, out, crashes>>
-----------------------------------------------------------------------------
(*                       A worker: TaskRunner                              *)

SetWorker(k, s) == wk' = [wk EXCEPT ![k] = s]

Available == taken < fed + closed
NextIsInput == taken < fed

(* An input while no task of this worker failed: run it. *)
TakeInput(k) ==
  /\ wk[k] = "get" /\ Available /\ NextIsInput /\ errors[k] = {}
  /\ taken' = taken + 1
  /\ cur' = [cur EXCEPT ![k] = taken + 1]
  /\ took' = [took EXCEPT ![k] = @ \cup {taken + 1}]
  /\ SetWorker(k, "run")
  /\ UNCHANGED <<errors, out, crashes, pool>>

(* Mutant: an empty queue is taken for the end of the work. *)
TakeSentinelOrNothing(k) ==
  /\ wk[k] = "get" /\ ~NextIsInput
  /\ taken' = IF Available THEN taken + 1 ELSE taken
  /\ SetWorker(k, "onexit")
  /\ UNCHANGED <<cur, took, errors, out, crashes, pool>>

(* Mutant: the input is looked at and left on the queue. *)
SkipInputUntaken(k) ==
  /\ wk[k] = "get" /\ Available /\ NextIsInput /\ errors[k] # {}
  /\ cur' = [cur EXCEPT ![k] = taken + 1]
  /\ UNCHANGED <<taken, wk, took, errors, out, crashes, pool>>

(* An input after a failure: drop it. *)
SkipInput(k) ==
  /\ wk[k] = "get" /\ Available /\ NextIsInput /\ errors[k] # {}
  /\ taken' = taken + 1
  /\ cur' = [cur EXCEPT ![k] = taken + 1]
  /\ took' = [took EXCEPT ![k] = @ \cup {taken + 1}]
  /\ UNCHANGED <<wk, errors, out, crashes, pool>>

TakeSentinel(k) ==
  /\ wk[k] = "get" /\ Available /\ ~NextIsInput
  /\ taken' = taken + 1
  /\ SetWorker(k, "onexit")
  /\ UNCHANGED <<cur, took, errors, out, crashes, pool>>

(* Mutant: the exception of a task is swallowed. *)
TaskRaisesUnseen(k) ==
  /\ wk[k] = "run"
  /\ SetWorker(k, "get")
  /\ UNCHANGED <<taken, cur, took, errors, out, crashes, pool>>

TaskReturns(k) ==
  /\ wk[k] = "run"
  /\ out' = out \cup {cur[k]}
  /\ SetWorker(k, "get")
  /\ UNCHANGED <<taken, cur, took, errors, crashes, pool>>

TaskRaises(k) ==
  /\ wk[k] = "run"
  /\ errors' = [errors EXCEPT ![k] = @ \cup {cur[k]}]
  /\ SetWorker(k, "get")
  /\ UNCHANGED <<taken, cur, took, out, crashes, pool>>

(* onexit(), then the BackgroundFailure with the errors saved so far. *)
EndWorker(k) ==
  /\ wk[k] = "onexit"
  /\ SetWorker(k, IF errors[k] = {} THEN "ok" ELSE "failed")
  /\ UNCHANGED <<taken, cur, took, errors, out, crashes, pool>>

OnExitRaises(k) ==
  /\ OnExitMayRaise /\ wk[k] = "onexit"
  /\ SetWorker(k, "failed")
  /\ UNCHANGED <<taken, cur, took, errors, out, crashes, pool>>

(* The process is killed, perhaps when its TaskRunner has ended and its    *)
(* exit is too slow.  In queue.get, the manager's thread that serves it    *)
(* stays blocked there and will take one more item.                        *)
KillWorker(k) ==
  /\ wk[k] \notin Ended \ {"ok"} /\ pc \in {"feed", "close", "wait"}
  /\ crashes < MaxCrashes
  /\ crashes' = crashes + 1
  /\ SetWorker(k, IF wk[k] = "get" THEN "robber" ELSE "killed")
  /\ UNCHANGED <<taken, cur, took, errors, out, pool>>

Rob(k) ==
  /\ wk[k] = "robber" /\ Available
  /\ taken' = taken + 1
  /\ took' = IF NextIsInput THEN [took EXCEPT ![k] = @ \cup {taken + 1}] ELSE took
  /\ SetWorker(k, "killed")
  /\ UNCHANGED <<cur, errors, out, crashes, pool>>
-----------------------------------------------------------------------------
ParentStep == \/ Put \/ LeaveBlock \/ PutSentinel \/ WaitForWorkers \/ Joined \/ Collect

WorkerStep(k) == \/ TakeInput(k) \/ SkipInput(k) \/ TakeSentinel(k)
                 \/ TaskReturns(k) \/ TaskRaises(k)
                 \/ EndWorker(k) \/ OnExitRaises(k)

Over == pc = "over" /\ UNCHANGED vars

Next == \/ ParentStep \/ Over
        \/ \E k \in Workers : WorkerStep(k) \/ KillWorker(k) \/ Rob(k)

(* All processes are scheduled, and every task ends: one that is silent    *)
(* for too long is killed by the ParallelTasks context.                    *)
Fairness == WF_vars(ParentStep) /\ \A k \in Workers : WF_vars(WorkerStep(k))

Spec == Init /\ [][Next]_vars /\ Fairness
-----------------------------------------------------------------------------
TypeOK ==
  /\ fed \in 0..NInputs /\ closed \in 0..Cardinality(Workers)
  /\ taken \in Nat /\ taken <= fed + closed
  /\ wk \in [Workers -> WorkerStates]
  /\ cur \in [Workers -> 0..NInputs]
  /\ took \in [Workers -> SUBSET Inputs]
  /\ errors \in [Workers -> SUBSET Inputs]
  /\ out \subseteq Inputs
  /\ crashes \in 0..MaxCrashes
  /\ pc \in ParentStates
  /\ outcome \in {"none", "foreground", "raised", "returned"}

(* Every input that left the queue is being run, has its result in         *)
(* out_queue, or left it for a worker that will not end well itself; no    *)
(* input disappears behind a worker that does.                             *)
Spoilt(k) == errors[k] # {} \/ wk[k] \in {"failed", "killed", "robber"}
Accounted ==
  \A i \in 1..fed : i <= taken =>
    \/ i \in out
    \/ \E k \in Workers :
         i \in took[k] /\ (Spoilt(k) \/ (wk[k] = "run" /\ cur[k] = i))

(* The parent asks out_queue for exactly as many results as there are; a   *)
(* missing one would block it for ever.                                    *)
CollectFindsAll == pc = "collect" \/ outcome = "returned" => out = Inputs

(* From the moment the parent waits, every worker that will call get again *)
(* finds a sentinel of its own, whoever was killed where.                  *)
Needy == {k \in Workers : wk[k] \in {"get", "run", "robber"}}
SentinelForEach ==
  pc = "wait" =>
    fed + closed >= (IF taken < fed THEN fed ELSE taken) + Cardinality(Needy)

(* The workers are steps of a ParallelTasks context.  Seen as such, the    *)
(* pool does what StepRunner promises of it and no more: it is over only   *)
(* when no worker is left, it goes on to its results only if all of them   *)
(* ended well, and raises a BackgroundFailure only if one did not.         *)
Judged(s) == CASE s = "ok" -> "ok"
               [] s \in Ended \ {"ok"} -> "failed"
               [] OTHER -> "pending"
JoinOutcome == IF pc \notin {"collect", "over"} THEN "none"
               ELSE IF outcome \in {"foreground", "raised"} THEN outcome
               ELSE "returned"
Promise == INSTANCE StepRunner WITH Steps <- Workers,
                                    result <- [k \in Workers |-> Judged(wk[k])],
                                    outcome <- JoinOutcome
ImplementsStepRunner == Promise!Spec

(* Nothing in a pool can go on for ever: every step, of the parent, of a   *)
(* worker, of a kill or of what a killed worker left behind, uses up some  *)
(* of a finite stock of work.  An item still to be taken is worth two: to  *)
(* take it may give the worker a task to run.                              *)
WorkerRank(s) == CASE s = "run" -> 4
                   [] s = "get" -> 3
                   [] s = "onexit" -> 2
                   [] s \in {"ok", "robber"} -> 1
                   [] OTHER -> 0
AtLeast(n) == {k \in Workers : WorkerRank(wk[k]) >= n}
WorkersLeft == Cardinality(AtLeast(1)) + Cardinality(AtLeast(2))
                 + Cardinality(AtLeast(3)) + Cardinality(AtLeast(4))
ParentLeft == CASE pc = "feed" -> 4
                [] pc = "close" -> 3
                [] pc = "wait" -> 2
                [] pc = "collect" -> 1
                [] OTHER -> 0
ItemsLeft == NInputs + Cardinality(Workers) - taken
Work == (NInputs - fed) + (Cardinality(Workers) - closed) + 2 * ItemsLeft
          + WorkersLeft + ParentLeft
WorkShrinks == [][Work' < Work]_vars

(* Every pool ends. *)
Termination == <>(pc = "over")
=============================================================================
