--------------------------- MODULE RunAttributes ---------------------------
(***************************************************************************)
(* One PARALLEL attribute of cbuildbot's RunAttributes: a manager queue    *)
(* that should hold at most one value, a re-entrant lock beside it, and    *)
(* the stage processes that call SetParallel, SetParallelDefault,          *)
(* HasParallel and GetParallel.  Every call on the queue or the lock goes  *)
(* through the multiprocessing manager and is one step.  GetParallel takes *)
(* the value off the queue BEFORE it asks for the lock and puts it back    *)
(* later, so the queue is empty while a reader holds the value.            *)
(*                                                                         *)
(* A value is represented by its number: the n-th SetParallel to put a     *)
(* value on the queue puts n.                                              *)
(***************************************************************************)
EXTENDS Naturals, Sequences, FiniteSets

CONSTANTS Procs,        \* processes of the builder run
          Setters,      \* those that call SetParallel
          Defaulters,   \* those that call SetParallelDefault
          Testers,      \* those that call HasParallel
          Getters,      \* those that call GetParallel
          NoProc,       \* owner of a free lock
          MaxCalls,     \* bound: calls a process makes
          MaxKills      \* bound: processes killed by a failing step runner

ASSUME ProcsAssumption == /\ NoProc \notin Procs
                          /\ Setters \cup Defaulters \cup Testers \cup Getters
                               \subseteq Procs
ASSUME FiniteAssumption == IsFiniteSet(Procs)
ASSUME BoundsAssumption == MaxCalls \in Nat /\ MaxKills \in Nat

VARIABLES
  registered,   \* the attribute has a queue (board/target registered)
  queue,        \* LockableQueue._queue
  rlock,        \* owner of LockableQueue.rlock, or NoProc
  pc,           \* where each process is inside its call
  op,           \* which call each process is in
  hand,         \* the local variable "value" of GetParallel, 0 if unset
  killed,       \* processes that got SIGKILL
  calls,        \* calls each process has made
  latest,       \* history: number of the newest value put by a setter
  ret           \* history: result of each process's last query

vars == <<registered, queue, rlock, pc, op, hand, killed, calls, latest, ret>>

NoWait == "get0"        \* GetParallel(timeout=0)
Waits  == "getT"        \* GetParallel(timeout=t), t > 0
Forever == "getN"       \* GetParallel(timeout=None)
GetOps == {NoWait, Waits, Forever}
SetOps == {"set", "dset"}       \* "dset": the SetParallel of SetParallelDefault
Ops == GetOps \cup SetOps \cup {"default", "has", "none"}
PCs == {"idle", "take", "lock", "test", "drain", "put", "unlock", "reset", "gone"}
Locked == {"test", "drain", "put", "unlock", "reset"}   \* inside "with rlock"

Init == /\ registered = FALSE
        /\ queue = <<>>
        /\ rlock = NoProc
        /\ pc = [p \in Procs |-> "idle"]
        /\ op = [p \in Procs |-> "none"]
        /\ hand = [p \in Procs |-> 0]
        /\ killed = {}
        /\ calls = [p \in Procs |-> 0]
        /\ latest = 0
        /\ ret = [p \in Procs |-> <<"none", 0>>]

(* Mutant: a repeated registration makes a fresh queue. *)
RegisterAfresh ==
  /\ registered' = TRUE /\ queue' = <<>> /\ rlock' = NoProc
  /\ UNCHANGED <<pc, op, hand, killed, calls, latest, ret>>

(***************************************************************************)
(* RegisterBoardAttrs, run by the builder before it forks stages and again *)
(* by anyone who wants a BoardRunAttributes object: only the first call    *)
(* makes a queue and its lock.                                             *)
(***************************************************************************)
RegisterBoardAttrs ==
  /\ registered' = TRUE
  /\ IF registered THEN UNCHANGED <<queue, rlock>>
                   ELSE queue' = <<>> /\ rlock' = NoProc
  /\ UNCHANGED <<pc, op, hand, killed, calls, latest, ret>>

(***************************************************************************)
(* A process enters one of the four methods.  Without a queue _GetQueue    *)
(* raises ParallelAttributeError (HasParallel returns False) before        *)
(* anything changes, which is no step here.                                *)
(***************************************************************************)
Allowed(p) == (IF p \in Setters THEN {"set"} ELSE {})
         \cup (IF p \in Defaulters THEN {"default"} ELSE {})
         \cup (IF p \in Testers THEN {"has"} ELSE {})
         \cup (IF p \in Getters THEN GetOps ELSE {})

Call(p, o) ==
  /\ registered
  /\ pc[p] = "idle" /\ calls[p] < MaxCalls
  /\ o \in Allowed(p)
  /\ op' = [op EXCEPT ![p] = o]
  /\ pc' = [pc EXCEPT ![p] = IF o \in GetOps THEN "take" ELSE "lock"]
  /\ calls' = [calls EXCEPT ![p] = @ + 1]
  /\ UNCHANGED <<registered, queue, rlock, hand, killed, latest, ret>>

(* GetParallel: queue.get(True, timeout), without the lock.  What the      *)
(* manager takes for a process that was killed in its get reaches nobody.  *)
Take(p) ==
  /\ pc[p] = "take" /\ queue # <<>>
  /\ hand' = [hand EXCEPT ![p] = Head(queue)]
  /\ queue' = Tail(queue)
  /\ pc' = [pc EXCEPT ![p] = IF p \in killed THEN "gone" ELSE "lock"]
  /\ UNCHANGED <<registered, rlock, op, killed, calls, latest, ret>>

(* Queue.Empty out of that get: at once with 0, never with None. *)
TakeEmpty(p) ==
  /\ pc[p] = "take" /\ queue = <<>> /\ op[p] # Forever
  /\ pc' = [pc EXCEPT ![p] = "lock"]
  /\ UNCHANGED <<registered, queue, rlock, op, hand, killed, calls, latest, ret>>

(* Mutants: SetParallel does not empty the queue; GetParallel does not look *)
(* for a newer value.                                                      *)
AcquireSetAtOnce(p) ==
  /\ pc[p] = "lock" /\ rlock = NoProc
  /\ rlock' = p
  /\ pc' = [pc EXCEPT ![p] = CASE op[p] \in {"has", "default"} -> "test"
                               [] op[p] \in SetOps -> "put"
                               [] OTHER -> "drain"]
  /\ UNCHANGED <<registered, queue, op, hand, killed, calls, latest, ret>>
AcquireGetAtOnce(p) ==
  /\ pc[p] = "lock" /\ rlock = NoProc
  /\ rlock' = p
  /\ pc' = [pc EXCEPT ![p] = CASE op[p] \in {"has", "default"} -> "test"
                               [] hand[p] # 0 -> "put"
                               [] OTHER -> "drain"]
  /\ UNCHANGED <<registered, queue, op, hand, killed, calls, latest, ret>>

(* "with queue.rlock" of SetParallel, HasParallel and GetParallel. *)
Acquire(p) ==
  /\ pc[p] = "lock" /\ rlock = NoProc
  /\ rlock' = p
  /\ pc' = [pc EXCEPT ![p] = IF op[p] \in {"has", "default"} THEN "test" ELSE "drain"]
  /\ UNCHANGED <<registered, queue, op, hand, killed, calls, latest, ret>>

(* HasParallel: "not queue.empty()"; SetParallelDefault goes on to         *)
(* SetParallel, after releasing the lock, if that is False.                *)
Test(p) ==
  /\ pc[p] = "test"
  /\ ret' = [ret EXCEPT ![p] = <<"has", IF queue = <<>> THEN 0 ELSE 1>>]
  /\ pc' = [pc EXCEPT ![p] = IF op[p] = "default" /\ queue = <<>>
                             THEN "reset" ELSE "unlock"]
  /\ UNCHANGED <<registered, queue, rlock, op, hand, killed, calls, latest>>

(* One queue.get(False) of a drain loop that finds a value.  SetParallel   *)
(* drops it, GetParallel keeps the last one it sees.                       *)
Drain(p) ==
  /\ pc[p] = "drain" /\ queue # <<>>
  /\ hand' = IF op[p] \in GetOps THEN [hand EXCEPT ![p] = Head(queue)] ELSE hand
  /\ queue' = Tail(queue)
  /\ UNCHANGED <<registered, rlock, pc, op, killed, calls, latest, ret>>

(* Mutant: GetParallel re-queues without asking whether it got a value. *)
DrainEmptyBlindly(p) ==
  /\ pc[p] = "drain" /\ queue = <<>>
  /\ pc' = [pc EXCEPT ![p] = "put"]
  /\ UNCHANGED <<registered, queue, rlock, op, hand, killed, calls, latest, ret>>

(* Queue.Empty out of a drain loop: on to the put, or (a reader without a  *)
(* value) raise ParallelAttributeError or AttrTimeoutError.                *)
DrainEmpty(p) ==
  /\ pc[p] = "drain" /\ queue = <<>>
  /\ IF op[p] \in GetOps /\ hand[p] = 0
     THEN /\ pc' = [pc EXCEPT ![p] = "unlock"]
          /\ ret' = [ret EXCEPT ![p] = <<"get", 0>>]
     ELSE /\ pc' = [pc EXCEPT ![p] = "put"]
          /\ UNCHANGED ret
  /\ UNCHANGED <<registered, queue, rlock, op, hand, killed, calls, latest>>

(* queue.put(value) of SetParallel. *)
PutNew(p) ==
  /\ pc[p] = "put" /\ op[p] \in SetOps
  /\ latest' = latest + 1
  /\ queue' = Append(queue, latest + 1)
  /\ pc' = [pc EXCEPT ![p] = "unlock"]
  /\ UNCHANGED <<registered, rlock, op, hand, killed, calls, ret>>

(* Mutant: GetParallel consumes the value. *)
KeepValue(p) ==
  /\ pc[p] = "put" /\ op[p] \in GetOps
  /\ ret' = [ret EXCEPT ![p] = <<"get", hand[p]>>]
  /\ hand' = [hand EXCEPT ![p] = 0]
  /\ pc' = [pc EXCEPT ![p] = "unlock"]
  /\ UNCHANGED <<registered, queue, rlock, op, killed, calls, latest>>

(* queue.put(value) of GetParallel, which then returns the value. *)
PutBack(p) ==
  /\ pc[p] = "put" /\ op[p] \in GetOps
  /\ queue' = Append(queue, hand[p])
  /\ ret' = [ret EXCEPT ![p] = <<"get", hand[p]>>]
  /\ hand' = [hand EXCEPT ![p] = 0]
  /\ pc' = [pc EXCEPT ![p] = "unlock"]
  /\ UNCHANGED <<registered, rlock, op, killed, calls, latest>>

(* End of the "with"; the HasParallel of a SetParallelDefault that found   *)
(* nothing is followed by its SetParallel.                                 *)
Release(p) ==
  /\ pc[p] \in {"unlock", "reset"}
  /\ rlock' = NoProc
  /\ IF pc[p] = "reset"
     THEN /\ pc' = [pc EXCEPT ![p] = "lock"]
          /\ op' = [op EXCEPT ![p] = "dset"]
     ELSE /\ pc' = [pc EXCEPT ![p] = "idle"]
          /\ op' = [op EXCEPT ![p] = "none"]
  /\ UNCHANGED <<registered, queue, hand, killed, calls, latest, ret>>

(***************************************************************************)
(* A step runner kills the process (SIGKILL): what it holds is not given   *)
(* back.  If it was blocked in queue.get or rlock.acquire, the manager's   *)
(* thread that serves it still is: ServeDead takes a value nobody receives *)
(* any more, or a lock nobody will release.                                *)
(***************************************************************************)
Kill(p) ==
  /\ p \notin killed /\ Cardinality(killed) < MaxKills
  /\ killed' = killed \cup {p}
  /\ UNCHANGED <<registered, queue, rlock, pc, op, hand, calls, latest, ret>>

ServeDead(p) == p \in killed /\ (Take(p) \/ Acquire(p))

(* What a live process does next inside a call. *)
Step(p) == /\ p \notin killed
           /\ \/ Take(p) \/ TakeEmpty(p) \/ Acquire(p) \/ Test(p)
              \/ Drain(p) \/ DrainEmpty(p) \/ PutNew(p) \/ PutBack(p) \/ Release(p)

Next == \/ RegisterBoardAttrs
        \/ \E p \in Procs :
             \/ p \notin killed /\ \E o \in Ops : Call(p, o)
             \/ Step(p)
             \/ Kill(p)
             \/ ServeDead(p)

(* A live process is scheduled, and finishes the calls it makes; nothing   *)
(* makes it call again.                                                    *)
Fairness == \A p \in Procs : WF_vars(Step(p))

Spec == Init /\ [][Next]_vars /\ Fairness
-----------------------------------------------------------------------------
TypeOK ==
  /\ registered \in BOOLEAN
  /\ queue \in Seq(Nat \ {0})          \* only values that were set
  /\ rlock \in Procs \cup {NoProc}
  /\ pc \in [Procs -> PCs]
  /\ op \in [Procs -> Ops]
  /\ hand \in [Procs -> Nat]
  /\ killed \subseteq Procs
  /\ calls \in [Procs -> 0..MaxCalls]
  /\ latest \in Nat
  /\ ret \in [Procs -> {"none", "get", "has"} \X Nat]

(* LockableQueue is used as a one-place buffer: however setters and        *)
(* readers interleave, and whoever is killed, it never holds two values    *)
(* (a second one would make a later blocking get return a stale value).    *)
OneValueAtMost ==
  /\ Len(queue) <= 1
  /\ \A p \in Procs : pc[p] = "put" => queue = <<>>

(* Once a value was set there always is one: on the queue, in the hands of *)
(* a reader that will put it back, or about to be put by a setter.  Only a *)
(* process that is killed there can take it away for good.                 *)
InFlight(p) == \/ hand[p] # 0
               \/ op[p] \in SetOps /\ pc[p] \in {"drain", "put"}
NeverLost == latest > 0 => queue # <<>> \/ \E p \in Procs : InFlight(p)

(* A reader that waits without a timeout, as the stages do, gets a value   *)
(* once one was set (nobody is killed).                                    *)
ReaderServed ==
  \A p \in Procs :
    (pc[p] = "take" /\ latest > 0 /\ killed = {}) ~> (pc[p] = "idle" \/ killed # {})

(* As long as one process alone reads, tests and sets defaults, the queue  *)
(* with its two-phase GetParallel is a register, whoever is killed: the    *)
(* reader never fails after the first SetParallel and never gets an older  *)
(* value than the newest one set.                                          *)
Register == INSTANCE AttributeRegister WITH reg <- latest
Reading == {p \in Getters \cup Testers \cup Defaulters : calls[p] > 0}
RegisterForOneReader ==
  Register!Init /\ [][Cardinality(Reading') <= 1 => Register!Next]_<<latest, ret>>

(* cbuildbot_run.py:462-464: "flush any other values that are on the       *)
(* queue ... If so, accept the updated value."  The value a reader is      *)
(* about to re-queue and return is the newest one.                         *)
RequeuesUpdatedValue ==
  \A p \in Procs : pc[p] = "put" /\ op[p] \in GetOps => hand[p] = latest
=============================================================================
