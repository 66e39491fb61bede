--------------------------- MODULE ParallelTasks ---------------------------
(***************************************************************************)
(* lib/parallel.py: _BackgroundTask.ParallelTasks, which RunParallelSteps  *)
(* and BackgroundTaskRunner are built on.  The parent forks one process    *)
(* per step, runs the caller's block, waits for the steps in the order in  *)
(* which it started them, and kills what is left.  Each child acquires the *)
(* optional semaphore, signals that it started, runs its step, puts the    *)
(* result on its queue, releases the semaphore and exits; a child that is  *)
(* being killed skips the put and the release.                             *)
(*                                                                         *)
(* Time is abstracted: a time-out of the parent may expire whenever what   *)
(* it waits for may really take that long.                                 *)
(***************************************************************************)
EXTENDS Naturals, FiniteSets

CONSTANTS N,            \* number of steps
          Limits,       \* values of max_parallel; 0 stands for None
          MaySilent,    \* steps that may be silent longer than SILENT_TIMEOUT
          MayHang,      \* steps whose process may hang when it exits
          MayRaise,     \* the caller's block may raise
          ForkMayFail,  \* task.start() may raise
          MaxCrashes    \* bound: children that die of themselves

Tasks == 1..N

ASSUME ParallelTasksAssumption ==
  /\ N \in Nat /\ Limits \subseteq Nat /\ MaxCrashes \in Nat
  /\ MayRaise \in BOOLEAN /\ ForkMayFail \in BOOLEAN
  /\ MaySilent \subseteq Tasks /\ MayHang \subseteq Tasks

VARIABLES
  maxParallel,  \* the argument max_parallel
  haltOnError,  \* the argument halt_on_error
  child,        \* what each step's process is doing
  res,          \* how its step ended: "none", "ok", "err"
  sent,         \* the result it put on its queue
  started,      \* tasks whose _started event is set
  killing,      \* tasks whose _killing event is set
  permits,      \* value of the semaphore
  crashes,      \* children that died of themselves
  pc,           \* where the parent is
  w,            \* the task the parent starts or waits for; later ones are in bg_tasks
  alive,        \* Wait: what is_alive() returned in this round
  got,          \* Wait: a result was taken off the queue ("exited_cleanly")
  errs,         \* errors collected for each task
  sig,          \* _KillChildren: the signal being sent
  kset,         \* _KillChildren: tasks not seen to have exited
  todo,         \* _KillChildren: tasks that did not get this signal yet
  back,         \* _KillChildren: where the parent goes on afterwards
  fg,           \* the caller's block raised
  outcome       \* how the context manager ended

parent == <<pc, w, alive, got, errs, sig, kset, todo, back, fg, outcome>>
children == <<child, res, sent, started, permits, crashes>>
args == <<maxParallel, haltOnError>>
vars == <<parent, children, killing, args>>

Gone == {"dead", "slain"}       \* "slain": by a signal of the parent
Holding == {"ready", "run", "done", "put", "release"}
ChildStates == {"new", "sem", "exit"} \cup Holding \cup Gone
ParentStates == {"start", "body", "loop", "startup", "poll", "get", "join",
                 "next", "signal", "reap", "finish", "over"}

Init == /\ maxParallel \in Limits /\ haltOnError \in BOOLEAN
        /\ child = [t \in Tasks |-> "new"]
        /\ res = [t \in Tasks |-> "none"]
        /\ sent = [t \in Tasks |-> "none"]
        /\ started = {} /\ killing = {}
        /\ permits = maxParallel
        /\ crashes = 0
        /\ pc = "start" /\ w = 0
        /\ alive = TRUE /\ got = FALSE
        /\ errs = [t \in Tasks |-> {}]
        /\ sig = "none" /\ kset = {} /\ todo = {} /\ back = "next"
        /\ fg = FALSE
        /\ outcome = "none"
-----------------------------------------------------------------------------
(*                         The process of a step                           *)

Move(t, s) == child' = [child EXCEPT ![t] = s]

(* Mutant: the semaphore is looked at and not taken. *)
PeekPermit(t) ==
  /\ child[t] = "sem"
  /\ maxParallel = 0 \/ permits > 0
  /\ Move(t, "ready")
  /\ UNCHANGED <<res, sent, started, permits, crashes, killing, parent>>

(* semaphore.acquire(), before anything else. *)
AcquirePermit(t) ==
  /\ child[t] = "sem"
  /\ maxParallel = 0 \/ permits > 0
  /\ permits' = IF maxParallel = 0 THEN permits ELSE permits - 1
  /\ Move(t, "ready")
  /\ UNCHANGED <<res, sent, started, crashes, killing, parent>>

Begin(t) ==
  /\ child[t] = "ready"
  /\ started' = started \cup {t}
  /\ Move(t, "run")
  /\ UNCHANGED <<res, sent, permits, crashes, killing, parent>>

(* The step returns, or raises; _Run keeps the exception as an error. *)
EndStep(t) ==
  /\ child[t] = "run"
  /\ \E r \in {"ok", "err"} : res' = [res EXCEPT ![t] = r]
  /\ Move(t, "done")
  /\ UNCHANGED <<sent, started, permits, crashes, killing, parent>>

(* run()'s finally: nothing more is done for a task that is being killed. *)
CheckKilling(t) ==
  /\ child[t] = "done"
  /\ Move(t, IF t \in killing THEN "exit" ELSE "put")
  /\ UNCHANGED <<res, sent, started, permits, crashes, killing, parent>>

PutResult(t) ==
  /\ child[t] = "put"
  /\ sent' = [sent EXCEPT ![t] = res[t]]
  /\ Move(t, "release")
  /\ UNCHANGED <<res, started, permits, crashes, killing, parent>>

ReleasePermit(t) ==
  /\ child[t] = "release"
  /\ permits' = IF maxParallel = 0 THEN permits ELSE permits + 1
  /\ Move(t, "exit")
  /\ UNCHANGED <<res, sent, started, crashes, killing, parent>>

Exit(t) ==
  /\ child[t] = "exit"
  /\ Move(t, "dead")
  /\ UNCHANGED <<res, sent, started, permits, crashes, killing, parent>>

(* The process dies in or after its step: os._exit, a fatal signal, the    *)
(* out-of-memory killer.                                                   *)
Crash(t) ==
  /\ child[t] \in {"run", "done", "put", "release", "exit"}
  /\ crashes < MaxCrashes /\ crashes' = crashes + 1
  /\ Move(t, "dead")
  /\ UNCHANGED <<res, sent, started, permits, killing, parent>>

(* The steps a child takes of itself; a silent step or a hanging exit may  *)
(* last forever.                                                           *)
ChildStep(t) == \/ AcquirePermit(t) \/ Begin(t) \/ CheckKilling(t)
                \/ PutResult(t) \/ ReleasePermit(t)
                \/ EndStep(t) \/ Exit(t)
-----------------------------------------------------------------------------
(*                               The parent                                *)

Goto(p) == pc' = p

(* task.start() for each step in turn. *)
Start ==
  /\ pc = "start" /\ w < N
  /\ w' = w + 1
  /\ Move(w + 1, "sem")
  /\ UNCHANGED <<res, sent, started, permits, crashes, killing,
                 pc, alive, got, errs, sig, kset, todo, back, fg, outcome>>

(* An exception of task.start() is raised before the try statement: the    *)
(* tasks that were started are left alone.                                 *)
StartFails ==
  /\ ForkMayFail /\ pc = "start" /\ w < N
  /\ Goto("over") /\ outcome' = "start"
  /\ UNCHANGED <<children, killing, w, alive, got, errs, sig, kset, todo, back, fg>>

EnterBlock ==
  /\ pc = "start" /\ w = N
  /\ Goto("body")
  /\ UNCHANGED <<children, killing, w, alive, got, errs, sig, kset, todo, back, fg, outcome>>

(* _KillChildren(ts) begins. *)
BeginKill(ts, next) ==
  /\ Goto("signal")
  /\ sig' = "xcpu" /\ kset' = ts /\ todo' = ts /\ back' = next

(* The block ends.  With halt_on_error an exception of the block means     *)
(* that no step is waited for.                                             *)
LeaveBlock ==
  /\ pc = "body"
  /\ fg' \in IF MayRaise THEN BOOLEAN ELSE {FALSE}
  /\ w' = 0
  /\ IF fg' /\ haltOnError
     THEN IF N > 0 THEN BeginKill(Tasks, "finish")
                   ELSE Goto("finish") /\ UNCHANGED <<sig, kset, todo, back>>
     ELSE Goto("loop") /\ UNCHANGED <<sig, kset, todo, back>>
  /\ UNCHANGED <<children, killing, alive, got, errs, outcome>>

(* Mutant: the loop runs once too often. *)
NextTaskTooOften ==
  /\ pc = "loop"
  /\ IF w <= N THEN w' = w + 1 /\ Goto("startup")
               ELSE Goto("finish") /\ UNCHANGED w
  /\ got' = FALSE
  /\ UNCHANGED <<children, killing, alive, errs, sig, kset, todo, back, fg, outcome>>

(* bg_tasks.popleft() and the beginning of Wait. *)
NextTask ==
  /\ pc = "loop"
  /\ IF w < N THEN w' = w + 1 /\ Goto("startup")
              ELSE Goto("finish") /\ UNCHANGED w
  /\ got' = FALSE
  /\ UNCHANGED <<children, killing, alive, errs, sig, kset, todo, back, fg, outcome>>

(* Wait: _WaitForStartup. *)
SeeStarted ==
  /\ pc = "startup" /\ w \in started
  /\ Goto("poll")
  /\ UNCHANGED <<children, killing, w, alive, got, errs, sig, kset, todo, back, fg, outcome>>

(* STARTUP_TIMEOUT is over, in Wait or in Kill.  A child that can have a   *)
(* permit starts well within five minutes; one that finds no permit may    *)
(* wait for longer.  The AssertionError leaves the context manager.        *)
Starved(t) == child[t] = "sem" /\ maxParallel > 0 /\ permits = 0

First(ts) == CHOOSE t \in ts : \A u \in ts : t <= u

StartupTimeout ==
  /\ \/ pc = "startup" /\ Starved(w)
     \/ pc = "signal" /\ todo # {} /\ First(todo) \in killing /\ Starved(First(todo))
  /\ Goto("over") /\ outcome' = "assertion"
  /\ UNCHANGED <<children, killing, w, alive, got, errs, sig, kset, todo, back, fg>>

(* Wait: is_alive() first, the queue after it. *)
Poll ==
  /\ pc = "poll"
  /\ alive' = (child[w] \notin Gone)
  /\ Goto("get")
  /\ UNCHANGED <<children, killing, w, got, errs, sig, kset, todo, back, fg, outcome>>

AddError(t, e) == errs' = [errs EXCEPT ![t] = @ \cup {e}]

GetResult ==
  /\ pc = "get" /\ sent[w] # "none"
  /\ got' = TRUE
  /\ IF sent[w] = "err" THEN AddError(w, "task") ELSE UNCHANGED errs
  /\ Goto("join")
  /\ UNCHANGED <<children, killing, w, alive, sig, kset, todo, back, fg, outcome>>

(* Mutant: the queue of a process that is not alive is not looked at. *)
GetNothingFromDead ==
  /\ pc = "get" /\ (sent[w] = "none" \/ ~alive)
  /\ Goto(IF alive THEN "poll" ELSE "join")
  /\ UNCHANGED <<children, killing, w, alive, got, errs, sig, kset, todo, back, fg, outcome>>

(* Nothing came for PRINT_INTERVAL: poll again, unless is_alive() was      *)
(* False before the queue was looked at.                                   *)
GetNothing ==
  /\ pc = "get" /\ sent[w] = "none"
  /\ Goto(IF alive THEN "poll" ELSE "join")
  /\ UNCHANGED <<children, killing, w, alive, got, errs, sig, kset, todo, back, fg, outcome>>

(* Mutant: the silent process is killed and not reported. *)
SilentTimeoutUnreported ==
  /\ pc = "get" /\ sent[w] = "none" /\ alive /\ w \in MaySilent
  /\ BeginKill({w}, "next")
  /\ UNCHANGED <<children, killing, w, alive, got, errs, fg, outcome>>

(* Mutant: a process that exited without a result counts as finished. *)
JoinedAnyway ==
  /\ pc = "join" /\ child[w] \in Gone
  /\ Goto("next")
  /\ UNCHANGED <<children, killing, w, alive, got, errs, sig, kset, todo, back, fg, outcome>>

(* ... or the process has been silent for SILENT_TIMEOUT. *)
SilentTimeout ==
  /\ pc = "get" /\ sent[w] = "none" /\ alive /\ w \in MaySilent
  /\ AddError(w, "silent")
  /\ BeginKill({w}, "next")
  /\ UNCHANGED <<children, killing, w, alive, got, fg, outcome>>

Joined ==
  /\ pc = "join" /\ child[w] \in Gone
  /\ IF got THEN UNCHANGED errs ELSE AddError(w, "unexpected")
  /\ Goto("next")
  /\ UNCHANGED <<children, killing, w, alive, got, sig, kset, todo, back, fg, outcome>>

(* EXIT_TIMEOUT is over. *)
JoinTimeout ==
  /\ pc = "join" /\ child[w] \notin Gone /\ w \in MayHang
  /\ AddError(w, "exit")
  /\ BeginKill({w}, "next")
  /\ UNCHANGED <<children, killing, w, alive, got, fg, outcome>>

(* Mutant: halt_on_error leaves the loop and kills nobody. *)
CollectErrorsOnly ==
  /\ pc = "next"
  /\ Goto(IF errs[w] # {} /\ haltOnError THEN "finish" ELSE "loop")
  /\ UNCHANGED <<children, killing, w, alive, got, errs, sig, kset, todo, back, fg, outcome>>

(* Wait returned the errors of the task. *)
CollectErrors ==
  /\ pc = "next"
  /\ IF errs[w] # {} /\ haltOnError
     THEN IF w < N THEN BeginKill((w + 1)..N, "finish")
                   ELSE Goto("finish") /\ UNCHANGED <<sig, kset, todo, back>>
     ELSE Goto("loop") /\ UNCHANGED <<sig, kset, todo, back>>
  /\ UNCHANGED <<children, killing, w, alive, got, errs, fg, outcome>>

Finish ==
  /\ pc = "finish"
  /\ Goto("over")
  /\ outcome' = IF fg THEN "foreground"
                ELSE IF \E t \in Tasks : errs[t] # {} THEN "raised"
                ELSE "returned"
  /\ UNCHANGED <<children, killing, w, alive, got, errs, sig, kset, todo, back, fg>>
-----------------------------------------------------------------------------
(*           _KillChildren: SIGXCPU, SIGTERM, then SIGKILL to all          *)

(* Kill: the event is set before the task is known to have started. *)
MarkKilling ==
  /\ pc = "signal" /\ todo # {} /\ First(todo) \notin killing
  /\ killing' = killing \cup {First(todo)}
  /\ UNCHANGED <<children, parent>>

(* SIGXCPU only prints a traceback.  SIGTERM kills the process, or raises  *)
(* an exception in its step, or is ignored.  SIGKILL always kills.         *)
SendSignal(t) ==
  /\ pc = "signal" /\ todo # {} /\ t = First(todo)
  /\ t \in killing /\ t \in started
  /\ \/ /\ sig # "kill" \/ child[t] \in Gone
        /\ UNCHANGED <<child, res>>
     \/ /\ sig \in {"term", "kill"} /\ child[t] \notin Gone
        /\ Move(t, "slain") /\ UNCHANGED res
     \/ /\ sig = "term" /\ child[t] = "run"
        /\ Move(t, "done") /\ res' = [res EXCEPT ![t] = "err"]
  /\ todo' = todo \ {t}
  /\ Goto(IF todo = {t} THEN "reap" ELSE "signal")
  /\ UNCHANGED <<sent, started, permits, crashes, killing,
                 w, alive, got, errs, sig, kset, back, fg, outcome>>

(* All tasks exited in time. *)
Reap ==
  /\ pc = "reap" /\ \A t \in kset : child[t] \in Gone
  /\ kset' = {} /\ Goto(back)
  /\ UNCHANGED <<children, killing, w, alive, got, errs, sig, todo, back, fg, outcome>>

(* Mutant: SIGTERM is sent again and again. *)
ReapTimeoutTerm ==
  /\ pc = "reap" /\ sig # "kill"
  /\ kset' = {t \in kset : child[t] \notin Gone} /\ kset' # {}
  /\ todo' = kset'
  /\ sig' = "term"
  /\ Goto("signal")
  /\ UNCHANGED <<children, killing, w, alive, got, errs, back, fg, outcome>>

(* Some did not; they get the next signal. *)
ReapTimeout ==
  /\ pc = "reap" /\ sig # "kill"
  /\ kset' = {t \in kset : child[t] \notin Gone} /\ kset' # {}
  /\ todo' = kset'
  /\ sig' = IF sig = "xcpu" THEN "term" ELSE "kill"
  /\ Goto("signal")
  /\ UNCHANGED <<children, killing, w, alive, got, errs, back, fg, outcome>>
-----------------------------------------------------------------------------
ParentStep ==
  \/ Start \/ EnterBlock \/ LeaveBlock \/ NextTask \/ SeeStarted \/ StartupTimeout
  \/ Poll \/ GetResult \/ GetNothing \/ SilentTimeout \/ Joined \/ JoinTimeout
  \/ CollectErrors \/ Finish \/ MarkKilling \/ Reap \/ ReapTimeout
  \/ \E t \in Tasks : SendSignal(t)

(* The caller of the context manager has left it. *)
Over == pc = "over" /\ UNCHANGED vars

Next == \/ Over
        \/ /\ \/ ParentStep \/ StartFails
              \/ \E t \in Tasks : ChildStep(t) \/ Crash(t)
           /\ UNCHANGED args

(* Processes are scheduled.  Only steps that may be silent run forever and *)
(* only processes that may hang never exit; the silence of the former is   *)
(* noticed sooner or later, since it is measured by the clock.             *)
ChildMoves(t) == /\ ChildStep(t) /\ UNCHANGED args
                 /\ child[t] = "run" => t \notin MaySilent
                 /\ child[t] = "exit" => t \notin MayHang

Fairness == /\ WF_vars(ParentStep /\ UNCHANGED args)
            /\ SF_vars(SilentTimeout /\ UNCHANGED args)
            /\ \A t \in Tasks : WF_vars(ChildMoves(t))

Spec == Init /\ [][Next]_vars /\ Fairness
-----------------------------------------------------------------------------
TypeOK ==
  /\ maxParallel \in Limits /\ haltOnError \in BOOLEAN
  /\ child \in [Tasks -> ChildStates]
  /\ res \in [Tasks -> {"none", "ok", "err"}]
  /\ sent \in [Tasks -> {"none", "ok", "err"}]
  /\ started \subseteq Tasks /\ killing \subseteq Tasks
  /\ permits \in Nat /\ crashes \in 0..MaxCrashes
  /\ pc \in ParentStates /\ w \in 0..N
  /\ alive \in BOOLEAN /\ got \in BOOLEAN /\ fg \in BOOLEAN
  /\ errs \in [Tasks -> SUBSET {"task", "silent", "exit", "unexpected"}]
  /\ sig \in {"none", "xcpu", "term", "kill"}
  /\ kset \subseteq Tasks /\ todo \subseteq kset
  /\ back \in {"next", "finish"}
  /\ outcome \in {"none", "start", "assertion", "foreground", "raised", "returned"}

(* RunParallelSteps never reports success for a step that did not succeed: *)
(* a normal return means that the process of every step put an OK result   *)
(* on its queue, however steps fail, crash, hang, are killed, or exit      *)
(* between two polls.                                                      *)
NoSilentLoss == outcome = "returned" => \A t \in Tasks : sent[t] = "ok"

(* A step whose process put its result is never said to have exited        *)
(* unexpectedly: Wait asks is_alive() before it looks at the queue.        *)
NoFalseAlarm == \A t \in Tasks : "unexpected" \in errs[t] => sent[t] = "none"

(* Without halt_on_error, a failing step keeps no error of another step    *)
(* from being reported.                                                    *)
AllErrorsReported ==
  outcome = "raised" /\ ~haltOnError =>
    \A t \in Tasks : errs[t] = {} => sent[t] = "ok"

(* At most max_parallel children are between acquire and release: a child  *)
(* that dies or is killed there never gives a permit back.  No permit is   *)
(* lost in any other way: however many steps fail, each child that was     *)
(* neither killed nor died of itself gives its permit back.                *)
Holders == {t \in Tasks : child[t] \in Holding}
PermitsBounded ==
  maxParallel > 0 =>
    /\ permits + Cardinality(Holders) <= maxParallel
    /\ maxParallel <= permits + Cardinality(Holders) + crashes + Cardinality(killing)

(* "This function blocks until all steps are completed" (RunParallelSteps, *)
(* parallel.py:660): no process of a step is left when it ends.            *)
NoOrphans == outcome # "none" => \A t \in Tasks : child[t] \in {"new"} \cup Gone

(* The parent ends, whatever its children do. *)
Termination == <>(pc = "over")

(* Without a limit on parallel tasks, and if all of them start, it keeps   *)
(* the promise of StepRunner: no step is running any more when it ends, it *)
(* returns only if all succeeded and raises only if one did not.           *)
Result(t) == IF child[t] \notin Gone THEN "pending"
             ELSE IF child[t] = "dead" /\ sent[t] = "ok" /\ errs[t] = {} THEN "ok"
             ELSE "failed"
Promise == INSTANCE StepRunner WITH Steps <- Tasks,
                                    result <- [t \in Tasks |-> Result(t)]
ImplementsStepRunner ==
  Promise!Init /\ [][ maxParallel = 0 /\ outcome' # "start"
                        => Promise!Next ]_<<[t \in Tasks |-> Result(t)], outcome>>
=============================================================================
