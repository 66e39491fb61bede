------------------------ MODULE ParallelTasksProofs ------------------------
(***************************************************************************)
(* The verdict of the parent of ParallelTasks, for any number of steps,    *)
(* with any limit, crashes, kills, time-outs and with or without           *)
(* halt_on_error: success is never reported for a step that did not        *)
(* succeed, a finished step is never said to have died, every error is     *)
(* reported, the limit is kept, and so is what StepRunner promises.        *)
(***************************************************************************)
EXTENDS ParallelTasks, FiniteSetTheorems, WellFoundedInduction, TLAPS

(* The part of TypeOK the verdict depends on. *)
Types ==
  /\ child \in [Tasks -> ChildStates]
  /\ res \in [Tasks -> {"none", "ok", "err"}]
  /\ sent \in [Tasks -> {"none", "ok", "err"}]
  /\ errs \in [Tasks -> SUBSET {"task", "silent", "exit", "unexpected"}]
  /\ pc \in ParentStates
  /\ w \in 0..N
  /\ kset \subseteq Tasks /\ todo \subseteq Tasks

(* A result is put once, by a process that then has nothing left to do but *)
(* to release its permit and to exit.                                      *)
SentInv ==
  \A t \in Tasks :
    /\ child[t] \in {"new", "sem", "ready", "run", "done", "put"} => sent[t] = "none"
    /\ pc = "start" /\ t > w => child[t] = "new"

(* The parent has judged a task: it has its result or an error for it.     *)
Judged(t) == errs[t] # {} \/ sent[t] = "ok"

Waiting == pc \in {"startup", "poll", "get", "join"}
Killing(next) == pc \in {"signal", "reap"} /\ back = next

(* Which tasks are judged at which point of the waiting loop. *)
JudgedInv ==
  /\ Waiting \/ pc = "next" \/ Killing("next") => w \in Tasks
  /\ Waiting => \A t \in 1..(w - 1) : Judged(t)
  /\ pc \in {"loop", "next"} \/ Killing("next") => \A t \in 1..w : Judged(t)
  /\ Killing("finish") => fg \/ \E t \in Tasks : errs[t] # {}
  /\ pc = "finish" => \/ fg
                      \/ \E t \in Tasks : errs[t] # {}
                      \/ \A t \in Tasks : Judged(t)
  /\ back \in {"next", "finish"}

(* What Wait knows of the task it waits for: its process was seen to have  *)
(* exited before the queue was found empty, or its result was taken.       *)
PollInv ==
  /\ pc \in {"startup", "poll", "get"} => ~got
  /\ pc = "get" => alive \/ child[w] \in Gone
  /\ pc = "join" => \/ got /\ Judged(w) /\ sent[w] # "none"
                    \/ ~got /\ child[w] \in Gone /\ sent[w] = "none"

AlarmInv ==
  \A t \in Tasks : "unexpected" \in errs[t] => child[t] \in Gone /\ sent[t] = "none"

IInv == Types /\ SentInv /\ JudgedInv /\ PollInv /\ AlarmInv /\ NoSilentLoss

LEMMA InitIInv == Init => IInv
  BY ParallelTasksAssumption
  DEF Init, IInv, Types, SentInv, JudgedInv, PollInv, AlarmInv, NoSilentLoss, Judged,
      Waiting, Killing, Tasks, ChildStates, Holding, Gone, ParentStates

LEMMA NextIInv == IInv /\ [Next]_vars => IInv'
<1> SUFFICES ASSUME IInv, [Next]_vars PROVE IInv'
  OBVIOUS
<1> USE ParallelTasksAssumption DEF IInv, parent, children, Goto, Move, Gone
<1>1. CASE UNCHANGED vars
  BY <1>1 DEF vars, args, Types, SentInv, JudgedInv, PollInv, AlarmInv, NoSilentLoss, Judged,
     Waiting, Killing
<1>2. CASE Start
  <2> USE <1>2 DEF Start
  <2>1. Types'
    BY DEF Types, Tasks, ChildStates, Holding, ParentStates, JudgedInv, Waiting, Killing
  <2>2. SentInv' /\ AlarmInv'
    BY DEF Types, SentInv, AlarmInv, JudgedInv, PollInv, Waiting, Tasks
  <2>3. JudgedInv'
    BY DEF Types, SentInv, JudgedInv, PollInv, Judged, Waiting, Killing, Tasks
  <2>4. PollInv'
    BY DEF Types, SentInv, PollInv, JudgedInv, Judged, Waiting, Tasks
  <2>5. NoSilentLoss'
    BY DEF Types, SentInv, JudgedInv, Judged, NoSilentLoss
  <2> QED
    BY <2>1, <2>2, <2>3, <2>4, <2>5
<1>3. CASE StartFails
  <2> USE <1>3 DEF StartFails
  <2>1. Types'
    BY DEF Types, Tasks, ChildStates, Holding, ParentStates, JudgedInv, Waiting, Killing
  <2>2. SentInv' /\ AlarmInv'
    BY DEF Types, SentInv, AlarmInv, JudgedInv, PollInv, Waiting, Tasks
  <2>3. JudgedInv'
    BY DEF Types, SentInv, JudgedInv, PollInv, Judged, Waiting, Killing, Tasks
  <2>4. PollInv'
    BY DEF Types, SentInv, PollInv, JudgedInv, Judged, Waiting, Tasks
  <2>5. NoSilentLoss'
    BY DEF Types, SentInv, JudgedInv, Judged, NoSilentLoss
  <2> QED
    BY <2>1, <2>2, <2>3, <2>4, <2>5
<1>4. CASE EnterBlock
  <2> USE <1>4 DEF EnterBlock
  <2>1. Types'
    BY DEF Types, Tasks, ChildStates, Holding, ParentStates, JudgedInv, Waiting, Killing
  <2>2. SentInv' /\ AlarmInv'
    BY DEF Types, SentInv, AlarmInv, JudgedInv, PollInv, Waiting, Tasks
  <2>3. JudgedInv'
    BY DEF Types, SentInv, JudgedInv, PollInv, Judged, Waiting, Killing, Tasks
  <2>4. PollInv'
    BY DEF Types, SentInv, PollInv, JudgedInv, Judged, Waiting, Tasks
  <2>5. NoSilentLoss'
    BY DEF Types, SentInv, JudgedInv, Judged, NoSilentLoss
  <2> QED
    BY <2>1, <2>2, <2>3, <2>4, <2>5
<1>5. CASE LeaveBlock
  <2> USE <1>5 DEF LeaveBlock, BeginKill
  <2>1. Types'
    <3>1. pc' \in {"signal", "finish", "loop"} /\ w' = 0
      BY Zenon DEF BeginKill
    <3>2. /\ kset' \in {Tasks, kset}
          /\ todo' \in {Tasks, todo}
      BY Zenon DEF BeginKill
    <3> QED
      BY <3>1, <3>2 DEF Types, ParentStates
  <2>2. SentInv' /\ AlarmInv'
    BY DEF Types, SentInv, AlarmInv, JudgedInv, PollInv, Waiting, Tasks
  <2>3. JudgedInv'
    BY DEF Types, SentInv, JudgedInv, PollInv, Judged, Waiting, Killing, Tasks
  <2>4. PollInv'
    BY DEF Types, SentInv, PollInv, JudgedInv, Judged, Waiting, Tasks
  <2>5. NoSilentLoss'
    BY DEF Types, SentInv, JudgedInv, Judged, NoSilentLoss
  <2> QED
    BY <2>1, <2>2, <2>3, <2>4, <2>5
<1>6. CASE NextTask
  <2> USE <1>6 DEF NextTask
  <2>1. Types'
    BY DEF Types, Tasks, ChildStates, Holding, ParentStates, JudgedInv, Waiting, Killing
  <2>2. SentInv' /\ AlarmInv'
    BY DEF Types, SentInv, AlarmInv, JudgedInv, PollInv, Waiting, Tasks
  <2>3. JudgedInv'
    BY DEF Types, SentInv, JudgedInv, PollInv, Judged, Waiting, Killing, Tasks
  <2>4. PollInv'
    BY DEF Types, SentInv, PollInv, JudgedInv, Judged, Waiting, Tasks
  <2>5. NoSilentLoss'
    BY DEF Types, SentInv, JudgedInv, Judged, NoSilentLoss
  <2> QED
    BY <2>1, <2>2, <2>3, <2>4, <2>5
<1>7. CASE SeeStarted
  <2> USE <1>7 DEF SeeStarted
  <2>1. Types'
    BY DEF Types, Tasks, ChildStates, Holding, ParentStates, JudgedInv, Waiting, Killing
  <2>2. SentInv' /\ AlarmInv'
    BY DEF Types, SentInv, AlarmInv, JudgedInv, PollInv, Waiting, Tasks
  <2>3. JudgedInv'
    BY DEF Types, SentInv, JudgedInv, PollInv, Judged, Waiting, Killing, Tasks
  <2>4. PollInv'
    BY DEF Types, SentInv, PollInv, JudgedInv, Judged, Waiting, Tasks
  <2>5. NoSilentLoss'
    BY DEF Types, SentInv, JudgedInv, Judged, NoSilentLoss
  <2> QED
    BY <2>1, <2>2, <2>3, <2>4, <2>5
<1>8. CASE StartupTimeout
  <2> USE <1>8 DEF StartupTimeout
  <2>1. Types'
    BY DEF Types, Tasks, ChildStates, Holding, ParentStates, JudgedInv, Waiting, Killing
  <2>2. SentInv' /\ AlarmInv'
    BY DEF Types, SentInv, AlarmInv, JudgedInv, PollInv, Waiting, Tasks
  <2>3. JudgedInv'
    BY DEF Types, SentInv, JudgedInv, PollInv, Judged, Waiting, Killing, Tasks
  <2>4. PollInv'
    BY DEF Types, SentInv, PollInv, JudgedInv, Judged, Waiting, Tasks
  <2>5. NoSilentLoss'
    BY DEF Types, SentInv, JudgedInv, Judged, NoSilentLoss
  <2> QED
    BY <2>1, <2>2, <2>3, <2>4, <2>5
<1>9. CASE Poll
  <2> USE <1>9 DEF Poll
  <2>1. Types'
    BY DEF Types, Tasks, ChildStates, Holding, ParentStates, JudgedInv, Waiting, Killing
  <2>2. SentInv' /\ AlarmInv'
    BY DEF Types, SentInv, AlarmInv, JudgedInv, PollInv, Waiting, Tasks
  <2>3. JudgedInv'
    BY DEF Types, SentInv, JudgedInv, PollInv, Judged, Waiting, Killing, Tasks
  <2>4. PollInv'
    BY DEF Types, SentInv, PollInv, JudgedInv, Judged, Waiting, Tasks
  <2>5. NoSilentLoss'
    BY DEF Types, SentInv, JudgedInv, Judged, NoSilentLoss
  <2> QED
    BY <2>1, <2>2, <2>3, <2>4, <2>5
<1>10. CASE GetResult
  <2> USE <1>10 DEF GetResult, AddError
  <2>1. Types'
    BY DEF Types, Tasks, ChildStates, Holding, ParentStates, JudgedInv, Waiting, Killing
  <2>2. SentInv' /\ AlarmInv'
    BY DEF Types, SentInv, AlarmInv, JudgedInv, PollInv, Waiting, Tasks
  <2>3. JudgedInv'
    BY DEF Types, SentInv, JudgedInv, PollInv, Judged, Waiting, Killing, Tasks
  <2>4. PollInv'
    <3>1. pc' = "join" /\ got' /\ sent'[w'] # "none" /\ w' = w /\ sent' = sent
      BY Zenon
    <3>2. w \in Tasks
      BY DEF JudgedInv, Waiting
    <3>3. CASE sent[w] = "err"
      <4>1. errs'[w] # {}
        BY <3>2, <3>3 DEF Types
      <4> QED
        BY <3>1, <4>1 DEF PollInv, Judged
    <3>4. CASE sent[w] = "ok"
      BY <3>1, <3>4 DEF PollInv, Judged
    <3> QED
      BY <3>2, <3>3, <3>4 DEF Types
  <2>5. NoSilentLoss'
    BY DEF Types, SentInv, JudgedInv, Judged, NoSilentLoss
  <2> QED
    BY <2>1, <2>2, <2>3, <2>4, <2>5
<1>11. CASE GetNothing
  <2> USE <1>11 DEF GetNothing
  <2>1. Types'
    BY DEF Types, Tasks, ChildStates, Holding, ParentStates, JudgedInv, Waiting, Killing
  <2>2. SentInv' /\ AlarmInv'
    BY DEF Types, SentInv, AlarmInv, JudgedInv, PollInv, Waiting, Tasks
  <2>3. JudgedInv'
    BY DEF Types, SentInv, JudgedInv, PollInv, Judged, Waiting, Killing, Tasks
  <2>4. PollInv'
    <3>1. pc' = "join" => ~alive
      BY Zenon
    <3>2. pc' \in {"poll", "join"}
      BY Zenon
    <3>3. pc = "get" /\ sent[w] = "none" /\ UNCHANGED <<child, sent, w>>
      OBVIOUS
    <3>4. (~alive => child[w] \in Gone) /\ ~got'
      BY <3>3 DEF PollInv
    <3> HIDE <1>11 DEF GetNothing
    <3> QED
      BY <3>1, <3>2, <3>3, <3>4 DEF PollInv
  <2>5. NoSilentLoss'
    BY DEF Types, SentInv, JudgedInv, Judged, NoSilentLoss
  <2> QED
    BY <2>1, <2>2, <2>3, <2>4, <2>5
<1>12. CASE SilentTimeout
  <2> USE <1>12 DEF SilentTimeout, BeginKill, AddError
  <2>1. Types'
    BY DEF Types, Tasks, ChildStates, Holding, ParentStates, JudgedInv, Waiting, Killing
  <2>2. SentInv' /\ AlarmInv'
    BY DEF Types, SentInv, AlarmInv, JudgedInv, PollInv, Waiting, Tasks
  <2>3. JudgedInv'
    <3>1. /\ w \in Tasks /\ errs'[w] # {} /\ UNCHANGED <<w, sent, fg>>
          /\ \A t \in Tasks \ {w} : errs'[t] = errs[t]
          /\ pc' = "signal" /\ back' = "next"
      BY DEF Types, JudgedInv, Waiting
    <3>2. \A t \in 1..(w - 1) : Judged(t)
      BY DEF JudgedInv, Waiting
    <3>3. \A t \in 1..w : Judged(t)'
      BY <3>1, <3>2 DEF Judged, Tasks
    <3> QED
      BY <3>1, <3>3 DEF JudgedInv, Waiting, Killing
  <2>4. PollInv'
    BY DEF Types, SentInv, PollInv, JudgedInv, Judged, Waiting, Tasks
  <2>5. NoSilentLoss'
    BY DEF Types, SentInv, JudgedInv, Judged, NoSilentLoss
  <2> QED
    BY <2>1, <2>2, <2>3, <2>4, <2>5
<1>13. CASE Joined
  <2> USE <1>13 DEF Joined, AddError
  <2>1. Types'
    BY DEF Types, Tasks, ChildStates, Holding, ParentStates, JudgedInv, Waiting, Killing
  <2>2. SentInv' /\ AlarmInv'
    BY DEF Types, SentInv, AlarmInv, JudgedInv, PollInv, Waiting, Tasks
  <2>3. JudgedInv'
    <3>1. /\ w \in Tasks /\ UNCHANGED <<w, sent, fg, back>> /\ pc' = "next"
          /\ \A t \in Tasks : errs[t] # {} => errs'[t] # {}
      BY DEF Types, JudgedInv, Waiting
    <3>2. \A t \in 1..(w - 1) : Judged(t)
      BY DEF JudgedInv, Waiting
    <3>3. Judged(w)'
      BY <3>1 DEF PollInv, Judged, Types
    <3>4. \A t \in 1..w : Judged(t)'
      BY <3>1, <3>2, <3>3 DEF Judged, Tasks
    <3> QED
      BY <3>1, <3>4 DEF JudgedInv, Waiting, Killing
  <2>4. PollInv'
    BY DEF Types, SentInv, PollInv, JudgedInv, Judged, Waiting, Tasks
  <2>5. NoSilentLoss'
    BY DEF Types, SentInv, JudgedInv, Judged, NoSilentLoss
  <2> QED
    BY <2>1, <2>2, <2>3, <2>4, <2>5
<1>14. CASE JoinTimeout
  <2> USE <1>14 DEF JoinTimeout, BeginKill, AddError
  <2>1. Types'
    BY DEF Types, Tasks, ChildStates, Holding, ParentStates, JudgedInv, Waiting, Killing
  <2>2. SentInv' /\ AlarmInv'
    BY DEF Types, SentInv, AlarmInv, JudgedInv, PollInv, Waiting, Tasks
  <2>3. JudgedInv'
    BY DEF Types, SentInv, JudgedInv, PollInv, Judged, Waiting, Killing, Tasks
  <2>4. PollInv'
    BY DEF Types, SentInv, PollInv, JudgedInv, Judged, Waiting, Tasks
  <2>5. NoSilentLoss'
    BY DEF Types, SentInv, JudgedInv, Judged, NoSilentLoss
  <2> QED
    BY <2>1, <2>2, <2>3, <2>4, <2>5
<1>15. CASE CollectErrors
  <2> USE <1>15 DEF CollectErrors, BeginKill
  <2>1. Types'
    <3>1. pc' \in {"signal", "finish", "loop"} /\ w' = w
      BY Zenon DEF BeginKill
    <3>2. /\ kset' \in {(w + 1)..N, kset}
          /\ todo' \in {(w + 1)..N, todo}
      BY Zenon DEF BeginKill
    <3>3. (w + 1)..N \subseteq Tasks
      BY DEF Types, Tasks
    <3> QED
      BY <3>1, <3>2, <3>3 DEF Types, ParentStates
  <2>2. SentInv' /\ AlarmInv'
    BY DEF Types, SentInv, AlarmInv, JudgedInv, PollInv, Waiting, Tasks
  <2>3. JudgedInv'
    BY DEF Types, SentInv, JudgedInv, PollInv, Judged, Waiting, Killing, Tasks
  <2>4. PollInv'
    BY DEF Types, SentInv, PollInv, JudgedInv, Judged, Waiting, Tasks
  <2>5. NoSilentLoss'
    BY DEF Types, SentInv, JudgedInv, Judged, NoSilentLoss
  <2> QED
    BY <2>1, <2>2, <2>3, <2>4, <2>5
<1>16. CASE Finish
  <2> USE <1>16 DEF Finish
  <2>1. Types'
    BY DEF Types, Tasks, ChildStates, Holding, ParentStates, JudgedInv, Waiting, Killing
  <2>2. SentInv' /\ AlarmInv'
    BY DEF Types, SentInv, AlarmInv, JudgedInv, PollInv, Waiting, Tasks
  <2>3. JudgedInv'
    BY DEF Types, SentInv, JudgedInv, PollInv, Judged, Waiting, Killing, Tasks
  <2>4. PollInv'
    BY DEF Types, SentInv, PollInv, JudgedInv, Judged, Waiting, Tasks
  <2>5. NoSilentLoss'
    BY DEF Types, SentInv, JudgedInv, Judged, NoSilentLoss
  <2> QED
    BY <2>1, <2>2, <2>3, <2>4, <2>5
<1>17. CASE MarkKilling
  <2> USE <1>17 DEF MarkKilling
  <2>1. Types'
    BY DEF Types, Tasks, ChildStates, Holding, ParentStates, JudgedInv, Waiting, Killing
  <2>2. SentInv' /\ AlarmInv'
    BY DEF Types, SentInv, AlarmInv, JudgedInv, PollInv, Waiting, Tasks
  <2>3. JudgedInv'
    BY DEF Types, SentInv, JudgedInv, PollInv, Judged, Waiting, Killing, Tasks
  <2>4. PollInv'
    BY DEF Types, SentInv, PollInv, JudgedInv, Judged, Waiting, Tasks
  <2>5. NoSilentLoss'
    BY DEF Types, SentInv, JudgedInv, Judged, NoSilentLoss
  <2> QED
    BY <2>1, <2>2, <2>3, <2>4, <2>5
<1>18. CASE Reap
  <2> USE <1>18 DEF Reap
  <2>1. Types'
    BY DEF Types, Tasks, ChildStates, Holding, ParentStates, JudgedInv, Waiting, Killing
  <2>2. SentInv' /\ AlarmInv'
    BY DEF Types, SentInv, AlarmInv, JudgedInv, PollInv, Waiting, Tasks
  <2>3. JudgedInv'
    BY DEF Types, SentInv, JudgedInv, PollInv, Judged, Waiting, Killing, Tasks
  <2>4. PollInv'
    BY DEF Types, SentInv, PollInv, JudgedInv, Judged, Waiting, Tasks
  <2>5. NoSilentLoss'
    BY DEF Types, SentInv, JudgedInv, Judged, NoSilentLoss
  <2> QED
    BY <2>1, <2>2, <2>3, <2>4, <2>5
<1>19. CASE ReapTimeout
  <2> USE <1>19 DEF ReapTimeout
  <2>1. Types'
    BY DEF Types, Tasks, ChildStates, Holding, ParentStates, JudgedInv, Waiting, Killing
  <2>2. SentInv' /\ AlarmInv'
    BY DEF Types, SentInv, AlarmInv, JudgedInv, PollInv, Waiting, Tasks
  <2>3. JudgedInv'
    BY DEF Types, SentInv, JudgedInv, PollInv, Judged, Waiting, Killing, Tasks
  <2>4. PollInv'
    BY DEF Types, SentInv, PollInv, JudgedInv, Judged, Waiting, Tasks
  <2>5. NoSilentLoss'
    BY DEF Types, SentInv, JudgedInv, Judged, NoSilentLoss
  <2> QED
    BY <2>1, <2>2, <2>3, <2>4, <2>5
<1>20. ASSUME NEW t \in Tasks, AcquirePermit(t) PROVE IInv'
  <2> USE <1>20 DEF AcquirePermit
  <2>1. Types'
    BY DEF Types, Tasks, ChildStates, Holding, ParentStates, JudgedInv, Waiting, Killing
  <2>2. SentInv' /\ AlarmInv'
    BY DEF Types, SentInv, AlarmInv, JudgedInv, PollInv, Waiting, Tasks
  <2>3. JudgedInv'
    BY DEF Types, SentInv, JudgedInv, PollInv, Judged, Waiting, Killing, Tasks
  <2>4. PollInv'
    BY DEF Types, SentInv, PollInv, JudgedInv, Judged, Waiting, Tasks
  <2>5. NoSilentLoss'
    BY DEF Types, SentInv, JudgedInv, Judged, NoSilentLoss
  <2> QED
    BY <2>1, <2>2, <2>3, <2>4, <2>5
<1>21. ASSUME NEW t \in Tasks, Begin(t) PROVE IInv'
  <2> USE <1>21 DEF Begin
  <2>1. Types'
    BY DEF Types, Tasks, ChildStates, Holding, ParentStates, JudgedInv, Waiting, Killing
  <2>2. SentInv' /\ AlarmInv'
    BY DEF Types, SentInv, AlarmInv, JudgedInv, PollInv, Waiting, Tasks
  <2>3. JudgedInv'
    BY DEF Types, SentInv, JudgedInv, PollInv, Judged, Waiting, Killing, Tasks
  <2>4. PollInv'
    BY DEF Types, SentInv, PollInv, JudgedInv, Judged, Waiting, Tasks
  <2>5. NoSilentLoss'
    BY DEF Types, SentInv, JudgedInv, Judged, NoSilentLoss
  <2> QED
    BY <2>1, <2>2, <2>3, <2>4, <2>5
<1>22. ASSUME NEW t \in Tasks, EndStep(t) PROVE IInv'
  <2> USE <1>22 DEF EndStep
  <2>1. Types'
    BY DEF Types, Tasks, ChildStates, Holding, ParentStates, JudgedInv, Waiting, Killing
  <2>2. SentInv' /\ AlarmInv'
    BY DEF Types, SentInv, AlarmInv, JudgedInv, PollInv, Waiting, Tasks
  <2>3. JudgedInv'
    BY DEF Types, SentInv, JudgedInv, PollInv, Judged, Waiting, Killing, Tasks
  <2>4. PollInv'
    BY DEF Types, SentInv, PollInv, JudgedInv, Judged, Waiting, Tasks
  <2>5. NoSilentLoss'
    BY DEF Types, SentInv, JudgedInv, Judged, NoSilentLoss
  <2> QED
    BY <2>1, <2>2, <2>3, <2>4, <2>5
<1>23. ASSUME NEW t \in Tasks, CheckKilling(t) PROVE IInv'
  <2> USE <1>23 DEF CheckKilling
  <2>1. Types'
    BY DEF Types, Tasks, ChildStates, Holding, ParentStates, JudgedInv, Waiting, Killing
  <2>2. SentInv' /\ AlarmInv'
    BY DEF Types, SentInv, AlarmInv, JudgedInv, PollInv, Waiting, Tasks
  <2>3. JudgedInv'
    BY DEF Types, SentInv, JudgedInv, PollInv, Judged, Waiting, Killing, Tasks
  <2>4. PollInv'
    BY DEF Types, SentInv, PollInv, JudgedInv, Judged, Waiting, Tasks
  <2>5. NoSilentLoss'
    BY DEF Types, SentInv, JudgedInv, Judged, NoSilentLoss
  <2> QED
    BY <2>1, <2>2, <2>3, <2>4, <2>5
<1>24. ASSUME NEW t \in Tasks, PutResult(t) PROVE IInv'
  <2> USE <1>24 DEF PutResult
  <2>1. Types'
    BY DEF Types, Tasks, ChildStates, Holding, ParentStates, JudgedInv, Waiting, Killing
  <2>2. SentInv' /\ AlarmInv'
    BY DEF Types, SentInv, AlarmInv, JudgedInv, PollInv, Waiting, Tasks
  <2>3. JudgedInv'
    BY DEF Types, SentInv, JudgedInv, PollInv, Judged, Waiting, Killing, Tasks
  <2>4. PollInv'
    BY DEF Types, SentInv, PollInv, JudgedInv, Judged, Waiting, Tasks
  <2>5. NoSilentLoss'
    BY DEF Types, SentInv, JudgedInv, Judged, NoSilentLoss
  <2> QED
    BY <2>1, <2>2, <2>3, <2>4, <2>5
<1>25. ASSUME NEW t \in Tasks, ReleasePermit(t) PROVE IInv'
  <2> USE <1>25 DEF ReleasePermit
  <2>1. Types'
    BY DEF Types, Tasks, ChildStates, Holding, ParentStates, JudgedInv, Waiting, Killing
  <2>2. SentInv' /\ AlarmInv'
    BY DEF Types, SentInv, AlarmInv, JudgedInv, PollInv, Waiting, Tasks
  <2>3. JudgedInv'
    BY DEF Types, SentInv, JudgedInv, PollInv, Judged, Waiting, Killing, Tasks
  <2>4. PollInv'
    BY DEF Types, SentInv, PollInv, JudgedInv, Judged, Waiting, Tasks
  <2>5. NoSilentLoss'
    BY DEF Types, SentInv, JudgedInv, Judged, NoSilentLoss
  <2> QED
    BY <2>1, <2>2, <2>3, <2>4, <2>5
<1>26. ASSUME NEW t \in Tasks, Exit(t) PROVE IInv'
  <2> USE <1>26 DEF Exit
  <2>1. Types'
    BY DEF Types, Tasks, ChildStates, Holding, ParentStates, JudgedInv, Waiting, Killing
  <2>2. SentInv' /\ AlarmInv'
    BY DEF Types, SentInv, AlarmInv, JudgedInv, PollInv, Waiting, Tasks
  <2>3. JudgedInv'
    BY DEF Types, SentInv, JudgedInv, PollInv, Judged, Waiting, Killing, Tasks
  <2>4. PollInv'
    BY DEF Types, SentInv, PollInv, JudgedInv, Judged, Waiting, Tasks
  <2>5. NoSilentLoss'
    BY DEF Types, SentInv, JudgedInv, Judged, NoSilentLoss
  <2> QED
    BY <2>1, <2>2, <2>3, <2>4, <2>5
<1>27. ASSUME NEW t \in Tasks, Crash(t) PROVE IInv'
  <2> USE <1>27 DEF Crash
  <2>1. Types'
    BY DEF Types, Tasks, ChildStates, Holding, ParentStates, JudgedInv, Waiting, Killing
  <2>2. SentInv' /\ AlarmInv'
    BY DEF Types, SentInv, AlarmInv, JudgedInv, PollInv, Waiting, Tasks
  <2>3. JudgedInv'
    BY DEF Types, SentInv, JudgedInv, PollInv, Judged, Waiting, Killing, Tasks
  <2>4. PollInv'
    BY DEF Types, SentInv, PollInv, JudgedInv, Judged, Waiting, Tasks
  <2>5. NoSilentLoss'
    BY DEF Types, SentInv, JudgedInv, Judged, NoSilentLoss
  <2> QED
    BY <2>1, <2>2, <2>3, <2>4, <2>5
<1>28. ASSUME NEW t \in Tasks, SendSignal(t) PROVE IInv'
  <2> USE <1>28 DEF SendSignal
  <2>1. Types'
    BY DEF Types, Tasks, ChildStates, Holding, ParentStates, JudgedInv, Waiting, Killing
  <2>2. SentInv' /\ AlarmInv'
    BY DEF Types, SentInv, AlarmInv, JudgedInv, PollInv, Waiting, Tasks
  <2>3. JudgedInv'
    BY DEF Types, SentInv, JudgedInv, PollInv, Judged, Waiting, Killing, Tasks
  <2>4. PollInv'
    BY DEF Types, SentInv, PollInv, JudgedInv, Judged, Waiting, Tasks
  <2>5. NoSilentLoss'
    BY DEF Types, SentInv, JudgedInv, Judged, NoSilentLoss
  <2> QED
    BY <2>1, <2>2, <2>3, <2>4, <2>5
<1> QED
  BY <1>1, <1>2, <1>3, <1>4, <1>5, <1>6, <1>7, <1>8, <1>9, <1>10, <1>11, <1>12, <1>13, <1>14, <1>15, <1>16, <1>17, <1>18, <1>19, <1>20, <1>21, <1>22, <1>23, <1>24, <1>25, <1>26, <1>27, <1>28 DEF Next, ParentStep, ChildStep, Over

LEMMA SpecIInv == Spec => []IInv
  BY InitIInv, NextIInv, PTL DEF Spec

(* A normal return of RunParallelSteps means that every step put an OK     *)
(* result.                                                                 *)
THEOREM SuccessIsReal == Spec => []NoSilentLoss
  BY SpecIInv, PTL DEF IInv

(* "Exited unexpectedly" is only said of a process that put no result.     *)
LEMMA AlarmIsReal == IInv => NoFalseAlarm
  BY DEF IInv, AlarmInv, NoFalseAlarm
THEOREM NoFinishedStepDied == Spec => []NoFalseAlarm
  BY SpecIInv, AlarmIsReal, PTL
-----------------------------------------------------------------------------
(* What a step does, by what it changes.                                   *)

ChildOnly(t) == \/ AcquirePermit(t) \/ Begin(t) \/ EndStep(t) \/ CheckKilling(t)
                \/ PutResult(t) \/ ReleasePermit(t) \/ Exit(t) \/ Crash(t)

LEMMA NextCases ==
  ASSUME Next
  PROVE  /\ UNCHANGED args
         /\ \/ UNCHANGED vars \/ ParentStep \/ StartFails
            \/ \E t \in Tasks : ChildOnly(t)
  BY DEF Next, Over, ChildStep, ChildOnly, vars

LEMMA ChildKeeps ==
  ASSUME NEW t \in Tasks, ChildOnly(t)
  PROVE  UNCHANGED <<parent, killing>>
  BY DEF ChildOnly, AcquirePermit, Begin, EndStep, CheckKilling, PutResult, ReleasePermit,
     Exit, Crash

(* The parent collects errors and never forgets one, and never touches     *)
(* what was put on a queue; a child puts its result once.                  *)
LEMMA JudgedStays ==
  ASSUME IInv, [Next]_vars, NEW u \in Tasks, Judged(u)
  PROVE  Judged(u)'
<1> USE DEF IInv, Types, Judged, parent, children
<1>1. CASE UNCHANGED vars
  BY <1>1 DEF vars
<1>2. CASE ParentStep \/ StartFails
  <2>1. sent' = sent
    BY <1>2 DEF ParentStep, StartFails, Start, EnterBlock, LeaveBlock, NextTask, SeeStarted,
       StartupTimeout, Poll, GetResult, GetNothing, SilentTimeout, Joined, JoinTimeout,
       CollectErrors, Finish, MarkKilling, Reap, ReapTimeout, SendSignal
  <2>2. CASE GetResult \/ SilentTimeout \/ Joined \/ JoinTimeout
    <3>1. errs' = errs \/ \E e \in {"task", "silent", "exit", "unexpected"} : AddError(w, e)
      BY <2>2 DEF GetResult, SilentTimeout, Joined, JoinTimeout
    <3>2. errs[u] # {} => errs'[u] # {}
      BY <3>1 DEF AddError
    <3> QED BY <2>1, <3>2
  <2>3. CASE ~(GetResult \/ SilentTimeout \/ Joined \/ JoinTimeout)
    <3>1. errs' = errs
      BY <1>2, <2>3 DEF ParentStep, StartFails, Start, EnterBlock, LeaveBlock, NextTask,
         SeeStarted, StartupTimeout, Poll, GetNothing, CollectErrors, Finish, MarkKilling,
         Reap, ReapTimeout, SendSignal
    <3> QED BY <2>1, <3>1
  <2> QED BY <2>2, <2>3
<1>3. ASSUME NEW t \in Tasks, ChildOnly(t) PROVE Judged(u)'
  <2>1. errs' = errs
    BY <1>3, ChildKeeps
  <2>2. CASE PutResult(t)
    <3>1. sent[t] = "none" /\ sent' = [sent EXCEPT ![t] = res[t]]
      BY <2>2 DEF PutResult, SentInv
    <3> QED BY <2>1, <3>1
  <2>3. CASE ~PutResult(t)
    <3>1. sent' = sent
      BY <1>3, <2>3 DEF ChildOnly, AcquirePermit, Begin, EndStep, CheckKilling, ReleasePermit,
         Exit, Crash
    <3> QED BY <2>1, <3>1
  <2> QED BY <2>2, <2>3
<1> QED BY <1>1, <1>2, <1>3, NextCases
-----------------------------------------------------------------------------
(* Without halt_on_error every task is judged before the parent ends.      *)
ReportInv ==
  /\ Killing("finish") => haltOnError
  /\ pc = "finish" \/ outcome = "raised" => haltOnError \/ \A t \in Tasks : Judged(t)

LEMMA InitReportInv == Init => ReportInv
  BY DEF Init, ReportInv, Killing

LEMMA NextReportInv == IInv /\ ReportInv /\ [Next]_vars => ReportInv'
<1> SUFFICES ASSUME IInv, ReportInv, [Next]_vars PROVE ReportInv'
  OBVIOUS
<1> DEFINE All == \A t \in Tasks : Judged(t)
<1>1. All => All'
  BY JudgedStays
<1>2. haltOnError' = haltOnError
  BY NextCases DEF vars, args
<1>3. CASE UNCHANGED <<pc, back, outcome>>
  BY <1>1, <1>2, <1>3 DEF ReportInv, Killing
<1>4. CASE Start \/ EnterBlock \/ SeeStarted \/ StartupTimeout \/ StartFails \/ Poll
  BY <1>1, <1>2, <1>4 DEF ReportInv, Killing, Start, EnterBlock, SeeStarted, StartupTimeout,
     StartFails, Poll, Goto
<1>5. CASE GetResult \/ GetNothing \/ Joined
  BY <1>1, <1>2, <1>5 DEF ReportInv, Killing, GetResult, GetNothing, Joined, Goto
<1>6. CASE SilentTimeout \/ JoinTimeout
  BY <1>1, <1>2, <1>6 DEF ReportInv, Killing, SilentTimeout, JoinTimeout, BeginKill, Goto
<1>7. CASE LeaveBlock \/ CollectErrors
  <2>1. /\ pc' \in {"signal", "finish"} => haltOnError
        /\ pc' \in {"signal", "finish", "loop"}
        /\ outcome' = outcome
    BY <1>7 DEF LeaveBlock, CollectErrors, BeginKill, Goto
  <2> QED BY <1>1, <1>2, <2>1 DEF ReportInv, Killing
<1>8. CASE NextTask
  <2>1. CASE w < N
    BY <1>1, <1>2, <1>8, <2>1 DEF ReportInv, Killing, NextTask, Goto
  <2>2. CASE ~(w < N)
    <3>1. w = N /\ pc = "loop"
      BY <1>8, <2>2, ParallelTasksAssumption DEF NextTask, IInv, Types
    <3>2. All
      BY <3>1 DEF IInv, JudgedInv, Tasks
    <3>3. pc' = "finish" /\ UNCHANGED <<back, outcome>>
      BY <1>8, <2>2 DEF NextTask, Goto
    <3> QED BY <1>1, <3>2, <3>3 DEF ReportInv, Killing
  <2> QED BY <2>1, <2>2
<1>9. CASE Finish
  BY <1>1, <1>2, <1>9 DEF ReportInv, Killing, Finish, Goto
<1>10. CASE Reap
  <2>1. pc = "reap" /\ pc' = back /\ UNCHANGED <<back, outcome>>
    BY <1>10 DEF Reap, Goto
  <2>2. back \in {"next", "finish"}
    BY DEF IInv, JudgedInv
  <2> QED BY <1>1, <1>2, <2>1, <2>2 DEF ReportInv, Killing
<1>11. CASE ReapTimeout \/ \E t \in Tasks : SendSignal(t)
  <2>1. /\ pc \in {"signal", "reap"} /\ pc' \in {"signal", "reap"}
        /\ UNCHANGED <<back, outcome>>
    BY <1>11 DEF ReapTimeout, SendSignal, Goto
  <2> QED BY <1>1, <1>2, <2>1 DEF ReportInv, Killing
<1>12. CASE MarkKilling
  BY <1>3, <1>12 DEF MarkKilling, parent
<1>13. ASSUME NEW t \in Tasks, ChildOnly(t) PROVE ReportInv'
  BY <1>3, <1>13, ChildKeeps DEF parent
<1>14. CASE UNCHANGED vars
  BY <1>3, <1>14 DEF vars, parent
<1> QED
  BY <1>4, <1>5, <1>6, <1>7, <1>8, <1>9, <1>10, <1>11, <1>12, <1>13, <1>14, NextCases
  DEF ParentStep

(* Without halt_on_error no failing step keeps the errors of another from  *)
(* being reported: a task without an error had put an OK result.           *)
THEOREM EveryErrorIsReported == Spec => []AllErrorsReported
<1>1. ReportInv => AllErrorsReported
  BY DEF ReportInv, AllErrorsReported, Judged
<1> QED BY <1>1, SpecIInv, InitReportInv, NextReportInv, PTL DEF Spec
-----------------------------------------------------------------------------
(* The rest of TypeOK. *)
ArgTypes == maxParallel \in Limits /\ haltOnError \in BOOLEAN
ChildTypes == started \subseteq Tasks /\ permits \in Nat /\ crashes \in 0..MaxCrashes
ParentTypes == /\ killing \subseteq Tasks
               /\ alive \in BOOLEAN /\ got \in BOOLEAN /\ fg \in BOOLEAN
               /\ sig \in {"none", "xcpu", "term", "kill"}
               /\ todo \subseteq kset
               /\ outcome \in {"none", "start", "assertion", "foreground", "raised", "returned"}

AllSignalled == pc = "reap" => todo = {}

MoreTypes == ArgTypes /\ ChildTypes /\ ParentTypes /\ AllSignalled

LEMMA InitMoreTypes == Init => MoreTypes
<1> SUFFICES ASSUME Init PROVE MoreTypes
  OBVIOUS
<1>1. ArgTypes
  BY Zenon DEF Init, ArgTypes
<1>2. ChildTypes
  BY ParallelTasksAssumption DEF Init, ChildTypes
<1>3. ParentTypes /\ AllSignalled
  BY DEF Init, ParentTypes, AllSignalled
<1> QED BY <1>1, <1>2, <1>3 DEF MoreTypes

LEMMA ChildTypesStay ==
  ASSUME IInv, MoreTypes, [Next]_vars
  PROVE  ChildTypes'
<1> USE DEF MoreTypes, ArgTypes, ChildTypes
<1>1. CASE UNCHANGED children
  BY <1>1 DEF children
<1>2. CASE ParentStep \/ StartFails \/ UNCHANGED vars
  BY <1>1, <1>2 DEF vars, children, ParentStep, StartFails, Start, EnterBlock, LeaveBlock,
     NextTask, SeeStarted, StartupTimeout, Poll, GetResult, GetNothing, SilentTimeout, Joined,
     JoinTimeout, CollectErrors, Finish, MarkKilling, Reap, ReapTimeout, SendSignal
<1>3. ASSUME NEW t \in Tasks, ChildOnly(t) PROVE ChildTypes'
  <2>1. maxParallel \in Nat /\ MaxCrashes \in Nat
    BY ParallelTasksAssumption
  <2> QED BY <1>3, <2>1 DEF ChildOnly, AcquirePermit, Begin, EndStep, CheckKilling, PutResult,
             ReleasePermit, Exit, Crash
<1> QED BY <1>2, <1>3, NextCases

LEMMA FirstInSet ==
  ASSUME NEW ts \in SUBSET Tasks, ts # {}
  PROVE  First(ts) \in ts
<1> DEFINE less == {d \in Nat \X Nat : d[1] < d[2]}
<1>1. IsWellFoundedOn(less, Nat)
  BY NatLessThanWellFounded DEF OpToRel
<1>2. ts \subseteq Nat
  BY ParallelTasksAssumption DEF Tasks
<1>3. PICK t \in ts : \A u \in ts : ~(<<u, t>> \in less)
  <2> HIDE DEF less
  <2> QED BY <1>1, <1>2, WFMin
<1>4. ASSUME NEW u \in ts PROVE t <= u
  <2>1. t \in Nat /\ u \in Nat
    BY <1>2
  <2>2. <<u, t>>[1] = u /\ <<u, t>>[2] = t /\ <<u, t>> \in Nat \X Nat
    BY <2>1
  <2>3. ~(u < t)
    BY <1>3, <2>2
  <2> QED BY <2>1, <2>3
<1> QED BY <1>4 DEF First

LEMMA ParentTypesStay ==
  ASSUME IInv, MoreTypes, [Next]_vars
  PROVE  ParentTypes'
<1> USE DEF MoreTypes, ParentTypes, parent
<1>1. CASE UNCHANGED <<parent, killing>>
  BY <1>1
<1>2. CASE UNCHANGED vars
  BY <1>1, <1>2 DEF vars
<1>3. ASSUME NEW t \in Tasks, ChildOnly(t) PROVE ParentTypes'
  BY <1>1, <1>3, ChildKeeps
<1>4. CASE Start \/ StartFails \/ EnterBlock \/ SeeStarted \/ StartupTimeout \/ Finish
  BY <1>4 DEF Start, StartFails, EnterBlock, SeeStarted, StartupTimeout, Finish
<1>5. CASE LeaveBlock
  <2>1. fg' \in BOOLEAN
    BY <1>5, ParallelTasksAssumption DEF LeaveBlock
  <2> QED BY <1>5, <2>1 DEF LeaveBlock, BeginKill
<1>6. CASE NextTask \/ GetResult \/ GetNothing \/ Joined \/ CollectErrors
  BY <1>6 DEF NextTask, GetResult, GetNothing, Joined, CollectErrors, BeginKill
<1>7. CASE SilentTimeout \/ JoinTimeout
  BY <1>7 DEF SilentTimeout, JoinTimeout, BeginKill
<1>8. CASE Poll
  BY <1>8 DEF Poll
<1>9. CASE MarkKilling
  <2>1. First(todo) \in Tasks
    BY <1>9, FirstInSet DEF MarkKilling, IInv, Types
  <2> QED BY <1>9, <2>1 DEF MarkKilling
<1>10. CASE Reap
  BY <1>10 DEF Reap, AllSignalled
<1>11. CASE ReapTimeout
  BY <1>11 DEF ReapTimeout
<1>12. ASSUME NEW t \in Tasks, SendSignal(t) PROVE ParentTypes'
  BY <1>12 DEF SendSignal
<1> QED
  BY <1>2, <1>3, <1>4, <1>5, <1>6, <1>7, <1>8, <1>9, <1>10, <1>11, <1>12, NextCases
  DEF ParentStep

LEMMA AllSignalledStays ==
  ASSUME IInv, MoreTypes, [Next]_vars
  PROVE  AllSignalled'
<1> USE DEF MoreTypes, AllSignalled, parent, Goto
<1>1. CASE UNCHANGED <<pc, todo>>
  BY <1>1
<1>2. CASE UNCHANGED vars \/ \E t \in Tasks : ChildOnly(t)
  BY <1>1, <1>2, ChildKeeps DEF vars
<1>3. CASE ParentStep \/ StartFails
  <2>1. ASSUME NEW t \in Tasks, SendSignal(t) PROVE AllSignalled'
    BY <2>1 DEF SendSignal
  <2>2. CASE Reap
    BY <2>2 DEF Reap, IInv, JudgedInv
  <2>3. CASE MarkKilling \/ Start
    BY <1>1, <2>3 DEF MarkKilling, Start
  <2>4. CASE pc' # "reap"
    BY <2>4
  <2>5. CASE CollectErrors \/ LeaveBlock
    BY <2>5 DEF CollectErrors, LeaveBlock, BeginKill
  <2>6. StartFails \/ EnterBlock \/ NextTask \/ SeeStarted \/ StartupTimeout \/ Poll
          \/ GetResult \/ GetNothing \/ SilentTimeout \/ Joined \/ JoinTimeout
          \/ Finish \/ ReapTimeout => pc' # "reap"
    BY DEF StartFails, EnterBlock, NextTask, SeeStarted, StartupTimeout, Poll, GetResult,
       GetNothing, SilentTimeout, Joined, JoinTimeout, Finish, ReapTimeout, BeginKill
  <2> QED BY <1>3, <2>1, <2>2, <2>3, <2>4, <2>5, <2>6 DEF ParentStep
<1> QED BY <1>2, <1>3, NextCases

LEMMA NextMoreTypes == IInv /\ MoreTypes /\ [Next]_vars => MoreTypes'
<1> SUFFICES ASSUME IInv, MoreTypes, [Next]_vars PROVE MoreTypes'
  OBVIOUS
<1>1. ArgTypes'
  BY NextCases DEF MoreTypes, ArgTypes, args, vars
<1> QED BY <1>1, ChildTypesStay, ParentTypesStay, AllSignalledStays DEF MoreTypes

LEMMA SpecMoreTypes == Spec => []MoreTypes
  BY SpecIInv, InitMoreTypes, NextMoreTypes, PTL DEF Spec

(* Types, for any number of steps, limits and failures. *)
THEOREM TypeCorrect == Spec => []TypeOK
<1>1. IInv /\ MoreTypes => TypeOK
  BY DEF IInv, MoreTypes, Types, ArgTypes, ChildTypes, ParentTypes, JudgedInv, TypeOK
<1> QED BY <1>1, SpecIInv, SpecMoreTypes, PTL
-----------------------------------------------------------------------------
(* The semaphore: permits are taken and given back one by one, and only a  *)
(* child that takes one comes to hold one.                                 *)
LimitInv == maxParallel > 0 => permits + Cardinality(Holders) <= maxParallel

LEMMA HoldersFinite == IsFiniteSet(Holders) /\ Cardinality(Holders) \in Nat
<1>1. IsFiniteSet(Tasks)
  BY FS_Interval, ParallelTasksAssumption DEF Tasks
<1> QED BY <1>1, FS_Subset, FS_CardinalityType DEF Holders

LEMMA OthersHoldNoMore ==
  ASSUME IInv, [Next]_vars,
         \A t \in Tasks : ~AcquirePermit(t) /\ ~ReleasePermit(t)
  PROVE  permits' = permits /\ Holders' \subseteq Holders
<1> USE DEF Holders, Holding
<1>1. CASE UNCHANGED <<child, permits>>
  BY <1>1
<1>2. CASE Start
  <2>1. child' = [child EXCEPT ![w + 1] = "sem"] /\ permits' = permits
    BY <1>2 DEF Start, Move
  <2> QED BY <2>1 DEF IInv, Types
<1>3. ASSUME NEW t \in Tasks, SendSignal(t) PROVE permits' = permits /\ Holders' \subseteq Holders
  <2>1. permits' = permits
    BY <1>3 DEF SendSignal
  <2>2. \/ child' = child
        \/ child' = [child EXCEPT ![t] = "slain"]
        \/ child[t] = "run" /\ child' = [child EXCEPT ![t] = "done"]
    BY <1>3 DEF SendSignal, Move
  <2> QED BY <2>1, <2>2 DEF IInv, Types
<1>4. CASE (ParentStep \/ StartFails) /\ ~Start /\ ~(\E t \in Tasks : SendSignal(t))
  BY <1>1, <1>4 DEF children, ParentStep, StartFails, EnterBlock, LeaveBlock, NextTask,
     SeeStarted, StartupTimeout, Poll, GetResult, GetNothing, SilentTimeout, Joined,
     JoinTimeout, CollectErrors, Finish, MarkKilling, Reap, ReapTimeout
<1>5. ASSUME NEW t \in Tasks, ChildOnly(t) PROVE permits' = permits /\ Holders' \subseteq Holders
  <2>1. permits' = permits
    BY <1>5 DEF ChildOnly, Begin, EndStep, CheckKilling, PutResult, Exit, Crash
  <2>2. \/ child[t] \in Holding /\ \E s \in ChildStates : child' = [child EXCEPT ![t] = s]
        \/ \E s \in Gone : child' = [child EXCEPT ![t] = s]
    BY <1>5 DEF ChildOnly, Begin, EndStep, CheckKilling, PutResult, Exit, Crash, Move,
       ChildStates, Gone
  <2> QED BY <2>1, <2>2 DEF IInv, Types, Gone
<1>6. CASE UNCHANGED vars
  BY <1>1, <1>6 DEF vars, children
<1> QED BY <1>2, <1>3, <1>4, <1>5, <1>6, NextCases

LEMMA NextPermits ==
  IInv /\ MoreTypes /\ LimitInv /\ [Next]_vars => LimitInv'
<1> SUFFICES ASSUME IInv, MoreTypes, LimitInv, [Next]_vars, maxParallel' > 0
             PROVE  permits' + Cardinality(Holders') <= maxParallel'
  BY DEF LimitInv, Holders
<1>1. /\ maxParallel' = maxParallel /\ maxParallel \in Nat /\ permits \in Nat
      /\ permits + Cardinality(Holders) <= maxParallel
  <2>1. maxParallel' = maxParallel
    BY NextCases DEF vars, args
  <2> QED BY <2>1, ParallelTasksAssumption
          DEF MoreTypes, ArgTypes, ChildTypes, LimitInv, Holders
<1>2. ASSUME NEW t \in Tasks, AcquirePermit(t)
      PROVE  permits' + Cardinality(Holders') <= maxParallel'
  <2>1. permits' = permits - 1 /\ child[t] = "sem" /\ child' = [child EXCEPT ![t] = "ready"]
    BY <1>1, <1>2 DEF AcquirePermit, Move
  <2>2. Holders' = Holders \cup {t} /\ t \notin Holders
    BY <2>1 DEF Holders, Holding, IInv, Types
  <2>3. Cardinality(Holders') = Cardinality(Holders) + 1
    BY <2>2, HoldersFinite, FS_AddElement
  <2> QED BY <1>1, <2>1, <2>3, HoldersFinite
<1>3. ASSUME NEW t \in Tasks, ReleasePermit(t)
      PROVE  permits' + Cardinality(Holders') <= maxParallel'
  <2>1. permits' = permits + 1 /\ child[t] = "release" /\ child' = [child EXCEPT ![t] = "exit"]
    BY <1>1, <1>3 DEF ReleasePermit, Move
  <2>2. Holders' = Holders \ {t} /\ t \in Holders
    BY <2>1 DEF Holders, Holding, IInv, Types
  <2>3. Cardinality(Holders') = Cardinality(Holders) - 1
    BY <2>2, HoldersFinite, FS_RemoveElement
  <2> QED BY <1>1, <2>1, <2>3, HoldersFinite
<1>4. CASE \A t \in Tasks : ~AcquirePermit(t) /\ ~ReleasePermit(t)
  <2>1. permits' = permits /\ Holders' \subseteq Holders
    BY <1>4, OthersHoldNoMore
  <2>2. Cardinality(Holders') <= Cardinality(Holders) /\ Cardinality(Holders') \in Nat
    BY <2>1, HoldersFinite, FS_Subset, FS_CardinalityType
  <2> QED BY <1>1, <2>1, <2>2, HoldersFinite
<1> QED BY <1>2, <1>3, <1>4

LEMMA InitPermits == Init => LimitInv
<1> SUFFICES ASSUME Init PROVE LimitInv
  OBVIOUS
<1>1. Holders = {}
  BY DEF Init, Holders, Holding
<1> QED BY <1>1, FS_EmptySet, ParallelTasksAssumption DEF Init, LimitInv, Holders

(* A child that is being killed may leave with its permit.  Such children  *)
(* and those that hold a permit account for every permit that was taken; a *)
(* crash takes at most one of them away.                                   *)
Departed == {"exit"} \cup Gone
Accountable == {t \in Tasks : child[t] \in Holding \/ (t \in killing /\ child[t] \in Departed)}
LossInv ==
  maxParallel > 0 => maxParallel <= permits + Cardinality(Accountable) + crashes

LEMMA AccountableFinite ==
  /\ IsFiniteSet(Accountable) /\ Cardinality(Accountable) \in Nat
  /\ IsFiniteSet(Accountable') /\ Cardinality(Accountable') \in Nat
<1>1. IsFiniteSet(Tasks)
  BY FS_Interval, ParallelTasksAssumption DEF Tasks
<1> QED BY <1>1, FS_Subset, FS_CardinalityType DEF Accountable

(* Only a child that takes a permit, gives it back or dies matters. *)
LEMMA OthersStayAccountable ==
  ASSUME IInv, [Next]_vars,
         \A t \in Tasks : ~AcquirePermit(t) /\ ~ReleasePermit(t) /\ ~Crash(t)
  PROVE  UNCHANGED <<permits, crashes>> /\ Accountable \subseteq Accountable'
<1> USE DEF Accountable, Holding, Departed, Gone
<1>1. CASE UNCHANGED <<child, permits, crashes>> /\ killing \subseteq killing'
  BY <1>1
<1>2. CASE Start
  <2>1. /\ child' = [child EXCEPT ![w + 1] = "sem"] /\ UNCHANGED <<permits, crashes, killing>>
        /\ pc = "start" /\ w < N
    BY <1>2 DEF Start, Move
  <2>2. w + 1 \in Tasks /\ w + 1 > w
    BY <2>1, ParallelTasksAssumption DEF IInv, Types, Tasks
  <2>3. child[w + 1] = "new"
    BY <2>1, <2>2 DEF IInv, SentInv
  <2> QED BY <2>1, <2>3 DEF IInv, Types
<1>3. ASSUME NEW t \in Tasks, SendSignal(t)
      PROVE  UNCHANGED <<permits, crashes>> /\ Accountable \subseteq Accountable'
  <2>1. UNCHANGED <<permits, crashes, killing>> /\ t \in killing
    BY <1>3 DEF SendSignal
  <2>2. \/ child' = child
        \/ child' = [child EXCEPT ![t] = "slain"]
        \/ child[t] = "run" /\ child' = [child EXCEPT ![t] = "done"]
    BY <1>3 DEF SendSignal, Move
  <2> QED BY <2>1, <2>2 DEF IInv, Types
<1>4. CASE (ParentStep \/ StartFails) /\ ~Start /\ ~(\E t \in Tasks : SendSignal(t))
  BY <1>1, <1>4 DEF children, ParentStep, StartFails, EnterBlock, LeaveBlock, NextTask,
     SeeStarted, StartupTimeout, Poll, GetResult, GetNothing, SilentTimeout, Joined,
     JoinTimeout, CollectErrors, Finish, MarkKilling, Reap, ReapTimeout
<1>5. ASSUME NEW t \in Tasks, ChildOnly(t)
      PROVE  UNCHANGED <<permits, crashes>> /\ Accountable \subseteq Accountable'
  <2>1. UNCHANGED <<permits, crashes, killing>>
    BY <1>5, ChildKeeps DEF ChildOnly, Begin, EndStep, CheckKilling, PutResult, Exit
  <2>2. \/ \E s \in Holding : child' = [child EXCEPT ![t] = s]
        \/ t \in killing /\ child' = [child EXCEPT ![t] = "exit"]
        \/ child[t] = "exit" /\ child' = [child EXCEPT ![t] = "dead"]
    BY <1>5 DEF ChildOnly, Begin, EndStep, CheckKilling, PutResult, Exit, Move
  <2> QED BY <2>1, <2>2 DEF IInv, Types
<1>6. CASE UNCHANGED vars
  BY <1>1, <1>6 DEF vars, children
<1> QED BY <1>2, <1>3, <1>4, <1>5, <1>6, NextCases

LEMMA NextLoss ==
  IInv /\ MoreTypes /\ LossInv /\ [Next]_vars => LossInv'
<1> SUFFICES ASSUME IInv, MoreTypes, LossInv, [Next]_vars, maxParallel' > 0
             PROVE  maxParallel' <= permits' + Cardinality(Accountable') + crashes'
  BY DEF LossInv
<1>1. /\ maxParallel' = maxParallel /\ maxParallel \in Nat /\ permits \in Nat /\ crashes \in Nat
      /\ maxParallel <= permits + Cardinality(Accountable) + crashes
  <2>1. maxParallel' = maxParallel
    BY NextCases DEF vars, args
  <2> QED BY <2>1, ParallelTasksAssumption DEF MoreTypes, ArgTypes, ChildTypes, LossInv
<1>2. ASSUME NEW t \in Tasks, AcquirePermit(t)
      PROVE  maxParallel' <= permits' + Cardinality(Accountable') + crashes'
  <2>1. /\ permits' = permits - 1 /\ child[t] = "sem" /\ child' = [child EXCEPT ![t] = "ready"]
        /\ crashes' = crashes /\ killing' = killing
    BY <1>1, <1>2 DEF AcquirePermit, Move
  <2>2. Accountable' = Accountable \cup {t} /\ t \notin Accountable
    BY <2>1 DEF Accountable, Holding, Departed, Gone, IInv, Types
  <2>3. Cardinality(Accountable') = Cardinality(Accountable) + 1
    BY <2>2, AccountableFinite, FS_AddElement
  <2> QED BY <1>1, <2>1, <2>3, AccountableFinite
<1>3. ASSUME NEW t \in Tasks, Accountable \ {t} \subseteq Accountable',
             permits' + crashes' = permits + crashes + 1, permits' \in Nat, crashes' \in Nat
      PROVE  maxParallel' <= permits' + Cardinality(Accountable') + crashes'
  <2>1. \A M, P, C, n, m, P1, C1 \in Nat :
          M <= P + n + C /\ n <= m + 1 /\ P1 + C1 = P + C + 1 => M <= P1 + m + C1
    OBVIOUS
  <2>2. /\ IsFiniteSet(Accountable \ {t})
        /\ Cardinality(Accountable \ {t}) =
              IF t \in Accountable THEN Cardinality(Accountable) - 1
                                   ELSE Cardinality(Accountable)
    BY AccountableFinite, FS_RemoveElement
  <2>3. /\ Cardinality(Accountable \ {t}) \in Nat
        /\ Cardinality(Accountable \ {t}) <= Cardinality(Accountable')
    BY <1>3, <2>2, AccountableFinite, FS_Subset, FS_CardinalityType
  <2>4. Cardinality(Accountable) <= Cardinality(Accountable') + 1
    BY <2>2, <2>3, AccountableFinite
  <2> QED BY <1>1, <1>3, <2>1, <2>4, AccountableFinite
<1>4. ASSUME NEW t \in Tasks, ReleasePermit(t)
      PROVE  maxParallel' <= permits' + Cardinality(Accountable') + crashes'
  <2>1. /\ permits' = permits + 1 /\ child' = [child EXCEPT ![t] = "exit"]
        /\ crashes' = crashes /\ killing' = killing
    BY <1>1, <1>4 DEF ReleasePermit, Move
  <2>2. Accountable \ {t} \subseteq Accountable'
    BY <2>1 DEF Accountable, IInv, Types
  <2> QED BY <1>1, <1>3, <2>1, <2>2
<1>5. ASSUME NEW t \in Tasks, Crash(t)
      PROVE  maxParallel' <= permits' + Cardinality(Accountable') + crashes'
  <2>1. /\ permits' = permits /\ child' = [child EXCEPT ![t] = "dead"]
        /\ crashes' = crashes + 1 /\ killing' = killing
    BY <1>1, <1>5 DEF Crash, Move
  <2>2. Accountable \ {t} \subseteq Accountable'
    BY <2>1 DEF Accountable, IInv, Types
  <2> QED BY <1>1, <1>3, <2>1, <2>2
<1>6. CASE \A t \in Tasks : ~AcquirePermit(t) /\ ~ReleasePermit(t) /\ ~Crash(t)
  <2>1. UNCHANGED <<permits, crashes>> /\ Accountable \subseteq Accountable'
    BY <1>6, OthersStayAccountable
  <2>2. Cardinality(Accountable) <= Cardinality(Accountable')
    BY <2>1, AccountableFinite, FS_Subset
  <2> QED BY <1>1, <2>1, <2>2, AccountableFinite
<1> QED BY <1>2, <1>4, <1>5, <1>6

LEMMA InitLoss == Init => LossInv
<1> SUFFICES ASSUME Init PROVE LossInv
  OBVIOUS
<1>1. maxParallel \in Nat /\ permits = maxParallel /\ crashes = 0
  BY ParallelTasksAssumption DEF Init
<1> QED BY <1>1, AccountableFinite DEF LossInv

LEMMA LossBound == IInv /\ MoreTypes /\ LossInv /\ LimitInv => PermitsBounded
<1> SUFFICES ASSUME IInv, MoreTypes, LossInv, LimitInv, maxParallel > 0
             PROVE  /\ permits + Cardinality(Holders) <= maxParallel
                    /\ maxParallel <= permits + Cardinality(Holders) + crashes
                                       + Cardinality(killing)
  BY DEF PermitsBounded
<1>1. IsFiniteSet(killing)
  <2>1. IsFiniteSet(Tasks)
    BY FS_Interval, ParallelTasksAssumption DEF Tasks
  <2>2. killing \subseteq Tasks
    BY DEF MoreTypes, ParentTypes
  <2> QED BY <2>1, <2>2, FS_Subset
<1>2. /\ IsFiniteSet(Holders \cup killing)
      /\ Cardinality(Holders \cup killing) =
           Cardinality(Holders) + Cardinality(killing) - Cardinality(Holders \cap killing)
      /\ Cardinality(Holders \cap killing) \in Nat
      /\ Cardinality(killing) \in Nat
  BY <1>1, HoldersFinite, FS_Union, FS_Subset, FS_CardinalityType
<1>3. Accountable \subseteq Holders \cup killing
  BY DEF Accountable, Holders
<1>4. Cardinality(Accountable) <= Cardinality(Holders \cup killing)
  BY <1>2, <1>3, FS_Subset
<1>5. maxParallel \in Nat /\ permits \in Nat /\ crashes \in Nat
  BY ParallelTasksAssumption DEF MoreTypes, ArgTypes, ChildTypes
<1> QED BY <1>2, <1>4, <1>5, HoldersFinite, AccountableFinite DEF LossInv, LimitInv

(* Never more children than max_parallel between taking and releasing a    *)
(* permit of the semaphore, whatever dies in between; and never fewer      *)
(* permits left than the children killed or dead can account for.          *)
THEOREM LimitIsKept == Spec => []PermitsBounded
  BY SpecIInv, SpecMoreTypes, InitPermits, NextPermits, InitLoss, NextLoss, LossBound, PTL
  DEF Spec
-----------------------------------------------------------------------------
(* What is left of the steps: the parent leaves a task only when its       *)
(* process is gone, and kills only after an error.                         *)

LEMMA GoneStays ==
  ASSUME IInv, [Next]_vars, NEW u \in Tasks, child[u] \in Gone
  PROVE  child'[u] = child[u]
<1> USE DEF IInv, Types, Gone, Move
<1>1. CASE UNCHANGED child
  BY <1>1
<1>2. CASE Start
  <2>1. child[w + 1] = "new" /\ child' = [child EXCEPT ![w + 1] = "sem"]
    BY <1>2, ParallelTasksAssumption DEF Start, SentInv, Tasks
  <2> QED BY <2>1
<1>3. ASSUME NEW t \in Tasks, SendSignal(t) PROVE child'[u] = child[u]
  BY <1>3 DEF SendSignal
<1>4. CASE (ParentStep \/ StartFails) /\ ~Start /\ ~(\E t \in Tasks : SendSignal(t))
  BY <1>1, <1>4 DEF children, ParentStep, StartFails, EnterBlock, LeaveBlock, NextTask,
     SeeStarted, StartupTimeout, Poll, GetResult, GetNothing, SilentTimeout, Joined,
     JoinTimeout, CollectErrors, Finish, MarkKilling, Reap, ReapTimeout
<1>5. ASSUME NEW t \in Tasks, ChildOnly(t) PROVE child'[u] = child[u]
  BY <1>5 DEF ChildOnly, AcquirePermit, Begin, EndStep, CheckKilling, PutResult,
     ReleasePermit, Exit, Crash
<1>6. CASE UNCHANGED vars
  BY <1>1, <1>6 DEF vars, children
<1> QED BY <1>2, <1>3, <1>4, <1>5, <1>6, NextCases

AnyError == fg \/ \E t \in Tasks : errs[t] # {}

LEMMA ErrorStays ==
  ASSUME IInv, [Next]_vars, AnyError, pc # "body"
  PROVE  AnyError'
<1> USE DEF IInv, Types, AnyError, parent
<1>1. CASE UNCHANGED <<fg, errs>>
  BY <1>1
<1>2. CASE GetResult \/ SilentTimeout \/ Joined \/ JoinTimeout
  <2>1. /\ errs' = errs \/ \E e \in {"task", "silent", "exit", "unexpected"} : AddError(w, e)
        /\ fg' = fg
    BY <1>2 DEF GetResult, SilentTimeout, Joined, JoinTimeout
  <2> QED BY <2>1 DEF AddError
<1>3. CASE (ParentStep \/ StartFails) /\ ~(GetResult \/ SilentTimeout \/ Joined \/ JoinTimeout)
  BY <1>1, <1>3 DEF ParentStep, StartFails, Start, EnterBlock, LeaveBlock, NextTask,
     SeeStarted, StartupTimeout, Poll, GetNothing, CollectErrors, Finish, MarkKilling,
     Reap, ReapTimeout, SendSignal
<1>4. CASE UNCHANGED vars \/ \E t \in Tasks : ChildOnly(t)
  BY <1>1, <1>4, ChildKeeps DEF vars
<1> QED BY <1>2, <1>3, <1>4, NextCases

LeftInv ==
  /\ outcome # "none" => pc = "over"
  /\ Waiting => \A t \in 1..(w - 1) : child[t] \in Gone
  /\ pc \in {"loop", "next"} => \A t \in 1..w : child[t] \in Gone
  /\ Killing("next") => \A t \in 1..w : t \in kset \/ child[t] \in Gone
  /\ Killing("finish") => \A t \in Tasks : t \in kset \/ child[t] \in Gone
  /\ pc = "finish" \/ outcome \in {"foreground", "raised", "returned"} =>
       \A t \in Tasks : child[t] \in Gone

SlainInv ==
  /\ pc \in {"signal", "reap"} => AnyError
  /\ \A t \in Tasks : child[t] = "slain" => AnyError /\ pc \notin {"start", "body"}

LEMMA InitLeft == Init => LeftInv /\ SlainInv
  BY DEF Init, LeftInv, SlainInv, Waiting, Killing

LEMMA NextLeft == IInv /\ LeftInv /\ [Next]_vars => LeftInv'
<1> SUFFICES ASSUME IInv, LeftInv, [Next]_vars PROVE LeftInv'
  OBVIOUS
<1> USE DEF LeftInv, Waiting, Killing, Goto
<1>0. \A t \in Tasks : child[t] \in Gone => child'[t] \in Gone
  BY GoneStays
<1>a. w \in Nat /\ N \in Nat /\ w <= N /\ \A t \in 1..w : t \in Tasks
  BY ParallelTasksAssumption DEF IInv, Types, Tasks
<1>1. CASE UNCHANGED parent
  BY <1>0, <1>a, <1>1 DEF parent
<1>2. CASE Start \/ EnterBlock \/ SeeStarted \/ StartupTimeout \/ StartFails \/ Poll
           \/ GetResult \/ GetNothing
  BY <1>0, <1>a, <1>2 DEF Start, EnterBlock, SeeStarted, StartupTimeout, StartFails, Poll,
     GetResult, GetNothing
<1>3. CASE SilentTimeout \/ JoinTimeout
  <2>1. /\ kset' = {w} /\ w' = w /\ outcome' = outcome /\ pc' = "signal" /\ back' = "next"
        /\ pc \in {"get", "join"}
    BY <1>3 DEF SilentTimeout, JoinTimeout, BeginKill
  <2> QED BY <1>0, <1>a, <2>1
<1>4. CASE Joined
  <2>1. pc = "join" /\ pc' = "next" /\ w' = w /\ child[w] \in Gone /\ outcome' = outcome
    BY <1>4 DEF Joined
  <2> QED BY <1>0, <1>a, <2>1
<1>5. CASE LeaveBlock
  <2>1. /\ w' = 0 /\ outcome' = outcome /\ pc = "body"
        /\ \/ pc' = "signal" /\ kset' = Tasks /\ back' = "finish"
           \/ pc' = "finish" /\ ~(N > 0)
           \/ pc' = "loop"
    BY <1>5 DEF LeaveBlock, BeginKill
  <2> QED BY <1>a, <2>1 DEF Tasks
<1>6. CASE NextTask
  BY <1>0, <1>a, <1>6 DEF NextTask, Tasks
<1>7. CASE CollectErrors
  <2>1. /\ w' = w /\ outcome' = outcome /\ pc = "next"
        /\ \/ pc' = "signal" /\ kset' = (w + 1)..N /\ back' = "finish"
           \/ pc' = "finish" /\ ~(w < N)
           \/ pc' = "loop"
    BY <1>7 DEF CollectErrors, BeginKill
  <2> QED BY <1>0, <1>a, <2>1 DEF Tasks
<1>8. CASE Finish
  BY <1>0, <1>8 DEF Finish
<1>9. CASE MarkKilling
  BY <1>1, <1>9 DEF MarkKilling
<1>10. CASE Reap
  <2>1. /\ pc = "reap" /\ pc' = back /\ back \in {"next", "finish"}
        /\ \A t \in kset : child[t] \in Gone
        /\ UNCHANGED <<w, outcome>>
    BY <1>10 DEF Reap, IInv, JudgedInv
  <2> QED BY <1>0, <1>a, <2>1
<1>11. CASE ReapTimeout
  <2>1. /\ pc = "reap" /\ pc' = "signal" /\ UNCHANGED <<w, outcome, back, child>>
        /\ kset' = {t \in kset : child[t] \notin Gone}
    BY <1>11 DEF ReapTimeout, children
  <2> QED BY <1>a, <2>1
<1>12. ASSUME NEW t \in Tasks, SendSignal(t) PROVE LeftInv'
  <2>1. /\ pc = "signal" /\ pc' \in {"signal", "reap"}
        /\ UNCHANGED <<w, outcome, back, kset>>
    BY <1>12 DEF SendSignal
  <2> QED BY <1>0, <1>a, <2>1
<1>13. CASE UNCHANGED vars \/ \E t \in Tasks : ChildOnly(t)
  BY <1>1, <1>13, ChildKeeps DEF vars
<1> QED
  BY <1>2, <1>3, <1>4, <1>5, <1>6, <1>7, <1>8, <1>9, <1>10, <1>11, <1>12, <1>13, NextCases
  DEF ParentStep

LEMMA NextSlain == IInv /\ SlainInv /\ [Next]_vars => SlainInv'
<1> SUFFICES ASSUME IInv, SlainInv, [Next]_vars PROVE SlainInv'
  OBVIOUS
<1>1. pc # "body" /\ AnyError => AnyError'
  BY ErrorStays
<1>2. pc \notin {"start", "body"} => pc' \notin {"start", "body"}
  <2>1. CASE pc' = pc
    BY <2>1
  <2>2. CASE Reap
    BY <2>2 DEF Reap, Goto, IInv, JudgedInv
  <2>3. CASE ParentStep \/ StartFails
    BY <2>1, <2>2, <2>3 DEF ParentStep, StartFails, Start, EnterBlock, LeaveBlock, NextTask,
       SeeStarted, StartupTimeout, Poll, GetResult, GetNothing, SilentTimeout, Joined,
       JoinTimeout, CollectErrors, Finish, MarkKilling, ReapTimeout, SendSignal, BeginKill,
       Goto, parent
  <2> QED BY <2>1, <2>3, NextCases, ChildKeeps DEF vars, parent
<1>3. \A u \in Tasks : child'[u] = "slain" => child[u] = "slain" \/ pc = "signal"
  <2>1. CASE UNCHANGED child \/ pc = "signal"
    BY <2>1
  <2>2. CASE Start
    <3>1. child' = [child EXCEPT ![w + 1] = "sem"]
      BY <2>2 DEF Start, Move
    <3> QED BY <3>1 DEF IInv, Types
  <2>3. CASE (ParentStep \/ StartFails) /\ ~Start
    BY <2>1, <2>3 DEF children, ParentStep, StartFails, EnterBlock, LeaveBlock, NextTask,
       SeeStarted, StartupTimeout, Poll, GetResult, GetNothing, SilentTimeout, Joined,
       JoinTimeout, CollectErrors, Finish, MarkKilling, Reap, ReapTimeout, SendSignal
  <2>4. ASSUME NEW t \in Tasks, ChildOnly(t), NEW u \in Tasks, child'[u] = "slain"
        PROVE  child[u] = "slain"
    BY <2>4 DEF ChildOnly, AcquirePermit, Begin, EndStep, CheckKilling, PutResult,
       ReleasePermit, Exit, Crash, Move, IInv, Types
  <2> QED BY <2>1, <2>2, <2>3, <2>4, NextCases DEF vars, children
<1>4. \A u \in Tasks : child'[u] = "slain" => AnyError' /\ pc' \notin {"start", "body"}
  BY <1>1, <1>2, <1>3 DEF SlainInv
<1>5. pc' \in {"signal", "reap"} => AnyError'
  <2>1. CASE pc \in {"signal", "reap"}
    BY <1>1, <2>1 DEF SlainInv
  <2>2. CASE pc' \notin {"signal", "reap"}
    BY <2>2
  <2>3. CASE pc' = pc
    BY <2>1, <2>2, <2>3
  <2>4. CASE SilentTimeout \/ JoinTimeout
    <3>1. w \in Tasks /\ \E e \in {"silent", "exit"} : AddError(w, e)
      BY <2>4 DEF SilentTimeout, JoinTimeout, IInv, JudgedInv, Waiting
    <3>2. errs'[w] # {}
      BY <3>1 DEF AddError, IInv, Types
    <3> QED BY <3>1, <3>2 DEF AnyError
  <2>5. CASE LeaveBlock
    BY <2>2, <2>5 DEF LeaveBlock, AnyError, Goto
  <2>6. CASE CollectErrors
    <3>1. w \in Tasks /\ pc = "next"
      BY <2>6 DEF CollectErrors, IInv, JudgedInv
    <3>2. pc' \in {"signal", "reap"} => errs[w] # {}
      BY <2>6 DEF CollectErrors, Goto
    <3> QED BY <1>1, <3>1, <3>2 DEF AnyError
  <2>7. CASE (ParentStep \/ StartFails)
             /\ ~(SilentTimeout \/ JoinTimeout \/ LeaveBlock \/ CollectErrors)
    BY <2>1, <2>2, <2>3, <2>7 DEF ParentStep, StartFails, Start, EnterBlock, NextTask,
       SeeStarted, StartupTimeout, Poll, GetResult, GetNothing, Joined, Finish, MarkKilling,
       Reap, ReapTimeout, SendSignal, Goto, parent
  <2> QED BY <2>3, <2>4, <2>5, <2>6, <2>7, NextCases, ChildKeeps DEF vars, parent
<1> QED BY <1>4, <1>5 DEF SlainInv

LEMMA SpecLeft == Spec => [](LeftInv /\ SlainInv)
  BY SpecIInv, InitLeft, NextLeft, NextSlain, PTL DEF Spec
-----------------------------------------------------------------------------
(* ParallelTasks implements StepRunner.                                    *)

Results == [t \in Tasks |-> Result(t)]

LEMMA InitPromise == Init => Promise!Init
  BY DEF Init, Promise!Init, Result, Gone

(* A step that alters the result of one task, and only to "failed" or from *)
(* "pending" to "ok", is a step of StepRunner.                             *)
LEMMA OneResult ==
  ASSUME NEW t \in Tasks, outcome = "none", outcome' = outcome,
         \A u \in Tasks \ {t} : Result(u)' = Result(u),
         \/ Result(t)' = Result(t)
         \/ Result(t)' = "failed"
         \/ Result(t) = "pending" /\ Result(t)' = "ok"
  PROVE  Promise!Next \/ UNCHANGED <<Results, outcome>>
<1>1. Results' = [Results EXCEPT ![t] = Result(t)']
  BY DEF Results
<1>2. CASE Result(t)' = Result(t)
  BY <1>2 DEF Results
<1>3. CASE Result(t)' = "failed" /\ Result(t) # "failed"
  BY <1>1, <1>3 DEF Promise!Next, Promise!Fail, Results
<1>4. CASE Result(t) = "pending" /\ Result(t)' = "ok"
  BY <1>1, <1>4 DEF Promise!Next, Promise!Complete, Results
<1> QED BY <1>2, <1>3, <1>4

LEMMA SameResult ==
  ASSUME NEW u \in Tasks, child'[u] = child[u], sent'[u] = sent[u], errs'[u] = errs[u]
  PROVE  Result(u)' = Result(u)
  BY DEF Result

(* Only a limit makes the parent give up on a child that does not start.   *)
AssertionInv == outcome = "assertion" => maxParallel > 0

LEMMA NextAssertion == AssertionInv /\ [Next]_vars => AssertionInv'
<1> SUFFICES ASSUME AssertionInv, [Next]_vars PROVE AssertionInv'
  OBVIOUS
<1>1. maxParallel' = maxParallel
  BY NextCases DEF vars, args
<1>2. CASE outcome' = outcome
  BY <1>1, <1>2 DEF AssertionInv
<1>3. CASE StartupTimeout
  BY <1>1, <1>3 DEF StartupTimeout, Starved, AssertionInv
<1>4. CASE Finish \/ StartFails
  BY <1>4 DEF Finish, StartFails, AssertionInv
<1>5. CASE ParentStep /\ ~StartupTimeout /\ ~Finish
  BY <1>2, <1>5 DEF ParentStep, Start, EnterBlock, LeaveBlock, NextTask, SeeStarted, Poll,
     GetResult, GetNothing, SilentTimeout, Joined, JoinTimeout, CollectErrors, MarkKilling,
     Reap, ReapTimeout, SendSignal, parent
<1> QED BY <1>2, <1>3, <1>4, <1>5, NextCases, ChildKeeps DEF vars, parent

LEMMA SpecAssertion == Spec => []AssertionInv
<1>1. Init => AssertionInv
  BY DEF Init, AssertionInv
<1> QED BY <1>1, NextAssertion, PTL DEF Spec

(* The verdict, when every process is gone. *)
LEMMA FinishPromise ==
  ASSUME IInv, LeftInv, SlainInv, Finish
  PROVE  Promise!Next
<1>1. \A t \in Tasks : child[t] \in Gone
  BY DEF Finish, LeftInv
<1>2. pc = "finish" /\ outcome = "none" /\ UNCHANGED <<child, sent, errs, fg>>
  BY DEF Finish, LeftInv, children, IInv, Types
<1>3. Results' = Results
  BY <1>2, SameResult DEF Results
<1>4. \A t \in Tasks : Result(t) \in {"ok", "failed"}
  BY <1>1 DEF Result
<1>5. CASE fg
  <2>1. outcome' = "foreground"
    BY <1>5 DEF Finish
  <2> QED BY <1>2, <1>3, <1>4, <2>1 DEF Promise!Next, Promise!PassOn, Promise!AllEnded, Results
<1>6. CASE ~fg /\ \E t \in Tasks : errs[t] # {}
  <2>1. outcome' = "raised"
    BY <1>6 DEF Finish
  <2>2. \E t \in Tasks : Result(t) = "failed"
    BY <1>1, <1>6 DEF Result
  <2> QED BY <1>2, <1>3, <1>4, <2>1, <2>2
          DEF Promise!Next, Promise!Raise, Promise!AllEnded, Results
<1>7. CASE ~fg /\ \A t \in Tasks : errs[t] = {}
  <2>1. outcome' = "returned"
    BY <1>7 DEF Finish
  <2>2. \A t \in Tasks : child[t] = "dead"
    BY <1>1, <1>7 DEF SlainInv, AnyError, Gone
  <2>3. \A t \in Tasks : sent[t] = "ok"
    BY <1>2, <1>7 DEF IInv, JudgedInv, Judged
  <2>4. \A t \in Tasks : Result(t) = "ok"
    BY <1>7, <2>2, <2>3 DEF Result, Gone
  <2> QED BY <1>2, <1>3, <2>1, <2>4 DEF Promise!Next, Promise!Return, Results
<1> QED BY <1>5, <1>6, <1>7

LEMMA ChildPromise ==
  ASSUME IInv, MoreTypes, LeftInv, AssertionInv, maxParallel = 0, outcome # "start",
         NEW t \in Tasks, ChildOnly(t)
  PROVE  Promise!Next \/ UNCHANGED <<Results, outcome>>
<1>1. /\ child[t] \notin Gone
      /\ \A u \in Tasks \ {t} : child'[u] = child[u] /\ sent'[u] = sent[u]
      /\ child'[t] # "slain"
  BY DEF ChildOnly, AcquirePermit, Begin, EndStep, CheckKilling, PutResult, ReleasePermit,
     Exit, Crash, Move, Gone, IInv, Types
<1>2. errs' = errs /\ outcome' = outcome
  BY ChildKeeps DEF parent
<1>3. outcome = "none"
  BY <1>1 DEF LeftInv, AssertionInv, MoreTypes, ParentTypes
<1>4. Result(t) = "pending"
  BY <1>1 DEF Result
<1>5. Result(t)' \in {"pending", "ok", "failed"}
  BY DEF Result
<1>6. \A u \in Tasks \ {t} : Result(u)' = Result(u)
  BY <1>1, <1>2, SameResult
<1> QED BY <1>2, <1>3, <1>4, <1>5, <1>6, OneResult

LEMMA PromiseStep ==
  ASSUME IInv, MoreTypes, LeftInv, SlainInv, AssertionInv, [Next]_vars,
         maxParallel = 0, outcome' # "start"
  PROVE  Promise!Next \/ UNCHANGED <<Results, outcome>>
<1>1. CASE UNCHANGED <<child, sent, errs, outcome>>
  <2>1. \A u \in Tasks : Result(u)' = Result(u)
    BY <1>1, SameResult
  <2> QED BY <1>1, <2>1 DEF Results
<1>2. CASE Start
  <2>1. /\ child[w + 1] = "new" /\ child' = [child EXCEPT ![w + 1] = "sem"]
        /\ UNCHANGED <<sent, errs, outcome>>
    BY <1>2, ParallelTasksAssumption DEF Start, SentInv, Tasks, IInv, Types, Move
  <2>2. \A u \in Tasks : Result(u)' = Result(u)
    BY <2>1 DEF Result, IInv, Types, Gone
  <2> QED BY <2>1, <2>2 DEF Results
<1>3. CASE StartupTimeout \/ StartFails
  BY <1>3 DEF StartupTimeout, StartFails, Starved
<1>4. CASE GetResult \/ SilentTimeout \/ Joined \/ JoinTimeout
  <2>1. /\ w \in Tasks /\ outcome = "none" /\ UNCHANGED <<child, sent, outcome>>
        /\ errs' = errs \/ \E e \in {"task", "silent", "exit", "unexpected"} : AddError(w, e)
    BY <1>4 DEF GetResult, SilentTimeout, Joined, JoinTimeout, children, LeftInv,
       IInv, JudgedInv, Waiting
  <2>2. CASE errs' = errs
    BY <1>1, <2>1, <2>2
  <2>3. CASE errs' # errs
    <3>1. PICK t \in Tasks : t = w
      BY <2>1
    <3>2. errs'[t] # {} /\ \A u \in Tasks \ {t} : errs'[u] = errs[u]
      BY <2>1, <2>3, <3>1 DEF AddError, IInv, Types
    <3>3. \A u \in Tasks \ {t} : Result(u)' = Result(u)
      BY <2>1, <3>2, SameResult
    <3>4. Result(t)' = Result(t) \/ Result(t)' = "failed"
      BY <2>1, <3>2 DEF Result
    <3> QED BY <2>1, <3>3, <3>4, OneResult
  <2> QED BY <2>2, <2>3
<1>5. CASE Finish
  BY <1>5, FinishPromise
<1>6. ASSUME NEW t \in Tasks, SendSignal(t)
      PROVE  Promise!Next \/ UNCHANGED <<Results, outcome>>
  <2>1. /\ outcome = "none" /\ UNCHANGED <<sent, errs, outcome>>
        /\ \/ child' = child
           \/ child' = [child EXCEPT ![t] = "slain"]
           \/ child[t] = "run" /\ child' = [child EXCEPT ![t] = "done"]
    BY <1>6 DEF SendSignal, Move, LeftInv
  <2>2. \A u \in Tasks \ {t} : Result(u)' = Result(u)
    BY <2>1, SameResult DEF IInv, Types
  <2>3. Result(t)' = Result(t) \/ Result(t)' = "failed"
    BY <2>1 DEF Result, Gone, IInv, Types
  <2> QED BY <2>1, <2>2, <2>3, OneResult
<1>7. ASSUME NEW t \in Tasks, ChildOnly(t)
      PROVE  Promise!Next \/ UNCHANGED <<Results, outcome>>
  <2>1. outcome # "start"
    BY <1>7, ChildKeeps DEF parent
  <2> QED BY <1>7, <2>1, ChildPromise
<1>8. CASE EnterBlock \/ LeaveBlock \/ NextTask \/ SeeStarted \/ Poll \/ GetNothing
           \/ CollectErrors \/ MarkKilling \/ Reap \/ ReapTimeout
  BY <1>1, <1>8 DEF EnterBlock, LeaveBlock, NextTask, SeeStarted, Poll, GetNothing,
     CollectErrors, MarkKilling, Reap, ReapTimeout, children, parent
<1>9. CASE UNCHANGED vars
  BY <1>1, <1>9 DEF vars, children, parent
<1> QED BY <1>2, <1>3, <1>4, <1>5, <1>6, <1>7, <1>8, <1>9, NextCases DEF ParentStep

(* Without a limit, and when all processes could be forked, ParallelTasks  *)
(* keeps every promise of StepRunner, for any number of steps that fail,   *)
(* die, hang, are silent or are killed.                                    *)
THEOREM KeepsItsPromise == Spec => ImplementsStepRunner
<1>1. /\ IInv /\ MoreTypes /\ LeftInv /\ SlainInv /\ AssertionInv
      /\ [Next]_vars
      => [maxParallel = 0 /\ outcome' # "start" => Promise!Next]_<<Results, outcome>>
  BY PromiseStep
<1> QED BY <1>1, InitPromise, SpecIInv, SpecMoreTypes, SpecLeft, SpecAssertion, PTL
        DEF Spec, ImplementsStepRunner, Results

(* With or without a limit: no process of a step is left when the parent   *)
(* has ended of itself, that is, not by an exception of a fork or by the   *)
(* assertion that every child starts in time.                              *)
THEOREM NobodyLeft ==
  Spec => [](outcome \in {"foreground", "raised", "returned"} =>
               \A t \in Tasks : child[t] \in Gone)
<1>1. LeftInv => (outcome \in {"foreground", "raised", "returned"} =>
                    \A t \in Tasks : child[t] \in Gone)
  BY DEF LeftInv
<1> QED BY <1>1, SpecLeft, PTL
-----------------------------------------------------------------------------
(* No context gets stuck.  A child that is not known to have started waits *)
(* for a permit or has just got one; what SIGKILL was sent to is gone.     *)
StartInv ==
  /\ \A t \in Tasks : t \notin started => child[t] \in {"new", "sem", "ready"}
  /\ pc = "start" => \A t \in 1..w : child[t] # "new"
  /\ pc \notin {"start", "over"} => \A t \in Tasks : child[t] # "new"

SignalInv ==
  /\ pc = "signal" => todo # {}
  /\ pc \in {"signal", "reap"} /\ sig = "kill" => \A t \in kset \ todo : child[t] \in Gone

LEMMA InitStart == Init => StartInv /\ SignalInv
  BY ParallelTasksAssumption DEF Init, StartInv, SignalInv, Tasks

LEMMA NextStart == IInv /\ StartInv /\ [Next]_vars => StartInv'
<1> SUFFICES ASSUME IInv, StartInv, [Next]_vars PROVE StartInv'
  OBVIOUS
<1> USE DEF StartInv
<1>1. CASE UNCHANGED <<child, started, pc, w>>
  BY <1>1
<1>2. CASE Start
  <2>1. /\ child' = [child EXCEPT ![w + 1] = "sem"] /\ w' = w + 1 /\ w \in Nat
        /\ pc = "start" /\ UNCHANGED <<started, pc>>
    BY <1>2, ParallelTasksAssumption DEF Start, Move, IInv, Types
  <2>2. \A t \in 1..(w + 1) : t \in 1..w \/ t = w + 1
    BY <2>1
  <2>3. w + 1 \in Tasks /\ \A t \in 1..w : t \in Tasks
    BY <1>2, <2>1, ParallelTasksAssumption DEF Start, Tasks
  <2> QED BY <2>1, <2>2, <2>3 DEF IInv, Types
<1>3. CASE EnterBlock
  <2>1. pc = "start" /\ w = N /\ pc' = "body" /\ UNCHANGED <<child, started, w>>
    BY <1>3 DEF EnterBlock, Goto, children
  <2> QED BY <2>1 DEF Tasks
<1>4. CASE StartFails
  <2>1. pc' = "over" /\ UNCHANGED <<child, started>>
    BY <1>4 DEF StartFails, Goto, children
  <2> QED BY <2>1
<1>5. ASSUME NEW t \in Tasks, SendSignal(t) PROVE StartInv'
  <2>1. /\ UNCHANGED started /\ t \in started /\ pc = "signal" /\ pc' \in {"signal", "reap"}
        /\ child' = child \/ \E s \in {"slain", "done"} : child' = [child EXCEPT ![t] = s]
    BY <1>5 DEF SendSignal, Goto, Move
  <2> QED BY <2>1 DEF IInv, Types
<1>6. CASE ParentStep /\ ~Start /\ ~EnterBlock /\ ~(\E t \in Tasks : SendSignal(t))
  <2>1. UNCHANGED <<child, started>>
    BY <1>6 DEF children, ParentStep, LeaveBlock, NextTask, SeeStarted, StartupTimeout, Poll,
       GetResult, GetNothing, SilentTimeout, Joined, JoinTimeout, CollectErrors, Finish,
       MarkKilling, Reap, ReapTimeout
  <2>2. pc \notin {"start", "over"}
    BY <1>6 DEF ParentStep, LeaveBlock, NextTask, SeeStarted, StartupTimeout, Poll,
       GetResult, GetNothing, SilentTimeout, Joined, JoinTimeout, CollectErrors, Finish,
       MarkKilling, Reap, ReapTimeout
  <2>3. pc' # "start"
    <3>1. CASE Reap
      BY <3>1 DEF Reap, Goto, IInv, JudgedInv
    <3>2. CASE ~Reap
      BY <1>6, <2>2, <3>2 DEF ParentStep, LeaveBlock, NextTask, SeeStarted, StartupTimeout, Poll,
         GetResult, GetNothing, SilentTimeout, Joined, JoinTimeout, CollectErrors, Finish,
         MarkKilling, ReapTimeout, BeginKill, Goto, parent
    <3> QED BY <3>1, <3>2
  <2> QED BY <2>1, <2>2, <2>3
<1>7. ASSUME NEW t \in Tasks, ChildOnly(t) PROVE StartInv'
  <2>1. UNCHANGED <<pc, w>>
    BY <1>7, ChildKeeps DEF parent
  <2>2. \/ child[t] = "sem" /\ child' = [child EXCEPT ![t] = "ready"] /\ started' = started
        \/ started' = started \cup {t} /\ child' = [child EXCEPT ![t] = "run"]
        \/ /\ child[t] \notin {"new", "sem", "ready"} /\ started' = started
           /\ \E s \in ChildStates \ {"new"} : child' = [child EXCEPT ![t] = s]
    BY <1>7 DEF ChildOnly, AcquirePermit, Begin, EndStep, CheckKilling, PutResult,
       ReleasePermit, Exit, Crash, Move, ChildStates, Holding, Gone
  <2>3. \A u \in Tasks : child'[u] = "new" => child[u] = "new"
    BY <2>2 DEF IInv, Types
  <2>4. \A u \in Tasks : u \notin started' => child'[u] \in {"new", "sem", "ready"}
    BY <2>2 DEF IInv, Types
  <2>5. \A u \in 1..w : u \in Tasks
    BY ParallelTasksAssumption DEF IInv, Types, Tasks
  <2> QED BY <2>1, <2>3, <2>4, <2>5
<1>8. CASE UNCHANGED vars
  BY <1>1, <1>8 DEF vars, children, parent
<1> QED BY <1>2, <1>3, <1>4, <1>5, <1>6, <1>7, <1>8, NextCases

LEMMA NextSignal == IInv /\ MoreTypes /\ SignalInv /\ [Next]_vars => SignalInv'
<1> SUFFICES ASSUME IInv, MoreTypes, SignalInv, [Next]_vars PROVE SignalInv'
  OBVIOUS
<1> USE DEF SignalInv
<1>0. \A t \in Tasks : child[t] \in Gone => child'[t] \in Gone
  BY GoneStays
<1>1. CASE UNCHANGED <<pc, sig, kset, todo>>
  BY <1>0, <1>1 DEF IInv, Types
<1>2. CASE pc' \notin {"signal", "reap"}
  BY <1>2
<1>3. CASE SilentTimeout \/ JoinTimeout
  BY <1>3 DEF SilentTimeout, JoinTimeout, BeginKill, Goto
<1>4. CASE LeaveBlock \/ CollectErrors
  <2>1. \/ pc' \notin {"signal", "reap"}
        \/ N > 0 /\ sig' = "xcpu" /\ todo' = Tasks
        \/ w < N /\ sig' = "xcpu" /\ todo' = (w + 1)..N
    BY <1>4 DEF LeaveBlock, CollectErrors, BeginKill, Goto
  <2>2. N > 0 => 1 \in Tasks
    BY ParallelTasksAssumption DEF Tasks
  <2>3. w < N => w + 1 \in (w + 1)..N
    BY ParallelTasksAssumption DEF IInv, Types
  <2> QED BY <2>1, <2>2, <2>3
<1>5. ASSUME NEW t \in Tasks, SendSignal(t) PROVE SignalInv'
  <2>1. /\ pc = "signal" /\ UNCHANGED <<sig, kset>> /\ todo' = todo \ {t}
        /\ pc' = IF todo = {t} THEN "reap" ELSE "signal"
        /\ t \in todo
    BY <1>5, FirstInSet DEF SendSignal, Goto, IInv, Types
  <2>2. sig = "kill" => child'[t] \in Gone
    BY <1>5 DEF SendSignal, Move, Gone, IInv, Types
  <2> QED BY <1>0, <2>1, <2>2 DEF IInv, Types
<1>6. CASE ReapTimeout
  <2>1. kset' # {} /\ todo' = kset'
    BY <1>6 DEF ReapTimeout
  <2> QED BY <2>1
<1>7. CASE Start \/ EnterBlock \/ NextTask \/ SeeStarted \/ StartupTimeout \/ StartFails \/ Poll
           \/ GetResult \/ GetNothing \/ Joined \/ Finish
  BY <1>2, <1>7 DEF Start, EnterBlock, NextTask, SeeStarted, StartupTimeout, StartFails, Poll,
     GetResult, GetNothing, Joined, Finish, Goto
<1>8. CASE Reap
  BY <1>2, <1>8 DEF Reap, Goto, IInv, JudgedInv
<1>9. CASE MarkKilling \/ UNCHANGED vars \/ \E t \in Tasks : ChildOnly(t)
  BY <1>1, <1>9, ChildKeeps DEF MarkKilling, vars, parent
<1> QED BY <1>3, <1>4, <1>5, <1>6, <1>7, <1>8, <1>9, NextCases DEF ParentStep

(* The guards of the parent's actions and of a child's, written out; the   *)
(* steps a child need never take, those of a silent step and of a process  *)
(* that hangs when it exits, do not count.                                 *)
ParentCanStep ==
  \/ pc \in {"start", "body", "loop", "poll", "get", "next", "finish"}
  \/ pc = "startup" /\ (w \in started \/ Starved(w))
  \/ pc = "join" /\ (child[w] \in Gone \/ w \in MayHang)
  \/ /\ pc = "signal" /\ todo # {}
     /\ First(todo) \notin killing \/ First(todo) \in started \/ Starved(First(todo))
  \/ pc = "reap" /\ (sig # "kill" \/ \A t \in kset : child[t] \in Gone)

ChildCanStep(t) ==
  \/ child[t] = "sem" /\ (maxParallel = 0 \/ permits > 0)
  \/ child[t] \in Holding /\ (child[t] = "run" => t \notin MaySilent)
  \/ child[t] = "exit" /\ t \notin MayHang

WaitedFor == IF pc = "signal" THEN First(todo) ELSE w

(* The parent is never stuck, whatever its children do: until it is over,  *)
(* it can take a step, or the one child it waits for can take the next one *)
(* towards what it waits for.  This is the part of Termination that does   *)
(* not rest on the fairness of the scheduler.                              *)
THEOREM ParentNeverStuck ==
  Spec => [](pc # "over" => ParentCanStep \/ ChildCanStep(WaitedFor))
<1>1. ASSUME IInv, MoreTypes, StartInv, SignalInv, pc # "over"
      PROVE  ParentCanStep \/ ChildCanStep(WaitedFor)
  <2> USE <1>1
  <2>1. ASSUME NEW t \in Tasks, t \notin started, pc \in {"startup", "signal"}
        PROVE  Starved(t) \/ ChildCanStep(t)
    <3>1. child[t] \in {"sem", "ready"}
      BY <2>1 DEF StartInv
    <3>2. maxParallel \in Nat /\ permits \in Nat
      BY ParallelTasksAssumption DEF MoreTypes, ArgTypes, ChildTypes
    <3> QED BY <3>1, <3>2 DEF Starved, ChildCanStep, Holding
  <2>2. CASE pc = "startup"
    <3>1. w \in Tasks
      BY <2>2 DEF IInv, JudgedInv, Waiting
    <3> QED BY <2>1, <2>2, <3>1 DEF ParentCanStep, WaitedFor
  <2>3. CASE pc = "join"
    <3>1. w \in Tasks
      BY <2>3 DEF IInv, JudgedInv, Waiting
    <3>2. child[w] \in Gone \/ sent[w] # "none"
      BY <2>3 DEF IInv, PollInv
    <3>3. sent[w] # "none" => child[w] \in {"release", "exit"} \cup Gone
      BY <3>1 DEF IInv, SentInv, Types, ChildStates, Holding
    <3> QED BY <2>3, <3>2, <3>3 DEF ParentCanStep, ChildCanStep, WaitedFor, Holding
  <2>4. CASE pc = "signal"
    <3>1. todo # {} /\ First(todo) \in Tasks
      BY <2>4, FirstInSet DEF SignalInv, IInv, Types
    <3> QED BY <2>1, <2>4, <3>1 DEF ParentCanStep, WaitedFor
  <2>5. CASE pc = "reap"
    <3>1. todo = {}
      BY <2>5 DEF MoreTypes, AllSignalled
    <3> QED BY <2>5, <3>1 DEF SignalInv, ParentCanStep
  <2> QED BY <2>2, <2>3, <2>4, <2>5 DEF ParentCanStep, IInv, Types, ParentStates
<1> QED BY <1>1, SpecIInv, SpecMoreTypes, InitStart, NextStart, NextSignal, PTL DEF Spec
-----------------------------------------------------------------------------
(***************************************************************************)
(* No context goes on for ever: what the parent has left to do, as numbers *)
(* in the order of their weight.                                           *)
(***************************************************************************)
SigKnown == pc \in {"signal", "reap"} => sig # "none"

(* Starting, the block, waiting, ending (which may begin with a kill).     *)
Phase == CASE pc = "start" -> 4
           [] pc = "body" -> 3
           [] pc = "finish" \/ Killing("finish") -> 1
           [] pc = "over" -> 0
           [] OTHER -> 2

(* Tasks to start, or to wait for.                                         *)
TasksLeft == IF Phase \in {2, 4} THEN N - w ELSE 0

(* Wait's and its caller's places for one task.  What is left after a poll *)
(* that saw the process alive is what was left before it.                  *)
Stage == CASE pc = "startup" -> 7
           [] pc = "poll" \/ (pc = "get" /\ alive) -> 6
           [] pc = "get" /\ ~alive -> 5
           [] pc = "join" -> 4
           [] pc \in {"signal", "reap"} -> 3
           [] pc = "next" -> 2
           [] pc = "loop" -> 1
           [] OTHER -> 0

(* Signals that _KillChildren still may have to send: to all tasks, and of *)
(* the present one to those that did not get it.                           *)
Signals == IF pc \in {"signal", "reap"}
           THEN CASE sig = "xcpu" -> 3 [] sig = "term" -> 2 [] OTHER -> 1
           ELSE 0
Kills == IF pc = "signal" THEN Cardinality(todo) + Cardinality(todo \ killing) + 1
                          ELSE 0

Left == <<Phase, TasksLeft, Stage, Signals, Kills>>

(* The lexicographic order.                                                *)
Less(a, b) == \E i \in 1..5 : a[i] < b[i] /\ \A j \in 1..(i - 1) : a[j] = b[j]

(* Every step of the parent leaves it less to do, but for the rounds of    *)
(* polling a process that is alive; no other step gives it more to do.     *)
ParentShrinks ==
  [][ \/ /\ Left' = Left
         /\ ParentStep => alive' /\ {pc, pc'} = {"poll", "get"}
      \/ Less(Left', Left) ]_vars

(* How far the process of a step is from its end.                          *)
Ahead(s) ==
  CASE s = "new" -> 8
    [] s = "sem" -> 7
    [] s = "ready" -> 6
    [] s = "run" -> 5
    [] s = "done" -> 4
    [] s = "put" -> 3
    [] s = "release" -> 2
    [] s = "exit" -> 1
    [] OTHER -> 0

ChildrenShrink ==
  [][\A t \in Tasks : \/ child'[t] = child[t] /\ ~ChildOnly(t)
                      \/ Ahead(child'[t]) < Ahead(child[t])]_vars

LEMMA NextSigKnown == SigKnown /\ [Next]_vars => SigKnown'
<1> SUFFICES ASSUME SigKnown, [Next]_vars PROVE SigKnown'
  OBVIOUS
<1> USE DEF SigKnown
<1>1. CASE UNCHANGED vars \/ \E t \in Tasks : ChildOnly(t)
  BY <1>1, ChildKeeps DEF vars, parent
<1>2. CASE LeaveBlock \/ CollectErrors \/ SilentTimeout \/ JoinTimeout
  BY <1>2 DEF LeaveBlock, CollectErrors, SilentTimeout, JoinTimeout, BeginKill, Goto
<1>3. CASE StartFails \/ Start \/ EnterBlock \/ NextTask \/ SeeStarted
           \/ StartupTimeout \/ Poll \/ GetResult \/ GetNothing \/ Joined \/ Finish
  BY <1>3 DEF StartFails, Start, EnterBlock, NextTask, SeeStarted, StartupTimeout,
     Poll, GetResult, GetNothing, Joined, Finish, Goto
<1>4. CASE MarkKilling
  BY <1>4 DEF MarkKilling, parent
<1>5. CASE Reap \/ ReapTimeout
  BY <1>5 DEF Reap, ReapTimeout, Goto
<1>6. CASE \E t \in Tasks : SendSignal(t)
  BY <1>6 DEF SendSignal, Goto
<1> QED BY <1>1, <1>2, <1>3, <1>4, <1>5, <1>6, NextCases DEF ParentStep

(* Where the first of the numbers that differs is smaller.                 *)
LEMMA LessAt ==
  /\ Phase' < Phase => Less(Left', Left)
  /\ UNCHANGED Phase /\ TasksLeft' < TasksLeft => Less(Left', Left)
  /\ UNCHANGED <<Phase, TasksLeft>> /\ Stage' < Stage => Less(Left', Left)
  /\ UNCHANGED <<Phase, TasksLeft, Stage>> /\ Signals' < Signals => Less(Left', Left)
  /\ UNCHANGED <<Phase, TasksLeft, Stage, Signals>> /\ Kills' < Kills
       => Less(Left', Left)
<1> DEFINE At(i) == Left'[i] < Left[i] /\ \A j \in 1..(i - 1) : Left'[j] = Left[j]
<1>1. \A i \in 1..5 : At(i) => Less(Left', Left)
  BY DEF Less
<1>2. /\ Left[1] = Phase /\ Left[2] = TasksLeft /\ Left[3] = Stage
      /\ Left[4] = Signals /\ Left[5] = Kills
  BY DEF Left
<1>3. /\ Left'[1] = Phase' /\ Left'[2] = TasksLeft' /\ Left'[3] = Stage'
      /\ Left'[4] = Signals' /\ Left'[5] = Kills'
  BY DEF Left
<1>4. Phase' < Phase => At(1)
  BY <1>2, <1>3
<1>5. Phase' = Phase /\ TasksLeft' < TasksLeft => At(2)
  BY <1>2, <1>3
<1>6. Phase' = Phase /\ TasksLeft' = TasksLeft /\ Stage' < Stage => At(3)
  BY <1>2, <1>3
<1>7. UNCHANGED <<Phase, TasksLeft, Stage>> /\ Signals' < Signals => At(4)
  BY <1>2, <1>3
<1>8. UNCHANGED <<Phase, TasksLeft, Stage, Signals>> /\ Kills' < Kills => At(5)
  BY <1>2, <1>3
<1> HIDE DEF At
<1> QED BY <1>1, <1>4, <1>5, <1>6, <1>7, <1>8

(* The steps of the waiting loop that leave a task behind.                 *)
LEMMA LoopLess ==
  ASSUME IInv, \/ Start \/ EnterBlock \/ LeaveBlock \/ NextTask \/ SeeStarted
               \/ StartupTimeout \/ GetResult \/ SilentTimeout \/ Joined
               \/ JoinTimeout \/ CollectErrors \/ Finish
  PROVE  Less(Left', Left)
<1> USE DEF Goto
<1>w. N \in Nat /\ w \in 0..N
  BY ParallelTasksAssumption DEF IInv, Types
<1>1. CASE Start
  <2>1. pc = "start" /\ pc' = "start" /\ w' = w + 1
    BY <1>1 DEF Start
  <2>2. Phase = 4 /\ Phase' = 4
    BY <2>1 DEF Phase, Killing
  <2>3. TasksLeft = N - w /\ TasksLeft' = N - (w + 1)
    BY <2>1, <2>2 DEF TasksLeft
  <2>4. TasksLeft' < TasksLeft
    BY <2>3, <1>w
  <2> QED BY <2>2, <2>4, LessAt
<1>2. CASE EnterBlock
  <2>1. Phase = 4 /\ Phase' = 3
    BY <1>2 DEF EnterBlock, Phase, Killing
  <2> QED BY <2>1, LessAt
<1>3. CASE LeaveBlock
  <2>1. pc = "body" /\ (pc' \in {"finish", "loop"} \/ (pc' = "signal" /\ back' = "finish"))
    BY <1>3 DEF LeaveBlock, BeginKill
  <2>2. Phase = 3 /\ Phase' < 3
    BY <2>1 DEF Phase, Killing
  <2> QED BY <2>2, LessAt
<1>4. CASE NextTask
  <2>1. CASE pc = "loop" /\ w' = w + 1 /\ pc' = "startup"
    <3>1. Phase = 2 /\ Phase' = 2
      BY <2>1 DEF Phase, Killing
    <3>2. TasksLeft' < TasksLeft
      BY <2>1, <3>1, <1>w DEF TasksLeft
    <3> QED BY <3>1, <3>2, LessAt
  <2>2. CASE pc = "loop" /\ pc' = "finish"
    <3>1. Phase = 2 /\ Phase' = 1
      BY <2>2 DEF Phase, Killing
    <3> QED BY <3>1, LessAt
  <2> QED BY <1>4, <2>1, <2>2 DEF NextTask
<1>5. CASE SeeStarted \/ GetResult \/ Joined
  <2>1. \/ pc = "startup" /\ pc' = "poll"
        \/ pc = "get" /\ pc' = "join"
        \/ pc = "join" /\ pc' = "next"
    BY <1>5 DEF SeeStarted, GetResult, Joined
  <2>2. Phase = 2 /\ Phase' = 2
    BY <2>1 DEF Phase, Killing
  <2>3. TasksLeft' = TasksLeft
    BY <1>5, <2>2 DEF TasksLeft, SeeStarted, GetResult, Joined
  <2>4. Stage' < Stage
    BY <2>1 DEF Stage
  <2> QED BY <2>2, <2>3, <2>4, LessAt
<1>6. CASE SilentTimeout \/ JoinTimeout
  <2>1. pc \in {"get", "join"} /\ pc' = "signal" /\ back' = "next" /\ w' = w
    BY <1>6 DEF SilentTimeout, JoinTimeout, BeginKill
  <2>2. Phase = 2 /\ Phase' = 2
    BY <2>1 DEF Phase, Killing
  <2>3. TasksLeft' = TasksLeft
    BY <2>1, <2>2 DEF TasksLeft
  <2>4. Stage' < Stage
    BY <2>1 DEF Stage
  <2> QED BY <2>2, <2>3, <2>4, LessAt
<1>7. CASE CollectErrors
  <2>1. CASE pc = "next" /\ pc' = "loop" /\ w' = w
    <3>1. Phase = 2 /\ Phase' = 2
      BY <2>1 DEF Phase, Killing
    <3>2. TasksLeft' = TasksLeft
      BY <2>1, <3>1 DEF TasksLeft
    <3>3. Stage' < Stage
      BY <2>1 DEF Stage
    <3> QED BY <3>1, <3>2, <3>3, LessAt
  <2>2. CASE pc = "next" /\ (pc' = "finish" \/ (pc' = "signal" /\ back' = "finish"))
    <3>1. Phase = 2 /\ Phase' = 1
      BY <2>2 DEF Phase, Killing
    <3> QED BY <3>1, LessAt
  <2> QED BY <1>7, <2>1, <2>2 DEF CollectErrors, BeginKill
<1>8. CASE StartupTimeout \/ Finish
  <2>1. pc \in {"startup", "signal", "finish"} /\ pc' = "over"
    BY <1>8 DEF StartupTimeout, Finish
  <2>2. Phase \in {1, 2} /\ Phase' = 0
    BY <2>1 DEF Phase, Killing
  <2> QED BY <2>2, LessAt
<1> QED BY <1>1, <1>2, <1>3, <1>4, <1>5, <1>6, <1>7, <1>8

(* The sets that _KillChildren works on.                                   *)
LEMMA KillSets ==
  ASSUME IInv
  PROVE  /\ IsFiniteSet(todo) /\ IsFiniteSet(todo \ killing)
         /\ Cardinality(todo) \in Nat /\ Cardinality(todo \ killing) \in Nat
         /\ \A t \in todo : Cardinality(todo \ {t}) = Cardinality(todo) - 1
<1>1. IsFiniteSet(todo)
  <2>1. IsFiniteSet(Tasks)
    BY ParallelTasksAssumption, FS_Interval DEF Tasks
  <2> QED BY <2>1, FS_Subset DEF IInv, Types
<1>2. IsFiniteSet(todo \ killing)
  BY <1>1, FS_Subset
<1> QED BY <1>1, <1>2, FS_CardinalityType, FS_RemoveElement

(* Each step of _KillChildren.                                             *)
LEMMA KillLess ==
  ASSUME IInv, MoreTypes, SignalInv, SigKnown,
         MarkKilling \/ Reap \/ ReapTimeout \/ \E t \in Tasks : SendSignal(t)
  PROVE  Less(Left', Left)
<1>0. pc \in {"signal", "reap"}
  BY DEF MarkKilling, Reap, ReapTimeout, SendSignal
<1>1. CASE Reap
  <2>1. pc = "reap" /\ pc' = back /\ back' = back /\ w' = w /\ back \in {"next", "finish"}
    BY <1>1 DEF Reap, Goto, IInv, JudgedInv
  <2>2. Phase' = Phase
    BY <2>1 DEF Phase, Killing
  <2>3. TasksLeft' = TasksLeft
    BY <2>1, <2>2 DEF TasksLeft
  <2>4. Stage = 3 /\ Stage' < 3
    BY <2>1 DEF Stage
  <2> QED BY <2>2, <2>3, <2>4, LessAt
<1>2. ASSUME pc' \in {"signal", "reap"}, w' = w, back' = back
      PROVE  UNCHANGED <<Phase, TasksLeft, Stage>>
  <2>1. UNCHANGED Phase
    BY <1>0, <1>2 DEF Phase, Killing
  <2>2. UNCHANGED TasksLeft
    BY <1>2, <2>1 DEF TasksLeft
  <2>3. UNCHANGED Stage
    BY <1>0, <1>2 DEF Stage
  <2> QED BY <2>1, <2>2, <2>3
<1>3. CASE ReapTimeout
  <2>1. /\ pc = "reap" /\ pc' = "signal" /\ w' = w /\ back' = back
        /\ sig # "kill" /\ sig' = IF sig = "xcpu" THEN "term" ELSE "kill"
    BY <1>3 DEF ReapTimeout, Goto
  <2>2. sig \in {"xcpu", "term"}
    BY <2>1 DEF SigKnown, MoreTypes, ParentTypes
  <2>3. Signals' < Signals
    BY <2>1, <2>2 DEF Signals
  <2> QED BY <1>2, <2>1, <2>3, LessAt
<1>4. CASE MarkKilling
  <2>1. /\ pc = "signal" /\ pc' = pc /\ w' = w /\ back' = back /\ sig' = sig
        /\ todo' = todo /\ todo # {} /\ First(todo) \notin killing
        /\ killing' = killing \cup {First(todo)}
    BY <1>4 DEF MarkKilling, parent
  <2>2. First(todo) \in todo \ killing
    BY <2>1, FirstInSet DEF IInv, Types
  <2>3. todo \ killing' = (todo \ killing) \ {First(todo)}
    BY <2>1
  <2>4. Cardinality(todo \ killing') = Cardinality(todo \ killing) - 1
    BY <2>2, <2>3, KillSets, FS_RemoveElement
  <2>5. Kills' < Kills
    BY <2>1, <2>4, KillSets DEF Kills
  <2>6. UNCHANGED Signals
    BY <2>1 DEF Signals
  <2> QED BY <1>2, <2>1, <2>5, <2>6, LessAt
<1>5. ASSUME NEW t \in Tasks, SendSignal(t) PROVE Less(Left', Left)
  <2>1. /\ pc = "signal" /\ w' = w /\ back' = back /\ sig' = sig
        /\ pc' = IF todo = {t} THEN "reap" ELSE "signal"
        /\ t \in killing /\ killing' = killing /\ todo' = todo \ {t}
    BY <1>5 DEF SendSignal, Goto
  <2>2. t \in todo
    BY <1>5, FirstInSet DEF SendSignal, IInv, Types
  <2>3. todo' \ killing' = todo \ killing
    BY <2>1
  <2>4. Cardinality(todo') = Cardinality(todo) - 1
    BY <2>1, <2>2, KillSets
  <2>5. Kills = Cardinality(todo) + Cardinality(todo \ killing) + 1
    BY <2>1 DEF Kills
  <2>6. Kills' \in {0, Cardinality(todo') + Cardinality(todo' \ killing') + 1}
    BY DEF Kills
  <2>7. Cardinality(todo') + Cardinality(todo' \ killing') + 1 = Kills - 1
    <3>1. Cardinality(todo') + Cardinality(todo' \ killing') + 1
            = (Cardinality(todo) - 1) + Cardinality(todo \ killing) + 1
      BY <2>3, <2>4, Zenon
    <3>2. Cardinality(todo) \in Nat /\ Cardinality(todo \ killing) \in Nat
      BY KillSets
    <3> HIDE DEF Kills
    <3> QED BY <2>5, <3>1, <3>2
  <2>8. Kills' < Kills
    <3>1. Kills \in Nat /\ 0 < Kills
      BY <2>5, KillSets
    <3> QED BY <2>6, <2>7, <3>1
  <2>9. UNCHANGED Signals
    BY <2>1 DEF Signals
  <2> QED BY <1>2, <2>1, <2>8, <2>9, LessAt
<1> QED BY <1>1, <1>3, <1>4, <1>5

(* A round of polling.                                                     *)
LEMMA PollLess ==
  ASSUME IInv, MoreTypes, Poll \/ GetNothing
  PROVE  \/ Left' = Left /\ alive' /\ {pc, pc'} = {"poll", "get"}
         \/ Less(Left', Left)
<1>1. /\ w' = w /\ back' = back /\ alive \in BOOLEAN
      /\ \/ pc = "poll" /\ pc' = "get" /\ alive' \in BOOLEAN
         \/ pc = "get" /\ pc' = "poll" /\ alive' = alive /\ alive
         \/ pc = "get" /\ pc' = "join" /\ alive' = alive /\ ~alive
  BY DEF Poll, GetNothing, Goto, MoreTypes, ParentTypes
<1>2. Phase = 2 /\ Phase' = 2
  BY <1>1 DEF Phase, Killing
<1>3. UNCHANGED TasksLeft
  BY <1>1, <1>2 DEF TasksLeft
<1>4. UNCHANGED <<Signals, Kills>>
  BY <1>1 DEF Signals, Kills
<1>5. CASE pc' # "join" /\ alive'
  <2>1. UNCHANGED Stage
    BY <1>1, <1>5 DEF Stage
  <2> QED BY <1>1, <1>2, <1>3, <1>4, <1>5, <2>1 DEF Left
<1>6. CASE pc' = "join" \/ ~alive'
  <2>1. Stage' < Stage
    BY <1>1, <1>6 DEF Stage
  <2> QED BY <1>2, <1>3, <2>1, LessAt
<1> QED BY <1>5, <1>6

(* The parent of a ParallelTasks context takes a bounded number of steps   *)
(* besides polling a process that is alive, whichever of its children      *)
(* fail, hang, are silent, die or have to be killed; and it never gets     *)
(* more to do.  With ParentNeverStuck this is Termination but for fairness.*)
THEOREM ParentIsFinite == Spec => ParentShrinks /\ [](Left \in Nat \X Nat \X Nat \X Nat \X Nat)
<1>1. ASSUME IInv, MoreTypes, SignalInv, SigKnown, [Next]_vars
      PROVE  \/ Left' = Left /\ (ParentStep => alive' /\ {pc, pc'} = {"poll", "get"})
             \/ Less(Left', Left)
  <2>1. CASE ParentStep
    BY <1>1, <2>1, LoopLess, KillLess, PollLess DEF ParentStep
  <2>2. CASE ~ParentStep /\ (UNCHANGED vars \/ \E t \in Tasks : ChildOnly(t))
    <3>1. UNCHANGED <<parent, killing>>
      BY <2>2, ChildKeeps DEF vars
    <3>2. Left' = Left
      BY <3>1 DEF parent, Left, Phase, Killing, TasksLeft, Stage, Signals, Kills
    <3> QED BY <2>2, <3>2
  <2>3. CASE StartFails
    <3>1. Phase = 4 /\ Phase' = 0
      BY <2>3 DEF StartFails, Goto, Phase, Killing
    <3> QED BY <3>1, LessAt
  <2> QED BY <1>1, <2>1, <2>2, <2>3, NextCases
<1>2. IInv /\ MoreTypes /\ SignalInv /\ SigKnown /\ [Next]_vars =>
        [\/ Left' = Left /\ (ParentStep => alive' /\ {pc, pc'} = {"poll", "get"})
         \/ Less(Left', Left)]_vars
  BY <1>1
<1>3. IInv => Left \in Nat \X Nat \X Nat \X Nat \X Nat
  <2> SUFFICES ASSUME IInv PROVE Left \in Nat \X Nat \X Nat \X Nat \X Nat
    OBVIOUS
  <2>1. N \in Nat /\ w \in 0..N
    BY ParallelTasksAssumption DEF IInv, Types
  <2>2. Phase \in Nat /\ Stage \in Nat /\ Signals \in Nat
    BY DEF Phase, Stage, Signals
  <2>3. TasksLeft \in Nat
    BY <2>1 DEF TasksLeft
  <2>4. Kills \in Nat
    BY KillSets DEF Kills
  <2> QED BY <2>2, <2>3, <2>4 DEF Left
<1>4. Init => SigKnown
  BY DEF Init, SigKnown
<1> QED BY <1>2, <1>3, <1>4, NextSigKnown, SpecIInv, SpecMoreTypes, InitStart, NextSignal,
           PTL DEF Spec, ParentShrinks

(* Where the next step of a process may take it.                           *)
Onward(from, to) ==
  \/ from = "sem" /\ to = "ready"
  \/ from = "ready" /\ to = "run"
  \/ from = "run" /\ to = "done"
  \/ from = "done" /\ to \in {"put", "exit"}
  \/ from = "put" /\ to = "release"
  \/ from = "release" /\ to = "exit"
  \/ from \notin Gone /\ to = "dead"

LEMMA ChildOnward ==
  ASSUME NEW u \in Tasks, ChildOnly(u)
  PROVE  \E place \in ChildStates :
           child' = [child EXCEPT ![u] = place] /\ Onward(child[u], place)
<1>1. CASE AcquirePermit(u) \/ Begin(u) \/ EndStep(u)
  BY <1>1 DEF AcquirePermit, Begin, EndStep, Move, Onward, ChildStates, Gone, Holding
<1>2. CASE CheckKilling(u) \/ PutResult(u) \/ ReleasePermit(u)
  BY <1>2 DEF CheckKilling, PutResult, ReleasePermit, Move, Onward, ChildStates, Gone,
     Holding
<1>3. CASE Exit(u) \/ Crash(u)
  BY <1>3 DEF Exit, Crash, Move, Onward, ChildStates, Gone, Holding
<1> QED BY <1>1, <1>2, <1>3 DEF ChildOnly

(* The process of a step takes a bounded number of steps: it is started    *)
(* once, each step of its own takes it on, and no signal takes it back.    *)
THEOREM ChildrenAreFinite == Spec => ChildrenShrink
<1>1. ASSUME IInv, [Next]_vars, NEW t \in Tasks, child'[t] # child[t]
      PROVE  Ahead(child'[t]) < Ahead(child[t])
  <2> DEFINE From(a, b) == child[t] = a /\ child'[t] = b
  <2>1. \/ From("new", "sem") \/ From("sem", "ready") \/ From("ready", "run")
        \/ From("run", "done") \/ From("done", "put") \/ From("done", "exit")
        \/ From("put", "release") \/ From("release", "exit")
        \/ child[t] \notin Gone /\ child'[t] \in Gone
    <3> USE DEF Move
    <3>1. ASSUME NEW u \in Tasks, ChildOnly(u)
          PROVE  \/ From("sem", "ready") \/ From("ready", "run")
                 \/ From("run", "done") \/ From("done", "put") \/ From("done", "exit")
                 \/ From("put", "release") \/ From("release", "exit")
                 \/ child[t] \notin Gone /\ child'[t] \in Gone
      <4>1. PICK place \in ChildStates :
              /\ child' = [child EXCEPT ![u] = place]
              /\ Onward(child[u], place)
        BY <3>1, ChildOnward
      <4> child \in [Tasks -> ChildStates]
        BY <1>1 DEF IInv, Types
      <4>2. u = t
        BY <1>1, <4>1
      <4>3. child'[t] = place
        BY <4>1, <4>2
      <4> QED BY <4>1, <4>2, <4>3 DEF Onward, Gone
    <3>2. CASE Start
      <4> child \in [Tasks -> ChildStates] /\ w \in Nat
        BY <1>1, ParallelTasksAssumption DEF IInv, Types
      <4>1. pc = "start" /\ child' = [child EXCEPT ![w + 1] = "sem"]
        BY <3>2 DEF Start
      <4>2. w + 1 = t
        BY <1>1, <4>1
      <4>3. child[t] = "new"
        BY <1>1, <4>1, <4>2 DEF IInv, SentInv
      <4>4. child'[t] = "sem"
        BY <4>1, <4>2
      <4> QED BY <4>3, <4>4
    <3>3. ASSUME NEW u \in Tasks, SendSignal(u)
          PROVE  From("run", "done") \/ (child[t] \notin Gone /\ child'[t] \in Gone)
      BY <1>1, <3>3 DEF SendSignal, Gone, IInv, Types
    <3>4. CASE UNCHANGED child
      BY <1>1, <3>4
    <3>5. ASSUME ParentStep, ~Start, \A u \in Tasks : ~SendSignal(u)
          PROVE  UNCHANGED child
      <4>1. CASE EnterBlock \/ LeaveBlock \/ NextTask \/ SeeStarted \/ StartupTimeout
        BY <4>1 DEF children, EnterBlock, LeaveBlock, NextTask, SeeStarted, StartupTimeout
      <4>2. CASE Poll \/ GetResult \/ GetNothing \/ SilentTimeout \/ Joined \/ JoinTimeout
        BY <4>2 DEF children, Poll, GetResult, GetNothing, SilentTimeout, Joined, JoinTimeout
      <4>3. CASE CollectErrors \/ Finish \/ MarkKilling \/ Reap \/ ReapTimeout
        BY <4>3 DEF children, CollectErrors, Finish, MarkKilling, Reap, ReapTimeout
      <4> QED BY <3>5, <4>1, <4>2, <4>3 DEF ParentStep
    <3>6. CASE StartFails
      BY <1>1, <3>6 DEF children, StartFails
    <3>7. CASE UNCHANGED vars
      BY <1>1, <3>7 DEF vars, children
    <3>8. CASE ParentStep
      BY <3>2, <3>3, <3>4, <3>5, <3>8, Zenon
    <3>9. CASE Next
      BY <3>1, <3>6, <3>7, <3>8, <3>9, NextCases, Zenon
    <3> QED BY <1>1, <3>7, <3>9, Zenon
  <2>2. child[t] \in ChildStates
    BY <1>1 DEF IInv, Types
  <2> QED BY <2>1, <2>2 DEF Ahead, Gone, ChildStates, Holding
<1>2. ASSUME IInv, NEW t \in Tasks, ChildOnly(t) PROVE child'[t] # child[t]
  <2>1. PICK place \in ChildStates :
          child' = [child EXCEPT ![t] = place] /\ Onward(child[t], place)
    BY <1>2, ChildOnward
  <2>2. child \in [Tasks -> ChildStates]
    BY <1>2 DEF IInv, Types
  <2> QED BY <2>1, <2>2 DEF Onward, Gone
<1>3. IInv /\ [Next]_vars =>
      [\A t \in Tasks : \/ child'[t] = child[t] /\ ~ChildOnly(t)
                        \/ Ahead(child'[t]) < Ahead(child[t])]_vars
  <2>1. ASSUME IInv, [Next]_vars, NEW t \in Tasks
        PROVE  \/ child'[t] = child[t] /\ ~ChildOnly(t)
               \/ Ahead(child'[t]) < Ahead(child[t])
    BY <1>1, <1>2, <2>1, Zenon
  <2> QED BY <2>1
<1> QED BY <1>3, SpecIInv, PTL DEF Spec, ChildrenShrink
=============================================================================
