---------------------------- MODULE SlaveStatus -----------------------------
(***************************************************************************)
(* WaitForSlavesToComplete of a master build (cbuildbot/manifest_version.py*)
(* and build_status.py over lib/timeout_util.py): poll Buildbucket until   *)
(* the important slaves have completed, or one has not started in time, or *)
(* the time is over.  A poll is two rounds of calls, one call per build,   *)
(* and the builds go on between any two of them.  A call that fails ends   *)
(* the wait with its error; only a ProtocolError of the second round is    *)
(* caught, and counts as "no status".  In the second round a build says    *)
(* which config it is of only by an output property, cbb_config: the answer*)
(* about a build without it (one that was cancelled before it started, for *)
(* instance) names no build, and is not counted, whatever its status.      *)
(*                                                                         *)
(* Time is in ticks; any number of calls fit between two ticks, and any    *)
(* number of ticks pass during a call.                                     *)
(***************************************************************************)
EXTENDS Integers, FiniteSets

CONSTANTS Important,            \* the builds the master waits for
          Experimental,         \* other builds, cancelled at the end
          WaitTimeout,          \* timeout of WaitForSlavesToComplete
          Fallback,             \* fallback_timeout of WaitForSuccess
          Period,               \* SLEEP_TIMEOUT
          StartDeadline,        \* BUILD_START_TIMEOUT_MIN
          MainThread            \* WaitForSuccess runs in the main thread; in
                                \* another one it sets no SIGALRM

ASSUME SlaveStatusAssumption ==
  /\ IsFiniteSet(Important) /\ Important # {}
  /\ IsFiniteSet(Experimental) /\ Important \cap Experimental = {}
  /\ WaitTimeout \in Nat /\ Fallback \in Nat \ {0}
  /\ Period \in Nat /\ StartDeadline \in Nat /\ MainThread \in BOOLEAN

VARIABLES
  real,         \* Buildbucket's status of each build
  named,        \* important builds with the output property cbb_config
  pc,           \* "getBuild" and "getStatus": the rounds of UpdateSlaveStatus;
                \* "decide": ShouldWait; "sleep"; "done"
  looping,      \* inside WaitForSuccess, not in SlaveStatus.__init__
  asked,        \* builds asked about in this round
  reading,      \* in the second round: the build whose properties have been
                \* read, and whose status has not
  usable,       \* the same build, if its properties had cbb_config
  sched,        \* scheduled_builds
  succ, ended,  \* new builds that have completed, from either round
  completed,    \* completed_builds
  age,          \* time since start_time, up to just past the start deadline
  waited,       \* time in WaitForSuccess
  slept,        \* time in time.sleep
  outcome,      \* why the wait is over
  cancelled,    \* builds in BatchCancelBuilds
  endedBefore,  \* builds that had ended when the poll began
  lost          \* builds without an answer in the poll's second round

vars == <<real, named, pc, looping, asked, reading, usable, sched, succ, ended, completed, age, waited,
          slept, outcome, cancelled, endedBefore, lost>>
clocks == <<age, waited, slept>>
poll == <<asked, reading, usable, sched, succ, ended, endedBefore, lost>>

Builds == Important \cup Experimental

(* Statuses of a build that has ended, and those of them that              *)
(* BB_STATUS_DICT translates to one of BUILDER_COMPLETED_STATUSES:         *)
(* INFRA_FAILURE is missing there.  "FAILURE" stands for CANCELED too,     *)
(* which is treated in the same way everywhere.                            *)
Ended == {"SUCCESS", "FAILURE", "INFRA_FAILURE"}
Translated == Ended \ {"INFRA_FAILURE"}

EndedBuilds == {b \in Important : real[b] \in Translated}

Init == /\ real = [b \in Builds |-> "SCHEDULED"] /\ named = {}
        /\ pc = "getBuild" /\ looping = FALSE
        /\ asked = {} /\ reading = {} /\ usable = {}
        /\ sched = {} /\ succ = {} /\ ended = {}
        /\ completed = {}
        /\ age = 0 /\ waited = 0 /\ slept = 0
        /\ outcome = "none" /\ cancelled = {}
        /\ endedBefore = {} /\ lost = {}
-----------------------------------------------------------------------------
(*                         Buildbucket and the clock                       *)

Unmoved == <<pc, looping, poll, completed, outcome, cancelled>>

StartBuild(b) ==
  /\ real[b] = "SCHEDULED"
  /\ real' = [real EXCEPT ![b] = "STARTED"]
  /\ UNCHANGED <<named, Unmoved, clocks>>

(* The build's recipe reports its properties, at some point of its run.    *)
ReportProperties(b) ==
  /\ real[b] = "STARTED" /\ b \notin named
  /\ named' = named \cup {b}
  /\ UNCHANGED <<real, Unmoved, clocks>>

(* A build that has not started can be cancelled, or its machine fail. *)
EndBuild(b, s) ==
  /\ real[b] = "STARTED" \/ (real[b] = "SCHEDULED" /\ s # "SUCCESS")
  /\ real' = [real EXCEPT ![b] = s]
  /\ UNCHANGED <<named, Unmoved, clocks>>

(* SIGALRM comes before any more time passes. *)
Tick ==
  /\ pc # "done" /\ (MainThread => waited < WaitTimeout + Fallback)
  /\ age' = IF age <= StartDeadline THEN age + 1 ELSE age
  /\ waited' = IF looping /\ waited < WaitTimeout + Fallback THEN waited + 1 ELSE waited
  /\ slept' = IF pc = "sleep" /\ slept < Period THEN slept + 1 ELSE slept
  /\ UNCHANGED <<real, named, Unmoved>>
-----------------------------------------------------------------------------
(*                            UpdateSlaveStatus                            *)

Done(why) == pc' = "done" /\ outcome' = why

(* GetAllSlaveBuildbucketInfo: one GetBuild per build.  Builds completed   *)
(* in earlier polls are asked about, and left out of the new statuses.     *)
GetBuild(b) ==
  /\ pc = "getBuild" /\ b \notin asked
  /\ asked' = asked \cup {b}
  /\ sched' = IF b \notin completed /\ real[b] = "SCHEDULED" THEN sched \cup {b} ELSE sched
  /\ succ' = IF b \notin completed /\ real[b] = "SUCCESS" THEN succ \cup {b} ELSE succ
  /\ UNCHANGED <<real, named, pc, looping, reading, usable, ended, completed, clocks,
                 outcome, cancelled, endedBefore, lost>>

GotBuilds ==
  /\ pc = "getBuild" /\ asked = Important
  /\ pc' = "getStatus" /\ asked' = {}
  /\ UNCHANGED <<real, named, looping, reading, usable, sched, succ, ended, completed,
                 clocks, outcome, cancelled, endedBefore, lost>>

(* GetAllSlaveCIDBStatusInfo, which reads Buildbucket too: GetBuildStatus   *)
(* asks about each build twice, for its properties and for its status.     *)
(* ProtocolError is caught there, and leaves neither name nor status.      *)
GetBuildProperties(b, answered) ==
  /\ pc = "getStatus" /\ reading = {} /\ b \notin asked
  /\ IF answered
       THEN reading' = {b} /\ usable' = {b} \cap named /\ UNCHANGED <<asked, lost>>
       ELSE asked' = asked \cup {b} /\ lost' = lost \cup {b} /\ UNCHANGED <<reading, usable>>
  /\ UNCHANGED <<real, named, pc, looping, sched, succ, ended, completed, clocks,
                 outcome, cancelled, endedBefore>>

(* The second call is over, with or without an answer. *)
StatusRead(b, answered) ==
  /\ pc = "getStatus" /\ b \in reading
  /\ reading' = {} /\ usable' = {}
  /\ asked' = asked \cup {b}
  /\ lost' = IF answered THEN lost ELSE lost \cup {b}
  /\ UNCHANGED <<real, named, pc, looping, sched, succ, completed, clocks, outcome,
                 cancelled, endedBefore>>

(* Mutant: a build without an answer is taken for one that has ended. *)
GetBuildStatusLax(b, answered) ==
  /\ StatusRead(b, answered)
  /\ ended' = IF b \notin completed /\ b \in usable /\ (answered => real[b] \in Translated)
              THEN ended \cup {b} ELSE ended

(* The status is translated, and kept under the name of the build.         *)
GetBuildStatus(b, answered) ==
  /\ StatusRead(b, answered)
  /\ ended' = IF b \notin completed /\ b \in usable /\ answered /\ real[b] \in Translated
              THEN ended \cup {b} ELSE ended

(* The next poll begins. *)
BeginPoll == /\ pc' = "getBuild"
             /\ asked' = {} /\ reading' = {} /\ usable' = {}
             /\ sched' = {} /\ succ' = {} /\ ended' = {}
             /\ endedBefore' = EndedBuilds /\ lost' = {}

(* Mutant: completed_builds is what this poll found. *)
GotStatusesForgetting ==
  /\ pc = "getStatus" /\ asked = Important
  /\ completed' = succ \cup ended
  /\ \/ looping /\ pc' = "decide" /\ UNCHANGED <<looping, poll>>
     \/ ~looping /\ looping' = TRUE /\ BeginPoll
  /\ UNCHANGED <<real, named, clocks, outcome, cancelled>>

(* Mutant: the builds that a poll found need not be expected ones. *)
GotStatusesOfAll ==
  /\ pc = "getStatus" /\ asked = Important
  /\ completed' = completed \cup succ \cup ended
                   \cup {b \in Experimental : real[b] = "SUCCESS"}
  /\ \/ looping /\ pc' = "decide" /\ UNCHANGED <<looping, poll>>
     \/ ~looping /\ looping' = TRUE /\ BeginPoll
  /\ UNCHANGED <<real, named, clocks, outcome, cancelled>>

(* The first poll is the constructor's; WaitForSuccess begins with another.*)
GotStatuses ==
  /\ pc = "getStatus" /\ asked = Important
  /\ completed' = completed \cup succ \cup ended
  /\ \/ looping /\ pc' = "decide" /\ UNCHANGED <<looping, poll>>
     \/ ~looping /\ looping' = TRUE /\ BeginPoll
  /\ UNCHANGED <<real, named, clocks, outcome, cancelled>>
-----------------------------------------------------------------------------
(*                     ShouldWait and WaitForSuccess                       *)

(* _Completed compares numbers. *)
Completed == Cardinality(completed) = Cardinality(Important)

(* Mutant: the other builds need not have completed. *)
ShouldFailEarly == age > StartDeadline /\ sched # {}

ShouldFailForBuilderStartTimeout ==
  /\ age > StartDeadline
  /\ Cardinality(sched) + Cardinality(completed) = Cardinality(Important)
  /\ sched # {}

(* _GetUncompletedExperimentalBuildbucketIDs asks again; the answers about *)
(* builds that have ended may get lost, or name no build.                  *)
UncompletedExperimental ==
  {Experimental \ es : es \in SUBSET {b \in Experimental : real[b] \in Translated}}

ShouldWait ==
  /\ pc = "decide"
  /\ \/ /\ Completed
        /\ cancelled' \in UncompletedExperimental
        /\ Done("completed") /\ UNCHANGED slept
     \/ /\ ~Completed /\ ShouldFailForBuilderStartTimeout
        /\ \E es \in UncompletedExperimental :
             cancelled' = es \cup (Important \ completed)
        /\ Done("deadline") /\ UNCHANGED slept
     \/ /\ ~Completed /\ ~ShouldFailForBuilderStartTimeout
        /\ WaitTimeout - waited <= Period
        /\ Done("timedout") /\ UNCHANGED <<cancelled, slept>>
     \/ /\ ~Completed /\ ~ShouldFailForBuilderStartTimeout
        /\ WaitTimeout - waited > Period
        /\ pc' = "sleep" /\ slept' = 0 /\ UNCHANGED <<outcome, cancelled>>
  /\ UNCHANGED <<real, named, looping, poll, completed, age, waited>>

Wake ==
  /\ pc = "sleep" /\ slept = Period
  /\ BeginPoll
  /\ UNCHANGED <<real, named, looping, completed, clocks, outcome, cancelled>>

(* A call raises, in UpdateSlaveStatus, about an experimental build, or in *)
(* BatchCancelBuilds; nothing on the way out catches the error.            *)
CallFails ==
  /\ pc \in {"getBuild", "getStatus", "decide"}
  /\ Done("error")
  /\ UNCHANGED <<real, named, looping, poll, completed, clocks, cancelled>>

(* Mutant: no alarm while a call is under way. *)
AlarmAsleep ==
  /\ MainThread /\ pc = "sleep" /\ waited >= WaitTimeout + Fallback
  /\ Done("timedout")
  /\ UNCHANGED <<real, named, looping, poll, completed, clocks, cancelled>>

(* SIGALRM raises TimeoutError out of whatever WaitForSuccess is doing.    *)
(* Only the main thread sets it: elsewhere a call may hang for ever.       *)
Alarm ==
  /\ MainThread /\ looping /\ pc # "done" /\ waited >= WaitTimeout + Fallback
  /\ Done("timedout")
  /\ UNCHANGED <<real, named, looping, poll, completed, clocks, cancelled>>
-----------------------------------------------------------------------------
Next == \/ \E b \in Builds : StartBuild(b) \/ \E s \in Ended : EndBuild(b, s)
        \/ Tick
        \/ \E b \in Important :
             \/ ReportProperties(b) \/ GetBuild(b)
             \/ \E a \in BOOLEAN : GetBuildProperties(b, a) \/ GetBuildStatus(b, a)
        \/ GotBuilds \/ GotStatuses \/ ShouldWait \/ Wake \/ CallFails \/ Alarm

(* Time passes and the alarm is delivered.  No call need ever return.      *)
Fairness == WF_vars(Tick) /\ WF_vars(Alarm)

Spec == Init /\ [][Next]_vars /\ Fairness
-----------------------------------------------------------------------------
(* Types, and the limits of the clocks. *)
TypeOK ==
  /\ real \in [Builds -> {"SCHEDULED", "STARTED"} \cup Ended]
  /\ named \subseteq Important
  /\ pc \in {"getBuild", "getStatus", "decide", "sleep", "done"}
  /\ looping \in BOOLEAN
  /\ asked \subseteq Important /\ reading \subseteq Important /\ usable \subseteq reading
  /\ sched \subseteq Important
  /\ succ \subseteq Important /\ ended \subseteq Important
  /\ completed \subseteq Important
  /\ age \in 0..StartDeadline + 1 /\ waited \in 0..WaitTimeout + Fallback
  /\ slept \in 0..Period
  /\ outcome \in {"none", "completed", "deadline", "timedout", "error"}
  /\ cancelled \subseteq Builds
  /\ endedBefore \subseteq Important /\ lost \subseteq Important

(* The master goes on as with completed slaves only when every important   *)
(* build has really ended, though _Completed compares two numbers, made    *)
(* from statuses of different moments.                                     *)
StopsWhenDone ==
  outcome = "completed" => \A b \in Important : real[b] \in Translated

(* "If a build hasn't started within BUILD_START_TIMEOUT_MIN and the rest  *)
(* of the builds have finished": then the important builds that the master *)
(* cancels are those it saw scheduled in this poll, and there are some.    *)
(* It takes a build that was scheduled in the first round and had ended in *)
(* the second, which is counted twice, to cancel one that is running.      *)
DeadlineSparesRunning ==
  outcome = "deadline" /\ sched \cap completed = {} =>
    cancelled \cap Important # {} /\ cancelled \cap Important \subseteq sched

(* Whatever had ended when the last poll began has been counted, in that   *)
(* poll or an earlier one: if it succeeded, and else if its properties     *)
(* name it and neither answer about it was lost.                           *)
EndedAreCounted ==
  pc \in {"decide", "sleep"} =>
    \A b \in endedBefore : real[b] = "SUCCESS" \/ b \in named \ lost => b \in completed

(* Once in WaitForSuccess the master gets out, even if a call hangs, in    *)
(* the main thread.                                                        *)
LoopEnds == MainThread => (looping ~> (pc = "done"))
=============================================================================
