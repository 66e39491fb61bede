------------------------- MODULE SlaveStatusProofs --------------------------
(***************************************************************************)
(* Proofs about SlaveStatus for any builds and times.  A status that says  *)
(* a build has ended stays true (Counted), although it is read at one      *)
(* moment and used at another; the comparisons of numbers become statements*)
(* about sets because everything that is counted is an important build.    *)
(***************************************************************************)
EXTENDS SlaveStatus, FiniteSetTheorems, TLAPS

Counted == completed \cup succ \cup ended \cup endedBefore \subseteq EndedBuilds

(* What EndedAreCounted says, as far as the poll has got: of the builds    *)
(* asked about in either round, and of the one whose properties are read.  *)
SuccessesFound ==
  \A b \in endedBefore :
    /\ real[b] = "SUCCESS"
    /\ \/ pc = "getBuild" /\ b \in asked
       \/ pc = "getStatus"
    => b \in completed \cup succ

NamedFound ==
  pc = "getStatus" =>
    \A b \in endedBefore \cap named :
      /\ b \in asked \ lost => b \in completed \cup ended
      /\ b \in reading => b \in usable

AskedCounted == SuccessesFound /\ NamedFound

ReadingOpen == /\ pc = "getBuild" => reading = {}
               /\ pc = "getStatus" => reading \cap asked = {}

AllCounted == outcome = "completed" => completed = Important

Undecided == pc # "done" => outcome = "none"

IInv == TypeOK /\ Counted /\ AskedCounted /\ EndedAreCounted /\ AllCounted
        /\ DeadlineSparesRunning /\ Undecided /\ ReadingOpen
-----------------------------------------------------------------------------
LEMMA CompletedAll ==
  ASSUME TypeOK, Completed PROVE completed = Important
BY SlaveStatusAssumption, FS_Subset DEF TypeOK, Completed

LEMMA UncompletedScheduled ==
  ASSUME TypeOK, ShouldFailForBuilderStartTimeout, sched \cap completed = {}
  PROVE  Important \ completed = sched
<1>1. /\ IsFiniteSet(Important) /\ sched \subseteq Important
      /\ completed \subseteq Important
  BY SlaveStatusAssumption DEF TypeOK
<1>2. IsFiniteSet(sched) /\ IsFiniteSet(completed)
  BY <1>1, FS_Subset
<1>3. Cardinality(sched \cup completed) =
        Cardinality(sched) + Cardinality(completed) - Cardinality(sched \cap completed)
  BY <1>2, FS_Union
<1>4. Cardinality(sched \cap completed) = 0
  BY FS_EmptySet
<1>5. Cardinality(sched) \in Nat /\ Cardinality(completed) \in Nat
  BY <1>2, FS_CardinalityType
<1>6. Cardinality(sched \cup completed) = Cardinality(Important)
  BY <1>3, <1>4, <1>5 DEF ShouldFailForBuilderStartTimeout
<1>7. sched \cup completed = Important
  BY <1>1, <1>6, FS_Subset
<1> QED BY <1>7

LEMMA InitInv == Init => IInv
<1> SUFFICES ASSUME Init PROVE IInv
  OBVIOUS
<1>1. TypeOK
  <2>1. looping \in BOOLEAN
    BY DEF Init
  <2>2. /\ age \in 0..StartDeadline + 1 /\ waited \in 0..WaitTimeout + Fallback
        /\ slept \in 0..Period
    BY SlaveStatusAssumption DEF Init
  <2>3. /\ asked \subseteq Important /\ reading \subseteq Important /\ named \subseteq Important
        /\ usable \subseteq reading /\ sched \subseteq Important
        /\ succ \subseteq Important /\ ended \subseteq Important
        /\ completed \subseteq Important /\ cancelled \subseteq Builds
        /\ endedBefore \subseteq Important /\ lost \subseteq Important
    BY DEF Init
  <2>4. /\ real \in [Builds -> {"SCHEDULED", "STARTED"} \cup Ended]
        /\ pc = "getBuild" /\ outcome = "none"
    BY DEF Init
  <2> QED BY <2>1, <2>2, <2>3, <2>4 DEF TypeOK
<1>2. Counted /\ AskedCounted /\ EndedAreCounted /\ AllCounted
      /\ DeadlineSparesRunning /\ Undecided /\ ReadingOpen
  BY DEF Init, Counted, AskedCounted, SuccessesFound, NamedFound, EndedAreCounted, AllCounted,
    DeadlineSparesRunning, Undecided, ReadingOpen
<1> QED BY <1>1, <1>2 DEF IInv
-----------------------------------------------------------------------------
(* What is known of a build that has ended does not change any more. *)
LEMMA EndedFixed ==
  ASSUME TypeOK, Next, NEW b \in Important, real[b] \in Translated
  PROVE  real'[b] = real[b] /\ (b \in named' => b \in named)
<1>1. ASSUME NEW c \in Builds, StartBuild(c) \/ \E s \in Ended : EndBuild(c, s)
      PROVE  real'[b] = real[b] /\ named' = named
  BY <1>1 DEF StartBuild, EndBuild, Translated, Ended, TypeOK, Builds
<1>2. ASSUME NEW c \in Important, ReportProperties(c)
      PROVE  real' = real /\ (b \in named' => b \in named)
  BY <1>2 DEF ReportProperties, Translated, Ended
<1>3. CASE UNCHANGED <<real, named>>
  BY <1>3
<1> QED BY <1>1, <1>2, <1>3 DEF Next, Tick, GetBuild, GetBuildProperties, GetBuildStatus,
           StatusRead, GotBuilds, GotStatuses, ShouldWait, Wake, CallFails, Alarm

LEMMA EndedStay == ASSUME TypeOK, Next PROVE EndedBuilds \subseteq EndedBuilds'
BY EndedFixed DEF EndedBuilds

LEMMA TypePreserved == ASSUME TypeOK, Next PROVE TypeOK'
<1> USE SlaveStatusAssumption DEF TypeOK
<1>1. CASE \E b \in Builds : StartBuild(b) \/ \E s \in Ended : EndBuild(b, s)
  BY <1>1 DEF StartBuild, EndBuild, Unmoved, clocks, poll
<1>2. CASE Tick
  BY <1>2 DEF Tick, Unmoved, poll
<1>3. CASE \E b \in Important : ReportProperties(b) \/ GetBuild(b)
  BY <1>3 DEF ReportProperties, GetBuild, Unmoved, clocks, poll
<1>4. CASE \E b \in Important, a \in BOOLEAN : GetBuildProperties(b, a) \/ GetBuildStatus(b, a)
  <2>1. PICK b \in Important, a \in BOOLEAN : GetBuildProperties(b, a) \/ GetBuildStatus(b, a)
    BY <1>4
  <2>2. CASE GetBuildProperties(b, a)
    BY <2>2 DEF GetBuildProperties, clocks
  <2>3. CASE GetBuildStatus(b, a)
    BY <2>3 DEF GetBuildStatus, StatusRead, clocks
  <2> QED BY <2>1, <2>2, <2>3
<1>5. CASE GotBuilds
  BY <1>5 DEF GotBuilds, clocks
<1>6. CASE GotStatuses
  BY <1>6 DEF GotStatuses, BeginPoll, EndedBuilds, clocks, poll
<1>7. CASE ShouldWait
  <2>1. cancelled' \subseteq Builds
    BY <1>7 DEF ShouldWait, UncompletedExperimental, Builds
  <2> QED BY <1>7, <2>1 DEF ShouldWait, Done, poll
<1>8. CASE Wake
  BY <1>8 DEF Wake, BeginPoll, EndedBuilds, clocks
<1>9. CASE CallFails \/ Alarm
  BY <1>9 DEF CallFails, Alarm, Done, clocks, poll
<1> QED BY <1>1, <1>2, <1>3, <1>4, <1>5, <1>6, <1>7, <1>8, <1>9 DEF Next

LEMMA CountedPreserved == ASSUME TypeOK, Counted, Next PROVE Counted'
<1>1. EndedBuilds \subseteq EndedBuilds'
  BY EndedStay
<1> SUFFICES completed' \cup succ' \cup ended' \cup endedBefore'
               \subseteq EndedBuilds \cup EndedBuilds'
  BY <1>1 DEF Counted
<1> USE DEF Counted
<1>2. CASE \E b \in Important : GetBuild(b)
  BY <1>2 DEF GetBuild, EndedBuilds, Translated, Ended
<1>3. CASE \E b \in Important, a \in BOOLEAN : GetBuildStatus(b, a)
  BY <1>3 DEF GetBuildStatus, StatusRead, EndedBuilds
<1>4. CASE GotStatuses
  BY <1>4 DEF GotStatuses, BeginPoll, poll
<1>5. CASE Wake
  BY <1>5 DEF Wake, BeginPoll
<1>6. CASE UNCHANGED <<completed, succ, ended, endedBefore>>
  BY <1>6
<1> QED BY <1>2, <1>3, <1>4, <1>5, <1>6 DEF Next, StartBuild, EndBuild, ReportProperties,
  Tick, Unmoved, poll, GetBuildProperties, GotBuilds, ShouldWait, CallFails, Alarm

LEMMA EndedCountedPreserved ==
  ASSUME TypeOK, Counted, AskedCounted, EndedAreCounted, ReadingOpen, Next
  PROVE  AskedCounted' /\ EndedAreCounted'
<1> USE DEF AskedCounted, SuccessesFound, NamedFound, EndedAreCounted
<1>0. \A b \in endedBefore :
        /\ b \in Important /\ real[b] \in Translated
        /\ real'[b] = real[b] /\ (b \in named' => b \in named)
  BY EndedFixed DEF Counted, EndedBuilds, TypeOK
<1>1. CASE \E b \in Important : GetBuild(b)
  BY <1>0, <1>1 DEF GetBuild
<1>2. CASE \E b \in Important, a \in BOOLEAN : GetBuildProperties(b, a)
  BY <1>0, <1>2 DEF GetBuildProperties
<1>3. CASE \E b \in Important, a \in BOOLEAN : GetBuildStatus(b, a)
  <2>1. PICK c \in Important, a \in BOOLEAN : GetBuildStatus(c, a)
    BY <1>3
  <2>2. c \in endedBefore \cap named /\ a => c \in completed \cup ended'
    BY <1>0, <2>1 DEF GetBuildStatus, StatusRead
  <2>3. /\ asked' = asked \cup {c} /\ (~a => c \in lost') /\ lost \subseteq lost'
        /\ ended \subseteq ended' /\ reading' = {} /\ pc = "getStatus" /\ pc' = pc
        /\ UNCHANGED <<completed, succ, endedBefore, named, real>>
    BY <2>1 DEF GetBuildStatus, StatusRead
  <2> QED BY <1>0, <2>2, <2>3
<1>4. CASE GotBuilds
  BY <1>0, <1>4 DEF GotBuilds, ReadingOpen
<1>5. CASE GotStatuses
  <2>1. CASE looping
    BY <1>0, <1>5, <2>1 DEF GotStatuses, TypeOK, poll
  <2>2. CASE ~looping
    BY <1>5, <2>2 DEF GotStatuses, BeginPoll
  <2> QED BY <2>1, <2>2
<1>6. CASE Wake
  BY <1>6 DEF Wake, BeginPoll
<1>7. CASE UNCHANGED <<completed, succ, ended, endedBefore, lost, asked, reading, usable>> /\
           (pc' = pc \/ pc' = "done" \/ (pc = "decide" /\ pc' = "sleep"))
  BY <1>0, <1>7
<1> QED BY <1>1, <1>2, <1>3, <1>4, <1>5, <1>6, <1>7 DEF Next, StartBuild, EndBuild,
  ReportProperties, Tick, Unmoved, poll, ShouldWait, CallFails, Alarm, Done

LEMMA ReadingPreserved == ASSUME ReadingOpen, Next PROVE ReadingOpen'
BY DEF ReadingOpen, Next, StartBuild, EndBuild, ReportProperties, Tick, Unmoved, poll,
  GetBuild, GetBuildProperties, GetBuildStatus, StatusRead, GotBuilds, GotStatuses,
  BeginPoll, ShouldWait, Wake, CallFails, Alarm, Done

(* The wait ends once, and what it ended with stays. *)
LEMMA OutcomePreserved ==
  ASSUME TypeOK, AllCounted, DeadlineSparesRunning, Undecided, Next
  PROVE  AllCounted' /\ DeadlineSparesRunning' /\ Undecided'
<1> USE DEF AllCounted, DeadlineSparesRunning, Undecided
<1>1. CASE ShouldWait
  <2>1. completed' = completed /\ sched' = sched
    BY <1>1 DEF ShouldWait, poll
  <2>2. CASE Completed /\ Done("completed")
    BY <2>1, <2>2, CompletedAll DEF Done
  <2>3. CASE /\ ShouldFailForBuilderStartTimeout /\ Done("deadline")
             /\ \E es \in UncompletedExperimental :
                  cancelled' = es \cup (Important \ completed)
    <3>1. cancelled' \cap Important = Important \ completed
      BY <2>3, SlaveStatusAssumption DEF UncompletedExperimental
    <3>2. sched \cap completed = {} => Important \ completed = sched
      BY <2>3, UncompletedScheduled
    <3>3. sched # {}
      BY <2>3 DEF ShouldFailForBuilderStartTimeout
    <3> QED BY <2>1, <2>3, <3>1, <3>2, <3>3 DEF Done
  <2>4. CASE Done("timedout") \/ (pc' = "sleep" /\ outcome' = outcome)
    BY <1>1, <2>4 DEF Done, ShouldWait
  <2> QED BY <1>1, <2>2, <2>3, <2>4 DEF ShouldWait
<1>2. CASE CallFails \/ Alarm
  BY <1>2 DEF CallFails, Alarm, Done
<1>3. CASE \/ \E b \in Important :
                \/ GetBuild(b)
                \/ \E a \in BOOLEAN : GetBuildProperties(b, a) \/ GetBuildStatus(b, a)
           \/ GotBuilds \/ GotStatuses \/ Wake
  BY <1>3 DEF GetBuild, GetBuildProperties, GetBuildStatus, StatusRead, GotBuilds, GotStatuses, BeginPoll, Wake
<1>4. CASE UNCHANGED <<pc, outcome, completed, sched, cancelled>>
  BY <1>4
<1> QED BY <1>1, <1>2, <1>3, <1>4 DEF Next, StartBuild, EndBuild, ReportProperties, Tick,
           Unmoved, poll

LEMMA NextInv == IInv /\ [Next]_vars => IInv'
<1> SUFFICES ASSUME IInv, [Next]_vars PROVE IInv'
  OBVIOUS
<1>1. CASE UNCHANGED vars
  BY <1>1 DEF vars, IInv, TypeOK, Counted, AskedCounted, SuccessesFound, NamedFound,
    EndedAreCounted,
    AllCounted, DeadlineSparesRunning, Undecided, ReadingOpen, EndedBuilds
<1>2. CASE Next
  BY <1>2, TypePreserved, CountedPreserved, EndedCountedPreserved, OutcomePreserved,
     ReadingPreserved
  DEF IInv
<1> QED BY <1>1, <1>2

LEMMA Invariant == Spec => []IInv
BY InitInv, NextInv, PTL DEF Spec
-----------------------------------------------------------------------------
(* Types and the limits of the clocks. *)
THEOREM TypeCorrect == Spec => []TypeOK
BY Invariant, PTL DEF IInv

(* WaitForSlavesToComplete takes the slaves for completed only when every  *)
(* important one has really ended.                                         *)
THEOREM CompletedIsTrue == Spec => []StopsWhenDone
<1>1. IInv => StopsWhenDone
  BY DEF IInv, Counted, AllCounted, StopsWhenDone, EndedBuilds
<1> QED BY <1>1, Invariant, PTL

(* The start deadline cancels only important builds that were seen         *)
(* scheduled, unless a build was counted as scheduled and as completed.    *)
THEOREM DeadlineIsFair == Spec => []DeadlineSparesRunning
BY Invariant, PTL DEF IInv

(* No poll overlooks a build that had ended when it began, if the answers  *)
(* come and name it.                                                       *)
THEOREM NothingOverlooked == Spec => []EndedAreCounted
BY Invariant, PTL DEF IInv
-----------------------------------------------------------------------------
(***************************************************************************)
(* The wait is never busy: what is left of it are the ticks until the      *)
(* alarm, and within a tick the calls of one poll, up to three per build.  *)
(***************************************************************************)
TicksLeft == WaitTimeout + Fallback - waited
CallsLeft == Cardinality(Important \ asked)

StepsLeft == CASE pc = "sleep" /\ slept = Period -> 3 * Cardinality(Important) + 6
               [] pc = "getBuild" -> 2 * Cardinality(Important) + CallsLeft + 5
               [] pc = "getStatus" /\ reading = {} -> 2 * CallsLeft + 4
               [] pc = "getStatus" /\ reading # {} -> 2 * CallsLeft + 3
               [] pc = "decide" -> 2
               [] pc = "sleep" /\ slept # Period -> 1
               [] OTHER -> 0

(* Within WaitForSuccess a step is one of a build, or it uses up a tick,   *)
(* or it brings the poll nearer to its end.                                *)
WaitShrinks ==
  [][looping =>
       /\ looping'
       /\ \/ real' # real /\ UNCHANGED <<TicksLeft, StepsLeft>>
          \/ named' # named /\ UNCHANGED <<TicksLeft, StepsLeft>>
          \/ TicksLeft' < TicksLeft
          \/ TicksLeft' = TicksLeft /\ StepsLeft' < StepsLeft]_vars

(* The calls of a round. *)
LEMMA RoundFinite ==
  ASSUME NEW builds
  PROVE  /\ Cardinality(Important) \in Nat /\ Cardinality(Important \ builds) \in Nat
         /\ Cardinality(Important \ builds) <= Cardinality(Important)
<1>1. IsFiniteSet(Important) /\ (Important \ builds) \subseteq Important
  BY SlaveStatusAssumption
<1> QED BY <1>1, FS_Subset, FS_CardinalityType

LEMMA CallsFinite ==
  /\ Cardinality(Important) \in Nat
  /\ CallsLeft \in Nat /\ CallsLeft <= Cardinality(Important)
  BY RoundFinite DEF CallsLeft

LEMMA NextCallsFinite ==
  CallsLeft' \in Nat /\ CallsLeft' <= Cardinality(Important)
  BY RoundFinite DEF CallsLeft

LEMMA OneCall ==
  ASSUME NEW b \in Important, b \notin asked, asked' = asked \cup {b}
  PROVE  CallsLeft' = CallsLeft - 1
<1>1. Important \ asked' = (Important \ asked) \ {b} /\ b \in Important \ asked
  OBVIOUS
<1>2. IsFiniteSet(Important \ asked)
  BY SlaveStatusAssumption, FS_Subset
<1> QED BY <1>1, <1>2, FS_RemoveElement DEF CallsLeft

(* WaitForSuccess takes finitely many steps between two ticks, if it       *)
(* sleeps at all (SLEEP_TIMEOUT is a minute), and lasts finitely many      *)
(* ticks: it never polls without a pause, however near the time-out is.    *)
THEOREM WaitIsFinite ==
  ASSUME Period > 0, MainThread
  PROVE  Spec => WaitShrinks /\ [](TicksLeft \in Nat /\ StepsLeft \in Nat)
<1> DEFINE Shorter == TicksLeft' = TicksLeft /\ StepsLeft' < StepsLeft
<1>1. ASSUME TypeOK, TypeOK', ReadingOpen, Next, looping
      PROVE  /\ looping'
             /\ \/ real' # real /\ UNCHANGED <<TicksLeft, StepsLeft>>
                \/ named' # named /\ UNCHANGED <<TicksLeft, StepsLeft>>
                \/ TicksLeft' < TicksLeft
                \/ Shorter
  <2> USE <1>1
  <2>1. CASE \E b \in Builds : StartBuild(b) \/ \E s \in Ended : EndBuild(b, s)
    <3>1. UNCHANGED <<looping, pc, asked, reading, waited, slept>>
      BY <2>1 DEF StartBuild, EndBuild, Unmoved, clocks, poll
    <3>2. real' # real
      BY <2>1 DEF StartBuild, EndBuild, TypeOK, Ended
    <3> QED BY <3>1, <3>2 DEF TicksLeft, StepsLeft, CallsLeft
  <2>9. CASE \E b \in Important : ReportProperties(b)
    <3>1. UNCHANGED <<looping, pc, asked, reading, waited, slept>> /\ named' # named
      BY <2>9 DEF ReportProperties, Unmoved, clocks, poll
    <3> QED BY <3>1 DEF TicksLeft, StepsLeft, CallsLeft
  <2>2. CASE Tick
    <3>1. looping' = looping /\ waited' = waited + 1 /\ waited \in Nat
      BY <2>2, SlaveStatusAssumption DEF Tick, Unmoved, TypeOK
    <3> QED BY <3>1, SlaveStatusAssumption DEF TicksLeft
  <2>3. ASSUME NEW b \in Important,
               \/ GetBuild(b)
               \/ \E a \in BOOLEAN : (GetBuildProperties(b, a) /\ ~a) \/ GetBuildStatus(b, a)
        PROVE  looping' /\ Shorter
    <3>1. /\ UNCHANGED <<looping, pc, waited>> /\ pc \in {"getBuild", "getStatus"}
          /\ b \notin asked /\ asked' = asked \cup {b}
      BY <2>3 DEF GetBuild, GetBuildProperties, GetBuildStatus, StatusRead, clocks, ReadingOpen
    <3>2. CallsLeft' = CallsLeft - 1
      BY <3>1, OneCall
    <3>3. StepsLeft' < StepsLeft
      BY <3>1, <3>2, CallsFinite, NextCallsFinite DEF StepsLeft
    <3> QED BY <3>1, <3>3 DEF TicksLeft
  <2>10. ASSUME NEW b \in Important, GetBuildProperties(b, TRUE)
         PROVE  looping' /\ Shorter
    <3>1. /\ UNCHANGED <<looping, pc, waited, asked>> /\ pc = "getStatus"
          /\ reading = {} /\ reading' # {}
      BY <2>10 DEF GetBuildProperties, clocks
    <3>2. StepsLeft' < StepsLeft
      BY <3>1, CallsFinite DEF StepsLeft, CallsLeft
    <3> QED BY <3>1, <3>2 DEF TicksLeft
  <2>4. CASE GotBuilds
    <3>1. /\ UNCHANGED <<looping, waited>> /\ pc = "getBuild" /\ pc' = "getStatus"
      BY <2>4 DEF GotBuilds, clocks
    <3>2. CallsLeft \in Nat /\ CallsLeft' \in Nat /\ CallsLeft' <= Cardinality(Important)
      BY CallsFinite, NextCallsFinite
    <3>3. StepsLeft' < StepsLeft
      BY <3>1, <3>2, CallsFinite DEF StepsLeft
    <3> QED BY <3>1, <3>3 DEF TicksLeft
  <2>5. CASE GotStatuses
    <3>1. UNCHANGED <<looping, waited>> /\ pc = "getStatus" /\ pc' = "decide"
      BY <2>5 DEF GotStatuses, clocks
    <3>2. StepsLeft' < StepsLeft
      BY <3>1, CallsFinite DEF StepsLeft
    <3> QED BY <3>1, <3>2 DEF TicksLeft
  <2>6. CASE ShouldWait
    <3>1. /\ UNCHANGED <<looping, waited>> /\ pc = "decide"
          /\ \/ pc' = "done"
             \/ pc' = "sleep" /\ slept' = 0
      BY <2>6 DEF ShouldWait, Done
    <3>2. StepsLeft' < StepsLeft
      BY <3>1, SlaveStatusAssumption DEF StepsLeft
    <3> QED BY <3>1, <3>2 DEF TicksLeft
  <2>7. CASE Wake
    <3>1. /\ UNCHANGED <<looping, waited>> /\ pc = "sleep" /\ slept = Period
          /\ pc' = "getBuild"
      BY <2>7 DEF Wake, BeginPoll, clocks
    <3>2. CallsLeft' \in Nat /\ CallsLeft' <= Cardinality(Important)
      BY CallsFinite, NextCallsFinite
    <3>3. StepsLeft' < StepsLeft
      BY <3>1, <3>2, CallsFinite DEF StepsLeft
    <3> QED BY <3>1, <3>3 DEF TicksLeft
  <2>8. CASE CallFails \/ Alarm
    <3>1. UNCHANGED <<looping, waited>> /\ pc # "done" /\ pc' = "done"
      BY <2>8 DEF CallFails, Alarm, Done, clocks
    <3>2. StepsLeft' = 0
      BY <3>1 DEF StepsLeft
    <3>3. 0 < StepsLeft
      BY <3>1, CallsFinite DEF StepsLeft, TypeOK
    <3> QED BY <3>1, <3>2, <3>3 DEF TicksLeft
  <2>11. ASSUME NEW b \in Important, NEW a \in BOOLEAN, GetBuildProperties(b, a)
         PROVE  looping' /\ Shorter
    <3>1. CASE a
      BY <2>11, <3>1, <2>10
    <3>2. CASE ~a
      BY <2>11, <3>2, <2>3
    <3> QED BY <3>1, <3>2
  <2> QED BY <2>1, <2>2, <2>3, <2>4, <2>5, <2>6, <2>7, <2>8, <2>9, <2>11 DEF Next
<1>2. TypeOK /\ TypeOK' /\ ReadingOpen /\ [Next]_vars =>
        [looping =>
           /\ looping'
           /\ \/ real' # real /\ UNCHANGED <<TicksLeft, StepsLeft>>
              \/ named' # named /\ UNCHANGED <<TicksLeft, StepsLeft>>
              \/ TicksLeft' < TicksLeft
              \/ TicksLeft' = TicksLeft /\ StepsLeft' < StepsLeft]_vars
  BY <1>1
<1>3. TypeOK => TicksLeft \in Nat
  BY SlaveStatusAssumption DEF TypeOK, TicksLeft
<1>4. StepsLeft \in Nat
  BY CallsFinite DEF StepsLeft
<1>5. IInv => TypeOK /\ ReadingOpen
  BY DEF IInv
<1> QED BY <1>2, <1>3, <1>4, <1>5, Invariant, PTL DEF Spec, WaitShrinks
=============================================================================
