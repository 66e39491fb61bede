---------------------------- MODULE GsLockProofs ----------------------------
(***************************************************************************)
(* Proofs about GsLock, for any clients, time-out and bounds.  Everything  *)
(* rests on two facts: a client that remembers the generation of the       *)
(* object wrote the object, or the object has expired (Known); and a       *)
(* client in its protected code whose object is not the current one has    *)
(* overstayed (Overtaken).  Known is what makes the conditional Copy and   *)
(* rm safe, and it holds also when a failed command leaves the generation  *)
(* of somebody else's object behind in Lock._generation.                   *)
(***************************************************************************)
EXTENDS GsLock, FiniteSetTheorems, WellFoundedInduction, TLAPS

Known == \A c \in Clients :
           generation[c] # 0 /\ generation[c] = file.gen =>
             file.owner = c \/ Expired(file.owner)

Overtaken == \A c \in inside : file.owner = c \/ Expired(c)

IInv == TypeOK /\ Known /\ Overtaken /\ NoLockForgotten
-----------------------------------------------------------------------------
(* Generation 0 stands for no object, and only for that. *)
LEMMA FileShape ==
  ASSUME TypeOK
  PROVE  /\ \/ file = NoFile /\ file.gen = 0 /\ file.owner = NoClient
            \/ /\ file # NoFile /\ file.gen \in Generations /\ file.gen # 0
               /\ file.owner \in Clients /\ file.owner # NoClient
         /\ 0 \notin Generations /\ NoClient \notin Clients
<1>1. 0 \notin Generations /\ NoClient \notin Clients
  BY GsLockAssumption
<1>2. CASE file = NoFile
  BY <1>1, <1>2 DEF NoFile
<1>3. CASE file \in [gen : Generations, owner : Clients, heard : BOOLEAN]
  BY <1>1, <1>3 DEF NoFile
<1> QED BY <1>1, <1>2, <1>3 DEF TypeOK

(* An object that a client may write or delete is its own, or expired. *)
LEMMA MatchedFile ==
  ASSUME TypeOK, Known, NEW c \in Clients, Matches(c)
  PROVE  file = NoFile \/ file.owner = c \/ (TimedOut /\ Expired(file.owner))
BY FileShape DEF Known, Matches, TimedOut

(* A new object has a generation that nobody remembers. *)
LEMMA FreshWrite ==
  ASSUME TypeOK, NEW c \in Clients, NEW heard \in BOOLEAN, Write(c, heard)
  PROVE  /\ file' \in [gen : Generations, owner : Clients, heard : BOOLEAN]
         /\ file'.owner = c /\ file'.heard = heard
         /\ file'.gen \in Generations /\ file'.gen # 0
         /\ \A d \in Clients : generation[d] # file'.gen
         /\ file' # NoFile
         /\ age' = [age EXCEPT ![c] = 0] /\ age'[c] = 0
         /\ age' \in [Clients -> 0..Timeout + 1]
         /\ \A d \in Clients : d # c => age'[d] = age[d]
<1>1. PICK g \in Fresh : file' = [gen |-> g, owner |-> c, heard |-> heard]
  BY DEF Write
<1>2. g \in Generations /\ \A d \in Clients : generation[d] # g
  BY <1>1 DEF Fresh, InUse
<1>3. age' = [age EXCEPT ![c] = 0]
  BY DEF Write
<1>4. 0 \in 0..Timeout + 1
  BY GsLockAssumption
<1>5. age' \in [Clients -> 0..Timeout + 1] /\ age'[c] = 0
      /\ \A d \in Clients : d # c => age'[d] = age[d]
  BY <1>3, <1>4 DEF TypeOK
<1>6. file' # NoFile
  BY <1>1, <1>2, FileShape DEF NoFile
<1> QED BY <1>1, <1>2, <1>3, <1>5, <1>6, FileShape

(* bytes are not a str *)
LEMMA NeverRecognised ==
  ASSUME NEW c
  PROVE  CatReturns # Contents(c)
BY DEF CatReturns, Contents
-----------------------------------------------------------------------------
LEMMA InitInv == Init => IInv
<1> SUFFICES ASSUME Init PROVE IInv
  OBVIOUS
<1> USE GsLockAssumption DEF Init
<1>1. TypeOK
  BY DEF TypeOK, NoFile, Places
<1>2. Known /\ Overtaken /\ NoLockForgotten
  BY DEF Known, Overtaken, NoLockForgotten
<1> QED BY <1>1, <1>2 DEF IInv

LEMMA RaiseStep ==
  ASSUME TypeOK, NEW c \in Clients, Raise(c)
  PROVE  /\ pc' \in [Clients -> Places]
         /\ inside' \subseteq {d \in Clients :
                             pc'[d] \notin {"idle", "release", "dead"}}
         /\ inside' = inside \ {c}
BY DEF TypeOK, Raise, Goto, Places

LEMMA TypeStep ==
  ASSUME TypeOK, NEW c \in Clients,
         Step(c) \/ Renew(c) \/ Trouble(c)
  PROVE  TypeOK'
<1> DEFINE PcInside ==
      /\ pc' \in [Clients -> Places]
      /\ inside' \subseteq {d \in Clients :
                          pc'[d] \notin {"idle", "release", "dead"}}
<1> USE GsLockAssumption
<1>1. CASE StartAcquire(c)
  <2>1. PcInside
    BY <1>1 DEF StartAcquire, TypeOK, Goto, Places
  <2> QED
    BY <1>1, <2>1 DEF StartAcquire, TypeOK
<1>2. CASE Renew(c)
  <2>1. PcInside
    BY <1>2 DEF Renew, TypeOK, Goto, Places
  <2> QED
    BY <1>2, <2>1 DEF Renew, TypeOK
<1>3. CASE CopyWrites(c)
  <2>1. PcInside
    BY <1>3 DEF CopyWrites, TypeOK, Goto, Places
  <2>2. /\ file' \in [gen : Generations, owner : Clients, heard : BOOLEAN]
        /\ file'.gen \in Generations
        /\ age' \in [Clients -> 0..Timeout + 1]
    BY <1>3, FreshWrite DEF CopyWrites
  <2>3. generation' \in [Clients -> {0} \cup Generations]
    BY <1>3, <2>2 DEF CopyWrites, TypeOK
  <2> QED
    BY <1>3, <2>1, <2>2, <2>3 DEF CopyWrites, TypeOK
<1>4. CASE CopyUnheard(c)
  <2>1. PcInside
    BY <1>4, RaiseStep DEF CopyUnheard, TypeOK, Goto, Places
  <2>2. /\ file' \in [gen : Generations, owner : Clients, heard : BOOLEAN]
        /\ file'.gen \in Generations
        /\ age' \in [Clients -> 0..Timeout + 1]
    BY <1>4, FreshWrite DEF CopyUnheard
  <2>3. generation' \in [Clients -> {0} \cup Generations]
    BY <1>4 DEF CopyUnheard, TypeOK
  <2>4. errors' \in 0..MaxErrors
    BY <1>4 DEF CopyUnheard, TypeOK
  <2> QED
    BY <1>4, <2>1, <2>2, <2>3, <2>4 DEF CopyUnheard, TypeOK
<1>5. CASE CopyRefused(c)
  <2>1. PcInside
    BY <1>5 DEF CopyRefused, TypeOK, Goto, Places
  <2>2. generation' \in [Clients -> {0} \cup Generations]
    BY <1>5 DEF CopyRefused, TypeOK
  <2> QED
    BY <1>5, <2>1, <2>2 DEF CopyRefused, TypeOK
<1>6. CASE StealRefused(c)
  <2>1. PcInside
    BY <1>6, RaiseStep DEF StealRefused
  <2>2. generation' \in [Clients -> {0} \cup Generations]
    BY <1>6 DEF StealRefused, TypeOK
  <2> QED
    BY <1>6, <2>1, <2>2 DEF StealRefused, TypeOK
<1>7. CASE Cat(c)
  <2>1. PcInside /\ generation' = generation
    BY <1>7, NeverRecognised DEF Cat, TypeOK, Goto, Places
  <2> QED
    BY <1>7, <2>1 DEF Cat, TypeOK
<1>8. CASE CatFails(c)
  <2>1. PcInside
    BY <1>8 DEF CatFails, TypeOK, Goto, Places
  <2>2. errors' \in 0..MaxErrors
    BY <1>8 DEF CatFails, TypeOK
  <2> QED
    BY <1>8, <2>1, <2>2 DEF CatFails, TypeOK
<1>9. CASE FindExpired(c)
  <2>1. PcInside
    BY <1>9 DEF FindExpired, TypeOK, Goto, Places
  <2>2. generation' \in [Clients -> {0} \cup Generations]
    BY <1>9, FileShape DEF FindExpired, TypeOK, TimedOut
  <2> QED
    BY <1>9, <2>1, <2>2 DEF FindExpired, TypeOK
<1>10. CASE FindValid(c)
  <2>1. PcInside
    BY <1>10, RaiseStep DEF FindValid
  <2> QED
    BY <1>10, <2>1 DEF FindValid, TypeOK
<1>11. CASE StartRelease(c)
  <2>1. PcInside
    BY <1>11 DEF StartRelease, TypeOK, Goto, Places
  <2> QED
    BY <1>11, <2>1 DEF StartRelease, TypeOK
<1>12. CASE Remove(c)
  <2>1. PcInside
    BY <1>12 DEF Remove, TypeOK, Goto, Places
  <2>2. file' \in {file, NoFile}
    BY <1>12 DEF Remove, Delete
  <2>3. generation' \in [Clients -> {0} \cup Generations]
    BY <1>12 DEF Remove, TypeOK
  <2> QED
    BY <1>12, <2>1, <2>2, <2>3 DEF Remove, TypeOK
<1>13. CASE RemoveUnheard(c)
  <2>1. PcInside
    BY <1>13 DEF RemoveUnheard, TypeOK, Goto, Places
  <2>2. file' \in {file, NoFile}
    BY <1>13 DEF RemoveUnheard, Delete
  <2>3. errors' \in 0..MaxErrors
    BY <1>13 DEF RemoveUnheard, TypeOK
  <2> QED
    BY <1>13, <2>1, <2>2, <2>3 DEF RemoveUnheard, TypeOK
<1>14. CASE CommandFails(c)
  <2>1. PcInside
    BY <1>14, RaiseStep DEF CommandFails, TypeOK, Goto, Places
  <2>2. errors' \in 0..MaxErrors
    BY <1>14 DEF CommandFails, TypeOK
  <2> QED
    BY <1>14, <2>1, <2>2 DEF CommandFails, TypeOK
<1>15. CASE Crash(c)
  <2>1. PcInside
    BY <1>15 DEF Crash, TypeOK, Goto, Places
  <2>2. generation' \in [Clients -> {0} \cup Generations]
    BY <1>15 DEF Crash, TypeOK
  <2>3. crashes' \in 0..MaxCrashes
    BY <1>15 DEF Crash, TypeOK
  <2> QED
    BY <1>15, <2>1, <2>2, <2>3 DEF Crash, TypeOK
<1> QED BY <1>1, <1>2, <1>3, <1>4, <1>5, <1>6, <1>7, <1>8, <1>9, <1>10, <1>11, <1>12, <1>13, <1>14, <1>15 DEF Step, Trouble

LEMMA TypeTick == TypeOK /\ Tick => TypeOK'
<1> SUFFICES ASSUME TypeOK, Tick PROVE TypeOK'
  OBVIOUS
<1>1. age' \in [Clients -> 0..Timeout + 1]
  BY GsLockAssumption DEF Tick, TypeOK, Expired
<1> QED BY <1>1 DEF Tick, TypeOK

-----------------------------------------------------------------------------
(* Time only makes leases run out. *)
LEMMA TickExpires ==
  ASSUME TypeOK, Tick, NEW c \in Clients
  PROVE  Expired(c) => Expired(c)'
BY GsLockAssumption DEF TypeOK, Tick, Expired

(* What a write does to the clients other than the writer. *)
LEMMA WriteInv ==
  ASSUME TypeOK, Known, Overtaken, NEW c \in Clients, NEW heard \in BOOLEAN,
         Write(c, heard), inside' \subseteq inside \cup {c},
         generation' \in [Clients -> {0} \cup Generations],
         \A d \in Clients : d # c => generation'[d] = generation[d]
  PROVE  Known' /\ Overtaken'
<1>1. ASSUME NEW d \in Clients, d # c, generation'[d] # 0
      PROVE  generation'[d] # file'.gen
  BY <1>1, FreshWrite
<1>2. file'.owner = c
  BY FreshWrite
<1>3. Known'
  BY <1>1, <1>2 DEF Known
<1>4. ASSUME NEW d \in inside, d # c, file.owner = d
      PROVE  Expired(d)
  <2>1. Matches(c) /\ d \in Clients
    BY DEF Write, TypeOK
  <2> QED BY <1>4, <2>1, MatchedFile, FileShape
<1>5. ASSUME NEW d \in inside', d # c
      PROVE  Expired(d)'
  <2>1. d \in inside /\ d \in Clients
    BY <1>5 DEF TypeOK
  <2>2. Expired(d)
    BY <1>4, <1>5, <2>1 DEF Overtaken
  <2>3. age'[d] = age[d]
    BY <1>5, <2>1, FreshWrite
  <2> QED BY <2>2, <2>3 DEF Expired
<1> QED BY <1>2, <1>3, <1>5 DEF Overtaken

(* What deleting the object does: it was the client's own, or expired, so  *)
(* nobody whose time is not up was inside.                                 *)
LEMMA DeleteInv ==
  ASSUME TypeOK, Known, Overtaken, NEW c \in Clients, c \notin inside,
         Delete(c), UNCHANGED <<age, inside>>,
         \A d \in Clients : generation'[d] \in {0, generation[d]}
  PROVE  Known' /\ Overtaken'
<1>1. CASE ~Matches(c)
  <2>1. file' = file
    BY <1>1 DEF Delete
  <2> QED BY <2>1 DEF Known, Overtaken, Expired
<1>2. CASE Matches(c)
  <2>1. file' = NoFile /\ file'.gen = 0
    BY <1>2 DEF Delete, NoFile
  <2>2. Known'
    BY <2>1 DEF Known
  <2>3. ASSUME NEW d \in inside PROVE Expired(d)
    <3>1. d \in Clients /\ d # c
      BY DEF TypeOK
    <3> QED BY <1>2, <3>1, MatchedFile, FileShape DEF Overtaken
  <2>4. Overtaken'
    BY <2>3 DEF Overtaken, Expired
  <2> QED BY <2>2, <2>4
<1> QED BY <1>1, <1>2

LEMMA KnownOvertakenStep ==
  ASSUME TypeOK, Known, Overtaken, NEW c \in Clients,
         Step(c) \/ Renew(c) \/ Trouble(c)
  PROVE  Known' /\ Overtaken'
<1> DEFINE Quiet == /\ UNCHANGED <<file, age>> /\ inside' \subseteq inside
                    /\ \A d \in Clients : generation'[d] \in {0, generation[d]}
<1>1. ASSUME Quiet PROVE Known' /\ Overtaken'
  BY <1>1 DEF Known, Overtaken, Expired
<1> HIDE DEF Quiet
<1>2. CASE \/ StartAcquire(c) \/ Renew(c) \/ CatFails(c) \/ FindValid(c)
           \/ StartRelease(c) \/ CommandFails(c)
  <2>1. UNCHANGED <<file, age, generation>> /\ inside' \subseteq inside
    BY <1>2 DEF StartAcquire, Renew, CatFails, FindValid, StartRelease,
                CommandFails, Raise
  <2> QED BY <1>1, <2>1 DEF Quiet
<1>3. CASE CopyRefused(c) \/ StealRefused(c) \/ Crash(c)
  <2>1. /\ UNCHANGED <<file, age>> /\ inside' \subseteq inside
        /\ generation' = [generation EXCEPT ![c] = 0]
    BY <1>3 DEF CopyRefused, StealRefused, Crash, Raise
  <2> QED BY <1>1, <2>1 DEF Quiet, TypeOK
<1>4. CASE Cat(c)
  <2>1. UNCHANGED <<file, age, generation, inside>>
    BY <1>4, NeverRecognised DEF Cat
  <2> QED BY <1>1, <2>1 DEF Quiet
<1>5. CASE FindExpired(c)
  <2>1. /\ UNCHANGED <<file, age, inside>>
        /\ \A d \in Clients : d # c => generation'[d] = generation[d]
        /\ Expired(file.owner)
    BY <1>5 DEF FindExpired, TypeOK, TimedOut
  <2> QED BY <2>1 DEF Known, Overtaken, Expired
<1>6. CASE CopyWrites(c)
  <2>1. /\ Write(c, TRUE)
        /\ inside' = inside \cup {c}
        /\ generation' = [generation EXCEPT ![c] = file'.gen]
    BY <1>6 DEF CopyWrites
  <2>2. generation' \in [Clients -> {0} \cup Generations]
    BY <2>1, FreshWrite DEF TypeOK
  <2>3. \A d \in Clients : d # c => generation'[d] = generation[d]
    BY <2>1 DEF TypeOK
  <2> QED BY <2>1, <2>2, <2>3, WriteInv
<1>7. CASE CopyUnheard(c)
  <2>1. Write(c, FALSE) /\ inside' \subseteq inside
    BY <1>7 DEF CopyUnheard, Raise
  <2>2. generation' \in {generation, [generation EXCEPT ![c] = 0]}
    BY <1>7 DEF CopyUnheard
  <2>3. /\ generation' \in [Clients -> {0} \cup Generations]
        /\ \A d \in Clients : d # c => generation'[d] = generation[d]
    BY <2>2 DEF TypeOK
  <2> QED BY <2>1, <2>3, WriteInv
<1>8. CASE Remove(c) \/ RemoveUnheard(c)
  <2>1. /\ Delete(c) /\ UNCHANGED <<age, inside>> /\ c \notin inside
        /\ generation' \in {generation, [generation EXCEPT ![c] = 0]}
    BY <1>8 DEF Remove, RemoveUnheard, TypeOK
  <2>2. \A d \in Clients : generation'[d] \in {0, generation[d]}
    BY <2>1 DEF TypeOK
  <2> QED BY <2>1, <2>2, DeleteInv
<1> QED BY <1>2, <1>3, <1>4, <1>5, <1>6, <1>7, <1>8 DEF Step, Trouble

LEMMA NotForgottenStep ==
  ASSUME TypeOK, NoLockForgotten, NEW c \in Clients,
         Step(c) \/ Renew(c) \/ Trouble(c)
  PROVE  NoLockForgotten'
<1>1. CASE \/ StartAcquire(c) \/ Renew(c) \/ CatFails(c) \/ FindValid(c)
           \/ StartRelease(c) \/ CommandFails(c) \/ Cat(c)
  <2>1. /\ UNCHANGED <<file, generation>>
        /\ \A d \in Clients : pc'[d] # "dead" => pc[d] # "dead"
    BY <1>1, NeverRecognised DEF StartAcquire, Renew, CatFails, FindValid,
         StartRelease, CommandFails, Cat, Raise, Goto, TypeOK
  <2> QED BY <2>1, FileShape DEF NoLockForgotten
<1>2. CASE CopyRefused(c) \/ StealRefused(c)
  <2>1. /\ UNCHANGED file /\ ~Matches(c)
        /\ \A d \in Clients : pc'[d] # "dead" => pc[d] # "dead"
        /\ \A d \in Clients : d # c => generation'[d] = generation[d]
        /\ pc[c] # "dead"
    BY <1>2 DEF CopyRefused, StealRefused, Raise, Goto, TypeOK
  <2> QED BY <2>1, FileShape DEF NoLockForgotten, Matches
<1>3. CASE Crash(c)
  <2>1. /\ UNCHANGED file /\ pc'[c] = "dead"
        /\ \A d \in Clients : d # c => /\ generation'[d] = generation[d]
                                       /\ pc'[d] = pc[d]
    BY <1>3 DEF Crash, Goto, TypeOK
  <2> QED BY <2>1, FileShape DEF NoLockForgotten
<1>4. CASE FindExpired(c)
  <2>1. /\ UNCHANGED file
        /\ \A d \in Clients : pc'[d] # "dead" => pc[d] # "dead"
        /\ \A d \in Clients : d # c => generation'[d] = generation[d]
        /\ generation'[c] = file.gen
    BY <1>4 DEF FindExpired, Goto, TypeOK
  <2> QED BY <2>1, FileShape DEF NoLockForgotten
<1>5. CASE CopyWrites(c)
  <2>1. file'.owner = c /\ generation'[c] = file'.gen
    BY <1>5, FreshWrite DEF CopyWrites, TypeOK
  <2> QED BY <2>1 DEF NoLockForgotten
<1>6. CASE CopyUnheard(c)
  <2>1. file'.heard = FALSE
    BY <1>6, FreshWrite DEF CopyUnheard
  <2> QED BY <2>1 DEF NoLockForgotten
<1>7. CASE Remove(c) \/ RemoveUnheard(c)
  <2>1. /\ Delete(c) /\ pc[c] # "dead"
        /\ \A d \in Clients : pc'[d] # "dead" => pc[d] # "dead"
        /\ \A d \in Clients : d # c => generation'[d] = generation[d]
    BY <1>7 DEF Remove, RemoveUnheard, Goto, TypeOK
  <2>2. CASE Matches(c)
    BY <2>1, <2>2 DEF Delete, NoLockForgotten
  <2>3. CASE ~Matches(c)
    <3>1. file' = file
      BY <2>1, <2>3 DEF Delete
    <3> QED BY <2>1, <2>3, <3>1, FileShape DEF NoLockForgotten, Matches
  <2> QED BY <2>2, <2>3
<1> QED BY <1>1, <1>2, <1>3, <1>4, <1>5, <1>6, <1>7 DEF Step, Trouble

LEMMA StepInv == IInv /\ [Next]_vars => IInv'
<1> SUFFICES ASSUME IInv, [Next]_vars PROVE IInv'
  OBVIOUS
<1> USE DEF IInv
<1>1. CASE Tick
  <2>1. TypeOK'
    BY <1>1, TypeTick
  <2>2. \A d \in Clients : Expired(d) => Expired(d)'
    BY <1>1, TickExpires
  <2>3. UNCHANGED <<file, generation, pc, inside>>
    BY <1>1 DEF Tick
  <2>4. Known'
    <3>1. ASSUME NEW d \in Clients, generation[d] # 0, generation[d] = file.gen,
                 file.owner # d
          PROVE  Expired(file.owner)'
      <4>1. Expired(file.owner) /\ file.owner \in Clients
        BY <3>1, FileShape DEF Known
      <4>2. PICK e \in Clients : e = file.owner
        BY <4>1
      <4> QED BY <2>2, <2>3, <4>1, <4>2 DEF Expired
    <3> QED BY <2>3, <3>1 DEF Known, Expired
  <2>5. Overtaken'
    BY <2>2, <2>3 DEF Overtaken, TypeOK
  <2>6. NoLockForgotten'
    BY <2>3 DEF NoLockForgotten
  <2> QED BY <2>1, <2>4, <2>5, <2>6
<1>2. ASSUME NEW c \in Clients, Step(c) \/ Renew(c) \/ Trouble(c)
      PROVE  IInv'
  BY <1>2, TypeStep, KnownOvertakenStep, NotForgottenStep
<1>3. CASE UNCHANGED vars
  BY <1>3 DEF vars, TypeOK, Known, Overtaken, NoLockForgotten, Expired
<1> QED BY <1>1, <1>2, <1>3 DEF Next

LEMMA Invariant == Spec => []IInv
BY InitInv, StepInv, PTL DEF Spec
-----------------------------------------------------------------------------
(* Type correctness: among others, whoever is in the protected code holds  *)
(* the lock or is renewing it.                                             *)
THEOREM TypeCorrect == Spec => []TypeOK
<1>1. IInv => TypeOK
  BY DEF IInv
<1> QED BY <1>1, Invariant, PTL

(* Mutual exclusion up to the time-out, for any number of clients, any     *)
(* time-out, any lost answers, failed commands and crashes.                *)
THEOREM Exclusive == Spec => []HoldersExclusive
<1>1. IInv => HoldersExclusive
  BY DEF IInv, Overtaken, HoldersExclusive
<1> QED BY <1>1, Invariant, PTL

(* Acquire, Renew and Release lose track of a lock only if Google Storage  *)
(* never answered the command that wrote it.                               *)
THEOREM NothingForgotten == Spec => []NoLockForgotten
<1>1. IInv => NoLockForgotten
  BY DEF IInv
<1> QED BY <1>1, Invariant, PTL
-----------------------------------------------------------------------------
(* A write is a taking in the sense of the lease. *)
LEMMA WriteTakes ==
  ASSUME TypeOK, Known, NEW c \in Clients, NEW heard \in BOOLEAN,
         Write(c, heard)
  PROVE  /\ Lease!MayTake(c)
         /\ file'.owner = c /\ TimedOut' = FALSE
<1>1. Lease!MayTake(c)
  <2>1. Matches(c)
    BY DEF Write
  <2>2. file = NoFile \/ file.owner = c \/ TimedOut
    BY <2>1, MatchedFile
  <2>3. file.owner \in {NoClient, c} \/ TimedOut
    BY <2>2, FileShape
  <2> QED BY <2>3 DEF Lease!MayTake
<1>2. file'.owner = c /\ age'[c] = 0
  BY FreshWrite
<1>3. ~TimedOut'
  BY <1>2, GsLockAssumption DEF TimedOut, Expired
<1> QED BY <1>1, <1>2, <1>3

(* Deleting the object frees the lease, or does nothing. *)
LEMMA DeleteFrees ==
  ASSUME TypeOK, Known, NEW c \in Clients, c \notin inside,
         Delete(c), UNCHANGED <<age, inside>>
  PROVE  Lease!Free \/ UNCHANGED Lease!vars
<1>1. CASE file' = file
  BY <1>1 DEF Lease!vars, TimedOut, Expired
<1>2. CASE file' = NoFile /\ Matches(c)
  <2>1. file.owner \notin inside \/ TimedOut
    <3>1. file = NoFile \/ file.owner = c \/ TimedOut
      BY <1>2, MatchedFile
    <3> QED BY <3>1, FileShape DEF TypeOK
  <2>2. file'.owner = NoClient
    BY <1>2 DEF NoFile
  <2>3. ~TimedOut'
    BY <1>2 DEF TimedOut
  <2> QED BY <2>1, <2>2, <2>3 DEF Lease!Free
<1> QED BY <1>1, <1>2 DEF Delete

(* The lock file implements the lease of LeaseLock. *)
THEOREM Implements == Spec => ImplementsLease
<1>1. Init => Lease!Init
  <2> SUFFICES ASSUME Init PROVE Lease!Init
    OBVIOUS
  <2>1. file.owner = NoClient /\ ~TimedOut /\ inside = {}
    BY DEF Init, TimedOut, NoFile
  <2> QED BY <2>1 DEF Lease!Init
<1>2. IInv /\ [Next]_vars => [Lease!Next]_(Lease!vars)
  <2> SUFFICES ASSUME IInv, [Next]_vars PROVE Lease!Next \/ UNCHANGED Lease!vars
    OBVIOUS
  <2> USE DEF IInv
  <2>1. CASE Tick
    <3>1. UNCHANGED <<file, inside>>
      BY <2>1 DEF Tick
    <3>2. CASE TimedOut' = TimedOut
      BY <3>1, <3>2 DEF Lease!vars
    <3>3. CASE TimedOut' # TimedOut
      <4>1. file # NoFile /\ file.owner # NoClient /\ file.owner \in Clients
        BY <3>1, <3>3, FileShape DEF TimedOut
      <4>2. PICK e \in Clients : e = file.owner
        BY <4>1
      <4>3. Expired(e) => Expired(e)'
        BY <2>1, TickExpires
      <4>4. TimedOut <=> Expired(e)
        BY <4>1, <4>2 DEF TimedOut
      <4>5. TimedOut' <=> Expired(e)'
        BY <3>1, <4>1, <4>2 DEF TimedOut, Expired
      <4>6. CASE Expired(e) = Expired(e)'
        BY <3>3, <4>4, <4>5, <4>6 DEF TimedOut
      <4>7. CASE Expired(e) # Expired(e)'
        <5>1. Expired(e)'
          BY <4>3, <4>7 DEF Expired
        <5>2. TimedOut' = TRUE
          BY <4>5, <5>1 DEF TimedOut
        <5> QED BY <3>1, <4>1, <5>2 DEF Lease!Expire, Lease!Next
      <4> QED BY <4>6, <4>7
    <3> QED BY <3>2, <3>3
  <2>2. ASSUME NEW c \in Clients, Step(c) \/ Renew(c) \/ Trouble(c)
        PROVE  Lease!Next \/ UNCHANGED Lease!vars
    <3>1. ASSUME UNCHANGED <<file, age>>, inside' \in {inside, inside \ {c}}
          PROVE  Lease!Next \/ UNCHANGED Lease!vars
      <4>1. TimedOut' = TimedOut /\ file'.owner = file.owner
        BY <3>1 DEF TimedOut, Expired
      <4>2. CASE inside' = inside
        BY <4>1, <4>2 DEF Lease!vars
      <4>3. CASE inside' = inside \ {c}
        BY <4>1, <4>3 DEF Lease!Leave, Lease!Next
      <4> QED BY <3>1, <4>2, <4>3
    <3>2. CASE \/ StartAcquire(c) \/ Renew(c) \/ CopyRefused(c)
             \/ StealRefused(c) \/ CatFails(c) \/ FindExpired(c)
             \/ FindValid(c) \/ StartRelease(c) \/ CommandFails(c) \/ Crash(c)
      <4>1. UNCHANGED <<file, age>> /\ inside' \in {inside, inside \ {c}}
        BY <3>2 DEF StartAcquire, Renew, CopyRefused, StealRefused, CatFails,
             FindExpired, FindValid, StartRelease, CommandFails, Crash, Raise
      <4> QED BY <3>1, <4>1
    <3>3. CASE Cat(c)
      <4>1. UNCHANGED <<file, age, inside>>
        BY <3>3, NeverRecognised DEF Cat
      <4> QED BY <3>1, <4>1
    <3>4. CASE CopyWrites(c)
      <4>1. Write(c, TRUE) /\ inside' = inside \cup {c}
        BY <3>4 DEF CopyWrites
      <4>2. Lease!Enter(c)
        BY <4>1, WriteTakes DEF Lease!Enter
      <4> QED BY <4>2 DEF Lease!Next
    <3>5. CASE CopyUnheard(c)
      <4>1. Write(c, FALSE) /\ inside' \in {inside, inside \ {c}}
        BY <3>5 DEF CopyUnheard, Raise
      <4>2. Lease!Seize(c)
        BY <4>1, WriteTakes DEF Lease!Seize
      <4> QED BY <4>2 DEF Lease!Next
    <3>6. CASE Remove(c) \/ RemoveUnheard(c)
      <4>1. Delete(c) /\ UNCHANGED <<age, inside>> /\ c \notin inside
        BY <3>6 DEF Remove, RemoveUnheard, TypeOK
      <4>2. Lease!Free \/ UNCHANGED Lease!vars
        BY <4>1, DeleteFrees
      <4> QED BY <4>2 DEF Lease!Next
    <3> QED BY <2>2, <3>2, <3>3, <3>4, <3>5, <3>6 DEF Step, Trouble
  <2>3. CASE UNCHANGED vars
    BY <2>3 DEF vars, Lease!vars, TimedOut, Expired
  <2> QED BY <2>1, <2>2, <2>3 DEF Next
<1> QED BY <1>1, <1>2, Invariant, PTL DEF Spec, ImplementsLease, Lease!Spec
-----------------------------------------------------------------------------
(***************************************************************************)
(* An expired lock does not last.  A bound on the steps that a client      *)
(* takes before it removes or replaces an expired object: the worst case   *)
(* is a client that still believes it holds the lock.                      *)
(***************************************************************************)
StepsLeft(c) ==
  CASE pc[c] = "held" -> 8
    [] pc[c] = "steal" /\ ~Matches(c) -> 7
    [] pc[c] = "release" -> 6
    [] pc[c] = "idle" -> 5
    [] pc[c] = "copy" -> 4
    [] pc[c] = "cat" -> 3
    [] pc[c] = "expire" -> 2
    [] pc[c] = "steal" /\ Matches(c) -> 1
    [] OTHER -> 0

(* While an expired object is neither removed nor replaced, it stays       *)
(* expired, each step of a client that meets no trouble takes that client  *)
(* nearer to it, and nothing that the others do takes a client away.       *)
ExpiredLocksGo ==
  [][TimedOut =>
       \/ file' = NoFile
       \/ file'.gen # file.gen
       \/ /\ file' = file /\ TimedOut'
          /\ \A c \in Clients :
               \/ StepsLeft(c)' < StepsLeft(c)
               \/ StepsLeft(c)' = StepsLeft(c) /\ ~Step(c)
               \/ Trouble(c)]_vars

LEMMA StepMoves ==
  ASSUME TypeOK, NEW c \in Clients, Step(c)
  PROVE  pc'[c] # pc[c]
<1> DEFINE Moved == pc'[c] # pc[c]
<1>1. CASE StartAcquire(c) \/ CopyWrites(c) \/ CopyRefused(c)
  BY <1>1 DEF StartAcquire, CopyWrites, CopyRefused, Goto, TypeOK
<1>2. CASE StealRefused(c) \/ FindExpired(c) \/ FindValid(c)
  BY <1>2 DEF StealRefused, FindExpired, FindValid, Raise, Goto, TypeOK
<1>3. CASE Cat(c) \/ StartRelease(c) \/ Remove(c)
  BY <1>3 DEF Cat, StartRelease, Remove, Goto, TypeOK
<1> QED BY <1>1, <1>2, <1>3 DEF Step

LEMMA OthersStay ==
  ASSUME TypeOK, NEW c \in Clients, Step(c) \/ Renew(c) \/ Trouble(c),
         NEW d \in Clients, d # c
  PROVE  pc'[d] = pc[d] /\ generation'[d] = generation[d]
<1> USE DEF TypeOK, Goto, Raise
<1>1. CASE StartAcquire(c) \/ CopyWrites(c) \/ CopyRefused(c) \/ StealRefused(c) \/ Cat(c)
  BY <1>1 DEF StartAcquire, CopyWrites, CopyRefused, StealRefused, Cat
<1>2. CASE FindExpired(c) \/ FindValid(c) \/ StartRelease(c) \/ Remove(c) \/ Renew(c)
  BY <1>2 DEF FindExpired, FindValid, StartRelease, Remove, Renew
<1>3. CASE CopyUnheard(c) \/ CatFails(c) \/ RemoveUnheard(c) \/ CommandFails(c) \/ Crash(c)
  BY <1>3 DEF CopyUnheard, CatFails, RemoveUnheard, CommandFails, Crash
<1> QED BY <1>1, <1>2, <1>3 DEF Step, Trouble

(* What a client does to the object.                                       *)
LEMMA FileChange ==
  ASSUME TypeOK, NEW c \in Clients, Step(c) \/ Renew(c) \/ Trouble(c)
  PROVE  \/ file' = NoFile \/ file'.gen # file.gen
         \/ file' = file /\ age' = age
<1>1. ASSUME NEW heard \in BOOLEAN, Write(c, heard) PROVE file'.gen # file.gen
  BY <1>1 DEF Write, Fresh, InUse
<1>2. CASE CopyWrites(c) \/ CopyUnheard(c)
  BY <1>1, <1>2 DEF CopyWrites, CopyUnheard
<1>3. CASE Remove(c) \/ RemoveUnheard(c)
  BY <1>3 DEF Remove, RemoveUnheard, Delete
<1>4. CASE \/ StartAcquire(c) \/ CopyRefused(c) \/ StealRefused(c) \/ Cat(c)
           \/ FindExpired(c) \/ FindValid(c) \/ StartRelease(c) \/ Renew(c)
  BY <1>4 DEF StartAcquire, CopyRefused, StealRefused, Cat, FindExpired, FindValid,
     StartRelease, Renew
<1>5. CASE CatFails(c) \/ CommandFails(c) \/ Crash(c)
  BY <1>5 DEF CatFails, CommandFails, Crash
<1> QED BY <1>2, <1>3, <1>4, <1>5 DEF Step, Trouble

(* The step of a client under an expired object that stays.                *)
LEMMA StepNears ==
  ASSUME TypeOK, TimedOut, NEW c \in Clients, Step(c) \/ Renew(c),
         file' = file, file' # NoFile
  PROVE  StepsLeft(c)' < StepsLeft(c)
<1> DEFINE From(a, b) == pc[c] = a /\ pc'[c] = b
<1> USE DEF TypeOK, Goto
<1>1. ~CopyWrites(c)
  BY DEF CopyWrites, Write, Fresh, InUse
<1>2. ~FindValid(c)
  BY DEF FindValid
<1>3. CASE StartAcquire(c) \/ Renew(c) \/ StartRelease(c)
  <2>1. From("idle", "copy") \/ From("held", "copy") \/ From("held", "release")
    BY <1>3 DEF StartAcquire, Renew, StartRelease
  <2> QED BY <2>1 DEF StepsLeft
<1>4. CASE CopyRefused(c) \/ Cat(c)
  <2>1. From("copy", "cat") \/ From("copy", "expire") \/ From("cat", "expire")
    BY <1>4, NeverRecognised DEF CopyRefused, Cat
  <2> QED BY <2>1 DEF StepsLeft
<1>5. CASE StealRefused(c)
  <2>1. (From("steal", "idle") \/ From("steal", "release")) /\ ~Matches(c)
    BY <1>5 DEF StealRefused, Raise
  <2>2. StepsLeft(c) = 7
    BY <2>1 DEF StepsLeft
  <2>3. StepsLeft(c)' \in {5, 6}
    BY <2>1 DEF StepsLeft
  <2> QED BY <2>2, <2>3
<1>6. CASE FindExpired(c)
  <2>1. From("expire", "steal") /\ Matches(c)'
    BY <1>6 DEF FindExpired, Matches
  <2> QED BY <2>1 DEF StepsLeft
<1>7. CASE Remove(c)
  <2>1. From("release", "idle")
    BY <1>7 DEF Remove
  <2> QED BY <2>1 DEF StepsLeft
<1> QED BY <1>1, <1>2, <1>3, <1>4, <1>5, <1>6, <1>7 DEF Step

(* An expired lock file, whether its writer died, overstayed or was never  *)
(* told of it, is removed or replaced after at most eight steps of any one *)
(* client that lives and whose commands are answered.  With this and       *)
(* ClientsNeverStuck only fairness is missing for OrphanReclaimed.         *)
THEOREM ExpiredIsReclaimed == Spec => ExpiredLocksGo
<1> DEFINE Nears(c) == \/ StepsLeft(c)' < StepsLeft(c)
                       \/ StepsLeft(c)' = StepsLeft(c) /\ ~Step(c)
                       \/ Trouble(c)
<1>1. ASSUME TypeOK, TimedOut, Next
      PROVE  \/ file' = NoFile
             \/ file'.gen # file.gen
             \/ /\ file' = file /\ TimedOut'
                /\ \A c \in Clients : Nears(c)
  <2> USE <1>1
  <2>1. ASSUME NEW d \in Clients, file' = file, pc'[d] = pc[d],
               generation'[d] = generation[d]
        PROVE  Nears(d)
    <3>1. StepsLeft(d)' = StepsLeft(d)
      BY <2>1 DEF StepsLeft, Matches
    <3>2. ~Step(d)
      BY <2>1, StepMoves
    <3> QED BY <3>1, <3>2
  <2>2. CASE Tick
    <3>1. file' = file /\ pc' = pc /\ generation' = generation
      BY <2>2 DEF Tick
    <3>2. file # NoFile /\ file.owner \in Clients /\ Expired(file.owner)
      BY FileShape DEF TimedOut
    <3>3. TimedOut'
      <4>1. PICK e \in Clients : e = file.owner
        BY <3>2
      <4>2. Expired(e)'
        BY <2>2, <3>2, <4>1, TickExpires
      <4> QED BY <3>1, <3>2, <4>1, <4>2 DEF TimedOut, Expired
    <3> QED BY <2>1, <3>1, <3>3
  <2>3. ASSUME NEW c \in Clients, Step(c) \/ Renew(c) \/ Trouble(c),
               file' # NoFile, file'.gen = file.gen
        PROVE  /\ file' = file /\ TimedOut'
               /\ \A d \in Clients : Nears(d)
    <3>1. file' = file /\ age' = age
      BY <2>3, FileChange
    <3>2. TimedOut'
      BY <3>1 DEF TimedOut, Expired
    <3>3. Nears(c)
      BY <2>3, <3>1, StepNears
    <3>4. ASSUME NEW d \in Clients, d # c PROVE Nears(d)
      BY <2>1, <2>3, <3>1, <3>4, OthersStay
    <3> HIDE DEF Nears
    <3> QED BY <3>1, <3>2, <3>3, <3>4
  <2> HIDE DEF Nears
  <2> QED BY <2>2, <2>3 DEF Next
<1>2. TypeOK /\ [Next]_vars =>
        [TimedOut =>
           \/ file' = NoFile
           \/ file'.gen # file.gen
           \/ /\ file' = file /\ TimedOut'
              /\ \A c \in Clients :
                   \/ StepsLeft(c)' < StepsLeft(c)
                   \/ StepsLeft(c)' = StepsLeft(c) /\ ~Step(c)
                   \/ Trouble(c)]_vars
  BY <1>1
<1>3. IInv => TypeOK
  BY DEF IInv
<1> QED BY <1>2, <1>3, Invariant, PTL DEF Spec, ExpiredLocksGo
-----------------------------------------------------------------------------
(* A generation may be used again when nobody remembers it, so the model   *)
(* needs one for the object, one for each client and one to write.         *)
EnoughGenerations ==
  IsFiniteSet(Generations) => Cardinality(Generations) > Cardinality(Clients) + 1

LEMMA Least ==
  ASSUME NEW S \in SUBSET Nat, S # {}
  PROVE  \E n \in S : \A m \in S : n <= m
<1> DEFINE R == {p \in Nat \X Nat : p[1] < p[2]}
<1>1. R = OpToRel(<, Nat)
  BY DEF OpToRel
<1>2. IsWellFoundedOn(R, Nat)
  BY <1>1, NatLessThanWellFounded, Zenon
<1>3. PICK x \in S : \A y \in S : ~(<<y, x>> \in R)
  BY <1>2, WFMin
<1>4. ASSUME NEW y \in S PROVE x <= y
  <2>1. x \in Nat /\ y \in Nat
    OBVIOUS
  <2>2. y < x => <<y, x>> \in R
    BY <2>1
  <2>3. ~(<<y, x>> \in R)
    BY <1>3
  <2> HIDE DEF R
  <2> QED BY <2>1, <2>2, <2>3
<1> QED BY <1>4

LEMMA FreshExists ==
  ASSUME TypeOK, EnoughGenerations
  PROVE  Fresh # {}
<1> DEFINE Remembered == {generation[c] : c \in Clients}
           Free == Generations \ InUse
<1>1. IsFiniteSet(Remembered) /\ Cardinality(Remembered) <= Cardinality(Clients)
  <2>1. generation \in Surjection(Clients, Remembered)
    BY DEF TypeOK, Surjection
  <2> QED BY <2>1, FS_Surjection, GsLockAssumption
<1>2. IsFiniteSet(InUse) /\ Cardinality(InUse) <= Cardinality(Clients) + 1
  <2>1. InUse = Remembered \cup {file.gen}
    BY DEF InUse
  <2>2. Cardinality(Remembered) \in Nat /\ Cardinality(Clients) \in Nat
    BY <1>1, FS_CardinalityType, GsLockAssumption
  <2> HIDE DEF Remembered
  <2>3. /\ IsFiniteSet(Remembered \cup {file.gen})
        /\ \/ Cardinality(Remembered \cup {file.gen}) = Cardinality(Remembered)
           \/ Cardinality(Remembered \cup {file.gen}) = Cardinality(Remembered) + 1
    BY <1>1, FS_AddElement
  <2> QED BY <1>1, <2>1, <2>2, <2>3
<1>3. Free # {}
  <2> SUFFICES ASSUME Generations \subseteq InUse PROVE FALSE
    OBVIOUS
  <2>1. IsFiniteSet(Generations) /\ Cardinality(Generations) <= Cardinality(InUse)
    BY <1>2, FS_Subset
  <2>2. /\ Cardinality(Generations) \in Nat /\ Cardinality(InUse) \in Nat
        /\ Cardinality(Clients) \in Nat
    BY <1>2, <2>1, FS_CardinalityType, GsLockAssumption
  <2> QED BY <1>2, <2>1, <2>2 DEF EnoughGenerations
<1>4. Free \in SUBSET Nat
  BY GsLockAssumption
<1>5. PICK g \in Free : \A h \in Free : g <= h
  BY <1>3, <1>4, Least
<1> QED BY <1>5 DEF Fresh

(* The guards of Step(c), written out.                                     *)
CanStep(c) ==
  \/ pc[c] \in {"idle", "cat", "expire", "held", "release"}
  \/ pc[c] \in {"copy", "steal"} /\ (Matches(c) => Fresh # {})

(* A client that has not died can always go on: whatever the object and    *)
(* the generation it remembers, a command is either executed or refused.   *)
THEOREM ClientsNeverStuck ==
  ASSUME EnoughGenerations
  PROVE  Spec => [](\A c \in Clients : pc[c] # "dead" => CanStep(c))
<1>1. IInv => \A c \in Clients : pc[c] # "dead" => CanStep(c)
  BY FreshExists DEF IInv, TypeOK, Places, CanStep
<1> QED BY <1>1, Invariant, PTL
=============================================================================
