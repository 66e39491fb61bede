------------------------ MODULE DownloadCacheProofs -------------------------
(***************************************************************************)
(* Proofs about DownloadCache for any processes, files and retry count.    *)
(* The flock locks give the two exclusions (PurgeExclusion, FileExclusion);*)
(* Downloads ties the partial files to the processes that download them,   *)
(* and DirsKnown says who may rely on a set-up that is not finished.       *)
(***************************************************************************)
EXTENDS DownloadCache, TLAPS

PurgeExclusion == \A p, q \in Procs :
  p # q /\ pc[p] \in PurgeExclusive => pc[q] \notin PurgeExclusive \cup PurgeShared

FileExclusion == \A p, q \in Procs :
  p # q /\ uri[p] = uri[q] /\ pc[p] \in FileExclusive =>
    pc[q] \notin FileExclusive \cup FileShared

Downloads ==
  /\ \A p \in Procs : pc[p] = "fetch" => file[uri[p]] = "partial"
  /\ \A u \in Uris : file[u] = "partial" =>
       \E p \in Procs : pc[p] = "fetch" /\ uri[p] = u

DirsKnown == dirs = "absent" => \/ \A p \in Procs : pc[p] = "new"
                                \/ \E p \in Procs : pc[p] = "setup"

Exclusions == PurgeExclusion /\ FileExclusion

IInv == TypeOK /\ Exclusions /\ Downloads /\ DirsKnown /\ ReadersKeepFile
-----------------------------------------------------------------------------
(* What every step does to the places and the files asked for: one process *)
(* moves, and a place where it has a lock is reached only when the lock is *)
(* granted.                                                                *)
Move(p, place) ==
  /\ Goto(p, place) /\ place \in Places
  /\ place \in PurgeExclusive => NobodyAt(PurgeShared \cup PurgeExclusive)
  /\ place \in PurgeShared /\ pc[p] \notin PurgeShared => NobodyAt(PurgeExclusive)
  /\ place \in FileExclusive /\ pc[p] \notin FileExclusive =>
       NobodyAtFile(uri[p], FileShared \cup FileExclusive)
  /\ place \in FileShared /\ pc[p] \notin FileShared =>
       NobodyAtFile(uri[p], FileExclusive)
  /\ \/ uri' = uri
     \/ place = "waitPurge" /\ \E u \in Uris : uri' = [uri EXCEPT ![p] = u]

Action(p) ==
  \/ SetupCache(p) \/ MakeDirs(p) \/ TryPurge(p) \/ PurgeFiles(p)
  \/ (\E u \in Uris : Get(p, u))
  \/ LockPurge(p) \/ LockFile(p) \/ Steps(p) \/ Crash(p)

LEMMA OneActs == ASSUME Next PROVE \E p \in Procs : Action(p)
BY DEF Next, Action

LEMMA MoveStep ==
  ASSUME TypeOK, NEW p \in Procs, Action(p)
  PROVE  \E place \in Places : Move(p, place)
<1> USE DEF Move, Places, InGet, PurgeExclusive, PurgeShared, FileShared,
            FileExclusive
<1>1. CASE SetupCache(p)
  BY <1>1 DEF SetupCache, Goto
<1>2. CASE MakeDirs(p)
  BY <1>2 DEF MakeDirs
<1>3. CASE TryPurge(p)
  BY <1>3 DEF TryPurge
<1>4. CASE PurgeFiles(p)
  BY <1>4 DEF PurgeFiles
<1>5. CASE \E u \in Uris : Get(p, u)
  BY <1>5 DEF Get
<1>6. CASE LockPurge(p)
  BY <1>6 DEF LockPurge
<1>7. CASE LockFile(p)
  BY <1>7 DEF LockFile
<1>8. CASE TryFetch(p)
  BY <1>8 DEF TryFetch
<1>9. CASE Check(p)
  BY <1>9 DEF Check
<1>10. CASE FetchDone(p)
  BY <1>10 DEF FetchDone
<1>11. CASE FetchFails(p)
  BY <1>11 DEF FetchFails
<1>12. CASE PurgeGrown(p)
  BY <1>12 DEF PurgeGrown
<1>13. CASE Look(p)
  BY <1>13 DEF Look
<1>14. CASE Wake(p)
  BY <1>14 DEF Wake
<1>15. CASE Crash(p)
  BY <1>15 DEF Crash
<1> QED BY <1>1, <1>2, <1>3, <1>4, <1>5, <1>6, <1>7, <1>8, <1>9, <1>10, <1>11,
           <1>12, <1>13, <1>14, <1>15 DEF Action, Steps

LEMMA GotoStep ==
  ASSUME TypeOK, NEW p \in Procs, NEW place \in Places, Goto(p, place)
  PROVE  /\ pc' \in [Procs -> Places] /\ pc'[p] = place
         /\ \A q \in Procs : q # p => pc'[q] = pc[q]
BY DEF TypeOK, Goto

LEMMA UnlinkStep ==
  ASSUME TypeOK, NEW us \in SUBSET Uris, Unlink(us)
  PROVE  /\ file' \in [Uris -> {"absent", "partial", "torn", "whole"}]
         /\ got' \in [Procs -> {"none", "cached", "purged"}]
         /\ \A u \in Uris : file'[u] = IF u \in us THEN "absent" ELSE file[u]
         /\ \A q \in Procs : got'[q] = "cached" => /\ got[q] = "cached"
                                                   /\ uri[q] \notin us
BY DEF TypeOK, Unlink
-----------------------------------------------------------------------------
LEMMA InitInv == Init => IInv
<1> SUFFICES ASSUME Init PROVE IInv
  OBVIOUS
<1> USE DEF Init
<1>1. TypeOK
  BY DownloadCacheAssumption DEF TypeOK, Places
<1>2. Exclusions
  BY DEF Exclusions, PurgeExclusion, FileExclusion, PurgeExclusive, FileExclusive
<1>3. Downloads /\ DirsKnown /\ ReadersKeepFile
  BY DEF Downloads, DirsKnown, ReadersKeepFile
<1> QED BY <1>1, <1>2, <1>3 DEF IInv

LEMMA TypePreserved ==
  ASSUME TypeOK, NEW p \in Procs, Action(p)
  PROVE  TypeOK'
<1>1. pc' \in [Procs -> Places] /\ uri' \in [Procs -> Uris]
  <2>1. PICK place \in Places : Move(p, place)
    BY MoveStep
  <2>2. pc' \in [Procs -> Places]
    BY <2>1, GotoStep DEF Move
  <2>3. uri' \in [Procs -> Uris]
    BY <2>1 DEF Move, TypeOK
  <2> QED BY <2>2, <2>3
<1> SUFFICES /\ dirs' \in {"absent", "made", "abandoned"}
             /\ file' \in [Uris -> {"absent", "partial", "torn", "whole"}]
             /\ attempt' \in [Procs -> 0..RetryCount]
             /\ got' \in [Procs -> {"none", "cached", "purged"}]
             /\ crashes' \in 0..MaxCrashes
  BY <1>1 DEF TypeOK
<1> USE DownloadCacheAssumption DEF TypeOK
<1>2. CASE SetupCache(p) \/ MakeDirs(p) \/ TryPurge(p) \/ LockPurge(p)
           \/ LockFile(p) \/ TryFetch(p) \/ PurgeGrown(p)
  BY <1>2 DEF SetupCache, MakeDirs, TryPurge, LockPurge, LockFile, TryFetch,
              PurgeGrown
<1>3. CASE PurgeFiles(p)
  BY <1>3, UnlinkStep DEF PurgeFiles
<1>4. CASE \E u \in Uris : Get(p, u)
  BY <1>4 DEF Get
<1>5. CASE Check(p) \/ FetchDone(p) \/ Look(p)
  BY <1>5 DEF Check, FetchDone, Look
<1>6. CASE FetchFails(p)
  BY <1>6, UnlinkStep DEF FetchFails
<1>7. CASE Wake(p)
  BY <1>7 DEF Wake
<1>8. CASE Crash(p)
  BY <1>8 DEF Crash
<1> QED BY <1>2, <1>3, <1>4, <1>5, <1>6, <1>7, <1>8 DEF Action, Steps

(* The exclusions need of a step only what Move says of it. *)
LEMMA ExclusionsPreserved ==
  ASSUME TypeOK, Exclusions, NEW p \in Procs, Action(p)
  PROVE  Exclusions'
<1>1. PICK place \in Places : Move(p, place)
  BY MoveStep
<1>2. pc'[p] = place /\ \A q \in Procs : q # p => pc'[q] = pc[q]
  BY <1>1, GotoStep DEF Move
<1>3. \A q \in Procs : q # p => uri'[q] = uri[q]
  BY <1>1 DEF Move, TypeOK
<1>4. PurgeExclusion'
  BY <1>1, <1>2 DEF Exclusions, PurgeExclusion, Move, NobodyAt, PurgeExclusive,
    PurgeShared, FileShared, FileExclusive
<1>5. FileExclusion'
  <2> SUFFICES ASSUME NEW q \in Procs, q # p, uri'[p] = uri[q]
      PROVE  /\ pc'[p] \in FileExclusive => pc[q] \notin FileExclusive \cup FileShared
             /\ pc[q] \in FileExclusive => pc'[p] \notin FileExclusive \cup FileShared
    BY <1>2, <1>3 DEF FileExclusion, Exclusions
  <2>1. CASE place = "waitPurge"
    BY <2>1, <1>2 DEF FileExclusive, FileShared
  <2>2. CASE place # "waitPurge"
    <3>1. uri[p] = uri[q]
      BY <2>2, <1>1 DEF Move
    <3> QED BY <1>1, <1>2, <3>1 DEF Exclusions, FileExclusion, Move, NobodyAtFile
  <2> QED BY <2>1, <2>2
<1> QED BY <1>4, <1>5 DEF Exclusions

(* Another process that downloads the file of uri[p] keeps p from most of  *)
(* what changes the file.                                                  *)
LEMMA Alone ==
  ASSUME TypeOK, Exclusions, NEW p \in Procs, NEW q \in Procs, q # p,
         pc[q] = "fetch"
  PROVE  /\ pc[p] \notin PurgeExclusive
         /\ uri[p] = uri[q] => pc[p] \notin FileExclusive \cup FileShared
BY DEF Exclusions, PurgeExclusion, FileExclusion, PurgeShared, FileExclusive

LEMMA DownloadsPreserved ==
  ASSUME TypeOK, Exclusions, Downloads, NEW p \in Procs, Action(p)
  PROVE  Downloads'
<1> USE DEF Downloads
<1>0. PICK place \in Places : Move(p, place)
  BY MoveStep
<1>a. pc'[p] = place /\ \A q \in Procs : q # p => pc'[q] = pc[q]
  BY <1>0, GotoStep DEF Move
<1>1. CASE SetupCache(p) \/ MakeDirs(p) \/ TryPurge(p) \/ LockPurge(p)
           \/ LockFile(p) \/ TryFetch(p) \/ PurgeGrown(p) \/ Look(p) \/ Wake(p)
  <2>1. /\ file' = file /\ uri' = uri
        /\ pc[p] # "fetch" /\ pc'[p] # "fetch"
    BY <1>1 DEF SetupCache, MakeDirs, TryPurge, LockPurge, LockFile, TryFetch,
                PurgeGrown, Look, Wake, Goto, TypeOK
  <2> QED BY <2>1, <1>a
<1>2. CASE PurgeFiles(p)
  <2>1. PICK us \in SUBSET Uris : Unlink(us)
    BY <1>2 DEF PurgeFiles
  <2>2. pc[p] = "purge" /\ pc'[p] = "idle" /\ uri' = uri
    BY <1>2 DEF PurgeFiles, Goto, TypeOK
  <2>3. \A q \in Procs : pc[q] # "fetch"
    BY <2>2, Alone DEF PurgeExclusive
  <2> QED BY <2>1, <2>2, <2>3, <1>a, UnlinkStep
<1>3. CASE \E u \in Uris : Get(p, u)
  <2>1. /\ file' = file /\ pc[p] = "idle" /\ pc'[p] = "waitPurge"
        /\ \A q \in Procs : q # p => uri'[q] = uri[q]
    BY <1>3 DEF Get, Goto, TypeOK
  <2> QED BY <2>1, <1>a
<1>4. CASE Check(p)
  <2>1. pc[p] = "check" /\ uri' = uri
    BY <1>4 DEF Check
  <2>2. \A q \in Procs : pc[q] = "fetch" => uri[q] # uri[p]
    BY <2>1, Alone DEF FileExclusive
  <2>3. CASE file' = file /\ pc'[p] = "waitFile"
    BY <2>1, <2>3, <1>a
  <2>4. CASE file' = [file EXCEPT ![uri[p]] = "partial"] /\ pc'[p] = "fetch"
    BY <2>1, <2>2, <2>4, <1>a DEF TypeOK
  <2> QED BY <1>4, <2>3, <2>4 DEF Check, Goto, TypeOK
<1>5. CASE FetchDone(p) \/ FetchFails(p) \/ (Crash(p) /\ pc[p] = "fetch")
  <2>1. /\ pc[p] = "fetch" /\ pc'[p] # "fetch" /\ uri' = uri
        /\ file'[uri[p]] # "partial"
        /\ \A u \in Uris : u # uri[p] => file'[u] = file[u]
    BY <1>5 DEF FetchDone, FetchFails, Crash, Goto, Unlink, TypeOK
  <2>2. \A q \in Procs : q # p /\ pc[q] = "fetch" => uri[q] # uri[p]
    BY <2>1, Alone DEF FileExclusive
  <2> QED BY <2>1, <2>2, <1>a DEF TypeOK
<1>6. CASE Crash(p) /\ pc[p] # "fetch"
  <2>1. file' = file /\ uri' = uri /\ pc'[p] = "new"
    BY <1>6 DEF Crash, Goto, TypeOK
  <2> QED BY <1>6, <2>1, <1>a
<1> QED BY <1>1, <1>2, <1>3, <1>4, <1>5, <1>6 DEF Action, Steps

LEMMA DirsPreserved ==
  ASSUME TypeOK, DirsKnown, NEW p \in Procs, Action(p)
  PROVE  DirsKnown'
<1> SUFFICES ASSUME dirs' = "absent"
    PROVE  \/ \A q \in Procs : pc'[q] = "new"
           \/ \E q \in Procs : pc'[q] = "setup"
  BY DEF DirsKnown
<1>0. PICK place \in Places : Move(p, place)
  BY MoveStep
<1>a. pc'[p] = place /\ \A q \in Procs : q # p => pc'[q] = pc[q]
  BY <1>0, GotoStep DEF Move
<1>b. dirs = "absent"
  BY DEF Action, Steps, SetupCache, MakeDirs, TryPurge, PurgeFiles, Get, LockPurge,
    LockFile, TryFetch, Check, FetchDone, FetchFails, PurgeGrown, Look, Wake, Crash
<1>1. CASE SetupCache(p)
  <2>1. pc[p] = "new"
    BY <1>1 DEF SetupCache
  <2>2. CASE \A q \in Procs : pc[q] = "new"
    <3>1. NobodyAt(PurgeShared \cup PurgeExclusive)
      BY <2>2 DEF NobodyAt, PurgeShared, PurgeExclusive, FileShared, FileExclusive
    <3> QED BY <1>1, <3>1, <1>a DEF SetupCache, Goto, TypeOK
  <2>3. CASE \E q \in Procs : pc[q] = "setup"
    BY <2>1, <2>3, <1>a
  <2> QED BY <1>b, <2>2, <2>3 DEF DirsKnown
<1>2. CASE MakeDirs(p)
  BY <1>2 DEF MakeDirs
<1>3. CASE Crash(p)
  <2>1. pc[p] # "setup" /\ pc'[p] = "new"
    BY <1>3, <1>b DEF Crash, Goto, TypeOK
  <2> QED BY <2>1, <1>a, <1>b DEF DirsKnown
<1>4. CASE ~SetupCache(p) /\ ~MakeDirs(p) /\ ~Crash(p)
  <2>1. pc[p] \notin {"new", "setup"}
    BY <1>4 DEF Action, Steps, TryPurge, PurgeFiles, Get, LockPurge, LockFile,
      TryFetch, Check, FetchDone, FetchFails, PurgeGrown, Look, Wake
  <2> QED BY <2>1, <1>a, <1>b DEF DirsKnown
<1> QED BY <1>1, <1>2, <1>3, <1>4

LEMMA ReadersPreserved ==
  ASSUME TypeOK, Exclusions, Downloads, ReadersKeepFile, NEW p \in Procs, Action(p)
  PROVE  ReadersKeepFile'
<1> USE DEF ReadersKeepFile
<1>1. CASE SetupCache(p) \/ MakeDirs(p) \/ TryPurge(p) \/ LockPurge(p)
           \/ LockFile(p) \/ TryFetch(p) \/ PurgeGrown(p) \/ Wake(p)
  BY <1>1 DEF SetupCache, MakeDirs, TryPurge, LockPurge, LockFile, TryFetch,
              PurgeGrown, Wake
<1>2. CASE PurgeFiles(p)
  BY <1>2, UnlinkStep DEF PurgeFiles, TypeOK
<1>3. CASE \E u \in Uris : Get(p, u)
  BY <1>3 DEF Get, TypeOK
<1>4. CASE Check(p)
  BY <1>4 DEF Check, TypeOK
<1>5. CASE FetchDone(p)
  BY <1>5 DEF FetchDone, TypeOK
<1>6. CASE FetchFails(p)
  BY <1>6, UnlinkStep DEF FetchFails, TypeOK
<1>7. CASE Look(p)
  <2>1. pc[p] = "look" /\ file' = file /\ uri' = uri
    BY <1>7 DEF Look
  <2>2. file[uri[p]] # "partial"
    BY <2>1, Alone DEF Downloads, FileShared, TypeOK
  <2>3. \A q \in Procs : got'[q] = "cached" =>
          got[q] = "cached" \/ (q = p /\ file[uri[p]] # "absent")
    BY <1>7 DEF Look, TypeOK
  <2> QED BY <2>1, <2>2, <2>3 DEF TypeOK
<1>8. CASE Crash(p)
  BY <1>8 DEF Crash, TypeOK
<1> QED BY <1>1, <1>2, <1>3, <1>4, <1>5, <1>6, <1>7, <1>8 DEF Action, Steps

LEMMA NextInv == IInv /\ [Next]_vars => IInv'
<1> SUFFICES ASSUME IInv, [Next]_vars PROVE IInv'
  OBVIOUS
<1>1. CASE UNCHANGED vars
  BY <1>1 DEF vars, IInv, TypeOK, Exclusions, PurgeExclusion, FileExclusion,
    Downloads, DirsKnown, ReadersKeepFile
<1>2. CASE Next
  <2>1. PICK p \in Procs : Action(p)
    BY <1>2, OneActs
  <2> QED BY <2>1, TypePreserved, ExclusionsPreserved, DownloadsPreserved,
             DirsPreserved, ReadersPreserved DEF IInv
<1> QED BY <1>1, <1>2

LEMMA Invariant == Spec => []IInv
BY InitInv, NextInv, PTL DEF Spec
-----------------------------------------------------------------------------
(* Types, and no call makes more attempts than FETCH_RETRY_COUNT. *)
THEOREM TypeCorrect == Spec => []TypeOK
BY Invariant, PTL DEF IInv

(* While one process sets the cache up or purges it, no other one does,    *)
(* and no other has the lock of a file.                                    *)
THEOREM PurgeAlone == Spec => []PurgeExcludes
<1>1. IInv => PurgeExcludes
  BY DEF IInv, Exclusions, PurgeExclusion, PurgeExcludes, PurgeShared
<1> QED BY <1>1, Invariant, PTL

(* No caller of GetFileObject ever has a file open that is downloaded.     *)
THEOREM FilesNotModified == Spec => []ReadersKeepFile
BY Invariant, PTL DEF IInv

(* Whoever has the shared purge lock finds the cache set up, or its setter *)
(* has died.                                                               *)
THEOREM UsersFindDirs == Spec => []SetupBeforeUse
<1>1. IInv => SetupBeforeUse
  BY DEF IInv, DirsKnown, Exclusions, PurgeExclusion, SetupBeforeUse,
    PurgeShared, PurgeExclusive, FileShared, FileExclusive
<1> QED BY <1>1, Invariant, PTL

(* A file stays in the cache from its download, or from the moment when it *)
(* was seen there, until the call that wanted it has opened it.            *)
THEOREM NoUntimelyPurge == Spec => KeptWhileUsed
<1> DEFINE Kept == \A u \in Uris : file[u] = "whole" /\ file'[u] # "whole" =>
                     \A p \in Procs : uri[p] = u => pc[p] \notin PurgeShared
<1>1. ASSUME IInv, Next PROVE Kept
  <2>1. PICK p \in Procs : Action(p)
    BY <1>1, OneActs
  <2>2. CASE PurgeFiles(p)
    <3>1. pc[p] = "purge"
      BY <2>2 DEF PurgeFiles
    <3> QED BY <3>1, <1>1 DEF IInv, Exclusions, PurgeExclusion, PurgeExclusive,
               PurgeShared, FileShared, FileExclusive
  <2>3. CASE ~PurgeFiles(p)
    <3>1. \A u \in Uris : file[u] = "whole" => file'[u] = "whole"
      BY <2>1, <2>3, <1>1 DEF Action, Steps, SetupCache, MakeDirs, TryPurge, Get,
        LockPurge, LockFile, TryFetch, Check, FetchDone, FetchFails, PurgeGrown,
        Look, Wake, Crash, Unlink, IInv, TypeOK, Downloads
    <3> QED BY <3>1
  <2> QED BY <2>2, <2>3
<1>2. IInv /\ [Next]_vars => [Kept]_vars
  BY <1>1
<1> QED BY <1>2, Invariant, PTL DEF Spec, KeptWhileUsed
-----------------------------------------------------------------------------
(* How much is left of a call of GetFileObject: of the attempt, and of the *)
(* attempts after it.                                                      *)
Ahead(place) ==
  CASE place = "waitPurge" -> 8
    [] place = "try" -> 7
    [] place = "check" -> 6
    [] place = "fetch" -> 5
    [] place = "grown" -> 4
    [] place = "waitFile" -> 3
    [] place = "look" -> 2
    [] OTHER -> 1

CallLeft(p) == 9 * (RetryCount - attempt[p]) + Ahead(pc[p])

(* A process inside GetFileObject stays where it is, leaves the call, or   *)
(* has less of it left.                                                    *)
CallsShrink ==
  [][\A p \in Procs : pc[p] \in InGet =>
       \/ pc'[p] = pc[p] /\ attempt'[p] = attempt[p]
       \/ pc'[p] \notin InGet
       \/ CallLeft(p)' < CallLeft(p)]_vars

LEMMA GetStep ==
  ASSUME TypeOK, NEW p \in Procs, pc[p] \in InGet, Action(p)
  PROVE  pc'[p] \notin InGet \/ CallLeft(p)' < CallLeft(p)
<1> DEFINE Forward == attempt' = attempt /\ Ahead(pc'[p]) < Ahead(pc[p])
           Again == /\ attempt'[p] = attempt[p] + 1
                    /\ pc[p] = "sleep" /\ pc'[p] = "waitPurge"
<1>1. RetryCount \in Nat /\ attempt[p] \in Nat
  BY DownloadCacheAssumption DEF TypeOK
<1>2. Forward => CallLeft(p)' < CallLeft(p)
  BY <1>1 DEF CallLeft, Ahead
<1>3. Again => CallLeft(p)' < CallLeft(p)
  BY <1>1 DEF CallLeft, Ahead
<1>4. pc'[p] \notin InGet \/ Forward \/ Again
  <2> USE DEF TypeOK, Goto, InGet, PurgeShared, FileShared, FileExclusive, Ahead
  <2>1. CASE LockPurge(p) \/ LockFile(p) \/ TryFetch(p) \/ PurgeGrown(p)
    BY <2>1 DEF LockPurge, LockFile, TryFetch, PurgeGrown
  <2>2. CASE Check(p) \/ FetchDone(p) \/ FetchFails(p) \/ Look(p)
    BY <2>2 DEF Check, FetchDone, FetchFails, Look
  <2>3. CASE Wake(p)
    BY <2>3 DEF Wake
  <2>4. CASE Crash(p)
    BY <2>4 DEF Crash
  <2>5. /\ ~SetupCache(p) /\ ~MakeDirs(p) /\ ~TryPurge(p) /\ ~PurgeFiles(p)
        /\ \A u \in Uris : ~Get(p, u)
    BY DEF SetupCache, MakeDirs, TryPurge, PurgeFiles, Get
  <2> QED BY <2>1, <2>2, <2>3, <2>4, <2>5 DEF Action, Steps
<1> QED BY <1>2, <1>3, <1>4

(* GetFileObject ends after a bounded number of its own steps, however     *)
(* often others fetch, purge, hold locks or die meanwhile: eight for each  *)
(* of FETCH_RETRY_COUNT attempts.                                          *)
THEOREM CallsAreFinite ==
  Spec => CallsShrink /\ []\A p \in Procs : CallLeft(p) \in Nat
<1>1. ASSUME IInv, Next, NEW p \in Procs, pc[p] \in InGet
      PROVE  \/ pc'[p] = pc[p] /\ attempt'[p] = attempt[p]
             \/ pc'[p] \notin InGet
             \/ CallLeft(p)' < CallLeft(p)
  <2>1. PICK q \in Procs : Action(q)
    BY <1>1, OneActs
  <2>2. CASE q = p
    BY <1>1, <2>1, <2>2, GetStep DEF IInv
  <2>3. CASE q # p
    <3>1. PICK place \in Places : Move(q, place)
      BY <1>1, <2>1, MoveStep DEF IInv
    <3>2. pc'[p] = pc[p]
      BY <1>1, <2>3, <3>1, GotoStep DEF Move, IInv
    <3>3. attempt'[p] = attempt[p]
      BY <1>1, <2>1, <2>3 DEF Action, Steps, SetupCache, MakeDirs, TryPurge,
        PurgeFiles, Get, LockPurge, LockFile, TryFetch, Check, FetchDone,
        FetchFails, PurgeGrown, Look, Wake, Crash, IInv, TypeOK
    <3> QED BY <3>2, <3>3
  <2> QED BY <2>2, <2>3
<1>2. IInv /\ [Next]_vars =>
        [\A p \in Procs : pc[p] \in InGet =>
           \/ pc'[p] = pc[p] /\ attempt'[p] = attempt[p]
           \/ pc'[p] \notin InGet
           \/ CallLeft(p)' < CallLeft(p)]_vars
  BY <1>1
<1>3. IInv => \A p \in Procs : CallLeft(p) \in Nat
  <2> SUFFICES ASSUME IInv, NEW p \in Procs PROVE CallLeft(p) \in Nat
    OBVIOUS
  <2>1. RetryCount \in Nat /\ attempt[p] \in 0..RetryCount
    BY DownloadCacheAssumption DEF IInv, TypeOK
  <2> QED BY <2>1 DEF CallLeft, Ahead
<1> QED BY <1>2, <1>3, Invariant, PTL DEF Spec, CallsShrink
=============================================================================
