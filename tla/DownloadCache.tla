--------------------------- MODULE DownloadCache ----------------------------
(***************************************************************************)
(* lib/paygen/download_cache.py: a directory of downloaded files that      *)
(* several processes share under flock locks.  The purge lock covers the   *)
(* whole cache: setting it up and purging it need it exclusively and give  *)
(* up at once when it is taken, GetFileObject has it shared for as long as *)
(* it works on a file.  Below it each file has a lock of its own, which a  *)
(* download needs exclusively, or gives up, and a reader waits to share.   *)
(*                                                                         *)
(* Which locks a process has follows from where it is; a process that dies *)
(* loses them.                                                             *)
(***************************************************************************)
EXTENDS Naturals

CONSTANTS Procs,                \* processes
          Uris,                 \* the files they ask for
          RetryCount,           \* FETCH_RETRY_COUNT
          MaxCrashes            \* bound: processes that die

ASSUME DownloadCacheAssumption ==
  RetryCount \in Nat \ {0} /\ MaxCrashes \in Nat

VARIABLES
  dirs,         \* the file and lock directories: "absent", "made", or
                \* "abandoned" by a process that died while it made them
  file,         \* of each uri: "absent", "partial" while it is downloaded,
                \* "torn" when the downloading process died, "whole"
  pc,           \* where each process is
  uri,          \* the file it last asked for
  attempt,      \* its attempts to get it
  got,          \* its open File object: "none", or one whose file is still
                \* "cached" or has been "purged"
  crashes

vars == <<dirs, file, pc, uri, attempt, got, crashes>>

(* "with self._CacheFileLock(...)" in GetFileObject and in _FetchIntoCache *)
FileShared == {"look", "sleep"}
FileExclusive == {"check", "fetch"}

(* "with self._PurgeLock(...)" in GetFileObject, and in _SetupCache, Purge *)
PurgeShared == {"try", "grown", "waitFile"} \cup FileShared \cup FileExclusive
PurgeExclusive == {"setup", "purge"}

InGet == {"waitPurge"} \cup PurgeShared
Places == {"new", "idle"} \cup PurgeExclusive \cup InGet

Init == /\ dirs = "absent"
        /\ file = [u \in Uris |-> "absent"]
        /\ pc = [p \in Procs |-> "new"]
        /\ uri \in [Procs -> Uris]
        /\ attempt = [p \in Procs |-> 0]
        /\ got = [p \in Procs |-> "none"]
        /\ crashes = 0

Goto(p, place) == pc' = [pc EXCEPT ![p] = place]

(* No process has the purge lock, or this file's lock, in these places. *)
NobodyAt(places) == \A p \in Procs : pc[p] \notin places
NobodyAtFile(u, places) ==
  \A p \in Procs : uri[p] = u => pc[p] \notin places

(* The files of us are unlinked; File objects on them stay open. *)
Unlink(us) ==
  /\ file' = [u \in Uris |-> IF u \in us THEN "absent" ELSE file[u]]
  /\ got' = [p \in Procs |-> IF got[p] = "cached" /\ uri[p] \in us
                             THEN "purged" ELSE got[p]]
-----------------------------------------------------------------------------
(*                         Setting up and purging                          *)

(* __init__: whoever is refused the lock relies on the one who has it. *)
SetupCache(p) ==
  /\ pc[p] = "new"
  /\ Goto(p, IF NobodyAt(PurgeShared \cup PurgeExclusive) THEN "setup" ELSE "idle")
  /\ UNCHANGED <<dirs, file, uri, attempt, got, crashes>>

MakeDirs(p) ==
  /\ pc[p] = "setup"
  /\ dirs' = "made"
  /\ Goto(p, "idle")
  /\ UNCHANGED <<file, uri, attempt, got, crashes>>

(* Mutant: the purge asks for a shared lock. *)
TryPurgeShared(p) ==
  /\ pc[p] = "idle" /\ NobodyAt(PurgeExclusive)
  /\ Goto(p, "purge")
  /\ UNCHANGED <<dirs, file, uri, attempt, got, crashes>>

(* Purge, when it is granted the lock; otherwise it does nothing. *)
TryPurge(p) ==
  /\ pc[p] = "idle" /\ NobodyAt(PurgeShared \cup PurgeExclusive)
  /\ Goto(p, "purge")
  /\ UNCHANGED <<dirs, file, uri, attempt, got, crashes>>

(* By age and by size, some of the files that are there. *)
PurgeFiles(p) ==
  /\ pc[p] = "purge"
  /\ \E us \in SUBSET Uris : Unlink(us)
  /\ Goto(p, "idle")
  /\ UNCHANGED <<dirs, uri, attempt, crashes>>
-----------------------------------------------------------------------------
(*                              GetFileObject                              *)

(* The caller is done with the File object it had. *)
Get(p, u) ==
  /\ pc[p] = "idle"
  /\ uri' = [uri EXCEPT ![p] = u]
  /\ attempt' = [attempt EXCEPT ![p] = 1]
  /\ got' = [got EXCEPT ![p] = "none"]
  /\ Goto(p, "waitPurge")
  /\ UNCHANGED <<dirs, file, crashes>>

(* Mutant: the shared purge lock does not wait for an exclusive one. *)
LockPurgeAnyway(p) ==
  /\ pc[p] = "waitPurge"
  /\ Goto(p, "try")
  /\ UNCHANGED <<dirs, file, uri, attempt, got, crashes>>

LockPurge(p) ==
  /\ pc[p] = "waitPurge" /\ NobodyAt(PurgeExclusive)
  /\ Goto(p, "try")
  /\ UNCHANGED <<dirs, file, uri, attempt, got, crashes>>

(* _FetchIntoCache opens the file's lock, which raises when its directory  *)
(* is missing, and gives up when somebody else has the lock.               *)
TryFetch(p) ==
  /\ pc[p] = "try"
  /\ Goto(p, IF dirs # "made" THEN "idle"
             ELSE IF NobodyAtFile(uri[p], FileShared \cup FileExclusive)
                  THEN "check" ELSE "waitFile")
  /\ UNCHANGED <<dirs, file, uri, attempt, got, crashes>>

(* Mutant: downloads without a look at the file that is there. *)
CheckNothing(p) ==
  /\ pc[p] = "check"
  /\ file' = [file EXCEPT ![uri[p]] = "partial"] /\ Goto(p, "fetch")
  /\ UNCHANGED <<dirs, uri, attempt, got, crashes>>

Check(p) ==
  /\ pc[p] = "check"
  /\ \/ /\ file[uri[p]] # "absent"
        /\ Goto(p, "waitFile")
        /\ UNCHANGED file
     \/ /\ file[uri[p]] = "absent"
        /\ file' = [file EXCEPT ![uri[p]] = "partial"]
        /\ Goto(p, "fetch")
  /\ UNCHANGED <<dirs, uri, attempt, got, crashes>>

FetchDone(p) ==
  /\ pc[p] = "fetch"
  /\ file' = [file EXCEPT ![uri[p]] = "whole"]
  /\ Goto(p, "grown")
  /\ UNCHANGED <<dirs, uri, attempt, got, crashes>>

(* The partial file is removed and the error leaves GetFileObject. *)
FetchFails(p) ==
  /\ pc[p] = "fetch"
  /\ Unlink({uri[p]})
  /\ Goto(p, "idle")
  /\ UNCHANGED <<dirs, uri, attempt, crashes>>

(* Mutant: the purge after a download goes ahead without its lock. *)
PurgeGrownAnyway(p) ==
  /\ pc[p] = "grown"
  /\ \E us \in SUBSET Uris : Unlink(us)
  /\ Goto(p, "waitFile")
  /\ UNCHANGED <<dirs, uri, attempt, crashes>>

(* The purge after a download opens the purge lock's file once more, and   *)
(* flock refuses it the lock because GetFileObject itself shares it.       *)
PurgeGrown(p) ==
  /\ pc[p] = "grown"
  /\ Goto(p, "waitFile")
  /\ UNCHANGED <<dirs, file, uri, attempt, got, crashes>>

LockFile(p) ==
  /\ pc[p] = "waitFile" /\ NobodyAtFile(uri[p], FileExclusive)
  /\ Goto(p, "look")
  /\ UNCHANGED <<dirs, file, uri, attempt, got, crashes>>

Look(p) ==
  /\ pc[p] = "look"
  /\ \/ /\ file[uri[p]] # "absent"
        /\ got' = [got EXCEPT ![p] = "cached"]
        /\ Goto(p, "idle")
     \/ /\ file[uri[p]] = "absent"
        /\ Goto(p, "sleep")
        /\ UNCHANGED got
  /\ UNCHANGED <<dirs, file, uri, attempt, crashes>>

(* Mutant: one attempt too many. *)
WakeOnceMore(p) ==
  /\ pc[p] = "sleep"
  /\ \/ /\ attempt[p] <= RetryCount
        /\ attempt' = [attempt EXCEPT ![p] = @ + 1]
        /\ Goto(p, "waitPurge")
     \/ /\ attempt[p] > RetryCount
        /\ Goto(p, "idle") /\ UNCHANGED attempt
  /\ UNCHANGED <<dirs, file, uri, got, crashes>>

(* Mutant: tries until it succeeds. *)
WakeForever(p) ==
  /\ pc[p] = "sleep"
  /\ Goto(p, "waitPurge")
  /\ UNCHANGED <<dirs, file, uri, attempt, got, crashes>>

(* The sleep is inside both locks; after it they are released, and after   *)
(* the last one RetriesExhaustedError is raised.                           *)
Wake(p) ==
  /\ pc[p] = "sleep"
  /\ \/ /\ attempt[p] < RetryCount
        /\ attempt' = [attempt EXCEPT ![p] = @ + 1]
        /\ Goto(p, "waitPurge")
     \/ /\ attempt[p] = RetryCount
        /\ Goto(p, "idle") /\ UNCHANGED attempt
  /\ UNCHANGED <<dirs, file, uri, got, crashes>>
-----------------------------------------------------------------------------
(* The process dies; another one takes its place. *)
Crash(p) ==
  /\ crashes < MaxCrashes
  /\ crashes' = crashes + 1
  /\ dirs' = IF pc[p] = "setup" /\ dirs = "absent" THEN "abandoned" ELSE dirs
  /\ file' = IF pc[p] = "fetch" THEN [file EXCEPT ![uri[p]] = "torn"] ELSE file
  /\ got' = [got EXCEPT ![p] = "none"]
  /\ Goto(p, "new")
  /\ UNCHANGED <<uri, attempt>>

(* What a process inside GetFileObject does without waiting for others *)
Steps(p) == \/ TryFetch(p) \/ Check(p) \/ FetchDone(p) \/ FetchFails(p)
            \/ PurgeGrown(p) \/ Look(p) \/ Wake(p)

Next == \E p \in Procs :
          \/ SetupCache(p) \/ MakeDirs(p) \/ TryPurge(p) \/ PurgeFiles(p)
          \/ (\E u \in Uris : Get(p, u))
          \/ LockPurge(p) \/ LockFile(p) \/ Steps(p) \/ Crash(p)

(* Downloads end and sleepers wake.  A process that waits for a lock is    *)
(* woken by the kernel at each unlock: strong fairness, for others may     *)
(* take the lock and release it any number of times meanwhile.             *)
Fairness == \A p \in Procs :
              /\ WF_vars(Steps(p)) /\ WF_vars(MakeDirs(p)) /\ WF_vars(PurgeFiles(p))
              /\ SF_vars(LockPurge(p)) /\ SF_vars(LockFile(p))

Spec == Init /\ [][Next]_vars /\ Fairness
-----------------------------------------------------------------------------
(* Types, and the bound on attempts. *)
TypeOK ==
  /\ dirs \in {"absent", "made", "abandoned"}
  /\ file \in [Uris -> {"absent", "partial", "torn", "whole"}]
  /\ pc \in [Procs -> Places]
  /\ uri \in [Procs -> Uris]
  /\ attempt \in [Procs -> 0..RetryCount]
  /\ got \in [Procs -> {"none", "cached", "purged"}]
  /\ crashes \in 0..MaxCrashes

(* _PurgeLock: "An exclusive lock proves nobody else will modify anything, *)
(* and nobody else will hold any _CacheFileLocks."                         *)
PurgeExcludes ==
  \A p, q \in Procs : p # q /\ pc[p] \in PurgeExclusive =>
    pc[q] \notin PurgeExclusive \cup FileShared \cup FileExclusive

(* GetFileObject: "cache files should never be modified".  The file that a *)
(* caller has open is not one that is being downloaded, neither when it is *)
(* opened nor later, though the open file is under no lock.                *)
ReadersKeepFile ==
  \A p \in Procs : got[p] = "cached" => file[uri[p]] \in {"whole", "torn"}

(* "If we can't get an exclusive lock on the cache, someone else set it    *)
(* up": unless that process died, GetFileObject finds the directories.     *)
SetupBeforeUse == \A p \in Procs : pc[p] \in PurgeShared => dirs # "absent"

(* A file is not purged between its download, or the moment its presence   *)
(* was seen, and the moment when the same call opens it.                   *)
KeptWhileUsed ==
  [][\A u \in Uris : file[u] = "whole" /\ file'[u] # "whole" =>
       \A p \in Procs : uri[p] = u => pc[p] \notin PurgeShared]_vars

(* GetFileObject returns or raises, whatever the others do: processes that *)
(* sleep with shared locks keep each other from downloading for as long as *)
(* they overlap.                                                           *)
GetEnds == \A p \in Procs : (pc[p] \in InGet) ~> (pc[p] \notin InGet)
=============================================================================
