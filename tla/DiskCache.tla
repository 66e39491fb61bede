----------------------------- MODULE DiskCache ------------------------------
(***************************************************************************)
(* lib/cache.py: CacheReference and DiskCache, over the lockf locks of     *)
(* lib/locking.py, for one key and several processes that each use one     *)
(* reference after another.  A key has two lock files: the entry lock is a *)
(* monitor around every operation, the key lock is what a reader keeps     *)
(* while it uses the entry.                                                *)
(*                                                                         *)
(* A lock is on the file that was opened, not on its path: the model has   *)
(* the inode that each path leads to and the inode that each process has   *)
(* open.  Inode numbers are used again once nothing refers to them; each   *)
(* of the two lock files has numbers of its own.                           *)
(***************************************************************************)
EXTENDS Naturals, FiniteSets

CONSTANTS Procs,                \* processes
          None,                 \* no entry
          Inodes,               \* inode numbers of the key's lock files
          MaxFailures,          \* bound: insertions that raise
          MaxCrashes            \* bound: processes that die

ASSUME DiskCacheAssumption ==
  /\ IsFiniteSet(Procs) /\ None \notin Procs
  /\ Inodes \subseteq Nat \ {0}
  /\ MaxFailures \in Nat /\ MaxCrashes \in Nat

VARIABLES
  entry,        \* the process whose item is at the key's path, or None
  lockPath,     \* inode of the key lock's path, or NoInode
  entryPath,    \* inode of the entry lock's path, or NoInode
  lockFd,       \* _lock: the inode that is open, or NoInode
  entryFd,      \* _entry_lock: the inode that is open, or NoInode
  lockMode,     \* what lockf grants each process on its lockFd
  pc,           \* where each process is
  op,           \* the operation it is in, with its "lock" argument
  unlinked,     \* some lock file has been unlinked
  failures, crashes

vars == <<entry, lockPath, entryPath, lockFd, entryFd, lockMode, pc, op,
          unlinked, failures, crashes>>
disk == <<entry, lockPath, entryPath, unlinked>>
bounds == <<failures, crashes>>

NoInode == 0

NoOp == [name |-> "none", lock |-> FALSE]
Ops == {[name |-> n, lock |-> FALSE] : n \in {"Assign", "Remove"}} \cup
       [name : {"Exists", "SetDefault"}, lock : BOOLEAN]

(* Inside an operation; "body" to "leave" hold the entry lock.             *)
Monitor == {"body", "openW", "waitW", "clear", "fill", "unlinkL", "unlinkE",
            "openR", "waitR", "leave"}
InCall == Monitor \cup {"waitE"}

Init == /\ entry = None /\ lockPath = NoInode /\ entryPath = NoInode
        /\ lockFd = [p \in Procs |-> NoInode]
        /\ entryFd = [p \in Procs |-> NoInode]
        /\ lockMode = [p \in Procs |-> "none"]
        /\ pc = [p \in Procs |-> "out"]
        /\ op = [p \in Procs |-> NoOp]
        /\ unlinked = FALSE
        /\ failures = 0 /\ crashes = 0
-----------------------------------------------------------------------------
(*                               lockf locks                               *)

(* O_CREAT: the file of the path, or a new one, which no one has open. *)
Opened(path, fds) ==
  LET unused == Inodes \ {fds[p] : p \in Procs}
  IN  IF path # NoInode THEN {path}
      ELSE {i \in unused : \A j \in unused : i <= j}

OpenLock(p) == \E i \in Opened(lockPath, lockFd) :
                 lockPath' = i /\ lockFd' = [lockFd EXCEPT ![p] = i]

CloseLock(p) == /\ lockFd' = [lockFd EXCEPT ![p] = NoInode]
                /\ lockMode' = [lockMode EXCEPT ![p] = "none"]

Holds(p, mode) == lockMode' = [lockMode EXCEPT ![p] = mode]

(* No other process has a lock in these modes on the file p has open. *)
Grantable(p, modes) ==
  \A q \in Procs \ {p} : lockFd[q] = lockFd[p] => lockMode[q] \notin modes

EntryGrantable(p) ==
  \A q \in Procs \ {p} : entryFd[q] = entryFd[p] => pc[q] \notin Monitor
-----------------------------------------------------------------------------
(*                          The cache reference                            *)

Goto(p, place) == pc' = [pc EXCEPT ![p] = place]

(* "with cache.Lookup(key) as ref" opens the lock file and takes no lock. *)
Acquire(p) ==
  /\ pc[p] = "out"
  /\ OpenLock(p)
  /\ Goto(p, "in")
  /\ UNCHANGED <<entry, entryPath, entryFd, lockMode, op, unlinked, bounds>>

(* Mutant: an operation may be called with a read lock held. *)
CallWhileReading(p, o) ==
  /\ pc[p] = "in"
  /\ op' = [op EXCEPT ![p] = o]
  /\ \E i \in Opened(entryPath, entryFd) :
       entryPath' = i /\ entryFd' = [entryFd EXCEPT ![p] = i]
  /\ Goto(p, "waitE")
  /\ UNCHANGED <<entry, lockPath, lockFd, lockMode, unlinked, bounds>>

(* EntryLock refuses a caller that has a read lock, and opens the entry    *)
(* lock's file.                                                            *)
Call(p, o) ==
  /\ pc[p] = "in" /\ lockMode[p] # "read"
  /\ op' = [op EXCEPT ![p] = o]
  /\ \E i \in Opened(entryPath, entryFd) :
       entryPath' = i /\ entryFd' = [entryFd EXCEPT ![p] = i]
  /\ Goto(p, "waitE")
  /\ UNCHANGED <<entry, lockPath, lockFd, lockMode, unlinked, bounds>>

(* Mutant: the entry lock is a shared one. *)
LockEntryShared(p) ==
  /\ pc[p] = "waitE"
  /\ Goto(p, "body")
  /\ UNCHANGED <<disk, lockFd, entryFd, lockMode, op, bounds>>

LockEntry(p) ==
  /\ pc[p] = "waitE" /\ EntryGrantable(p)
  /\ Goto(p, "body")
  /\ UNCHANGED <<disk, lockFd, entryFd, lockMode, op, bounds>>

(* Where an operation goes once its part under the write lock, if any, is  *)
(* done: the "lock" argument asks for a read lock.                         *)
Rest(p) == IF op[p].lock THEN "openR" ELSE "leave"

Body(p) ==
  /\ pc[p] = "body"
  /\ \/ /\ op[p].name = "Exists"
        /\ Goto(p, IF entry # None THEN Rest(p) ELSE "leave")
     \/ /\ op[p].name = "SetDefault"
        /\ Goto(p, IF entry # None THEN Rest(p) ELSE "openW")
     \/ /\ op[p].name \in {"Assign", "Remove"}
        /\ Goto(p, "openW")
  /\ UNCHANGED <<disk, lockFd, entryFd, lockMode, op, bounds>>

(* The "fd" property: open by path, unless Acquire's file is still open. *)
Reopen(p) ==
  /\ pc[p] \in {"openW", "openR"}
  /\ IF lockFd[p] = NoInode THEN OpenLock(p) ELSE UNCHANGED <<lockPath, lockFd>>
  /\ Goto(p, IF pc[p] = "openW" THEN "waitW" ELSE "waitR")
  /\ UNCHANGED <<entry, entryPath, entryFd, lockMode, op, unlinked, bounds>>

(* Mutant: a write lock does not wait for readers. *)
LockWriteShared(p) ==
  /\ pc[p] = "waitW" /\ Grantable(p, {"write"})
  /\ Holds(p, "write")
  /\ Goto(p, "clear")
  /\ UNCHANGED <<disk, lockFd, entryFd, op, bounds>>

LockWrite(p) ==
  /\ pc[p] = "waitW" /\ Grantable(p, {"read", "write"})
  /\ Holds(p, "write")
  /\ Goto(p, "clear")
  /\ UNCHANGED <<disk, lockFd, entryFd, op, bounds>>

(* DiskCache._Remove, with which _Insert begins. *)
Clear(p) ==
  /\ pc[p] = "clear"
  /\ entry' = None
  /\ Goto(p, IF op[p].name = "Remove" THEN "unlinkL" ELSE "fill")
  /\ UNCHANGED <<lockPath, entryPath, lockFd, entryFd, lockMode, op, unlinked,
                 bounds>>

(* The new item is moved in, and leaving "with _lock" closes the file. *)
Fill(p) ==
  /\ pc[p] = "fill"
  /\ entry' = p
  /\ CloseLock(p)
  /\ Goto(p, Rest(p))
  /\ UNCHANGED <<lockPath, entryPath, entryFd, op, unlinked, bounds>>

(* The download or one of the moves raises. *)
InsertFails(p) ==
  /\ pc[p] \in {"clear", "fill"} /\ op[p].name # "Remove"
  /\ failures < MaxFailures /\ failures' = failures + 1
  /\ CloseLock(p)
  /\ Goto(p, "leave")
  /\ UNCHANGED <<disk, entryFd, op, crashes>>

(* CacheReference._Remove unlinks the key lock and then the entry lock. *)
UnlinkLock(p) ==
  /\ pc[p] = "unlinkL"
  /\ lockPath' = NoInode /\ unlinked' = TRUE
  /\ Goto(p, "unlinkE")
  /\ UNCHANGED <<entry, entryPath, lockFd, entryFd, lockMode, op, bounds>>

UnlinkEntryLock(p) ==
  /\ pc[p] = "unlinkE"
  /\ entryPath' = NoInode /\ unlinked' = TRUE
  /\ CloseLock(p)
  /\ Goto(p, "leave")
  /\ UNCHANGED <<entry, lockPath, entryFd, op, bounds>>

LockRead(p) ==
  /\ pc[p] = "waitR" /\ Grantable(p, {"write"})
  /\ Holds(p, "read")
  /\ Goto(p, "leave")
  /\ UNCHANGED <<disk, lockFd, entryFd, op, bounds>>

(* Mutant: the entry lock is unlocked but its file stays open. *)
LeaveOpen(p) ==
  /\ pc[p] = "leave"
  /\ op' = [op EXCEPT ![p] = NoOp]
  /\ Goto(p, "in")
  /\ UNCHANGED <<disk, lockFd, entryFd, lockMode, bounds>>

Leave(p) ==
  /\ pc[p] = "leave"
  /\ entryFd' = [entryFd EXCEPT ![p] = NoInode]
  /\ op' = [op EXCEPT ![p] = NoOp]
  /\ Goto(p, "in")
  /\ UNCHANGED <<disk, lockFd, lockMode, bounds>>

Release(p) ==
  /\ pc[p] = "in"
  /\ CloseLock(p)
  /\ Goto(p, "out")
  /\ UNCHANGED <<disk, entryFd, op, bounds>>

(* The kernel closes the files of a process that dies. *)
Crash(p) ==
  /\ pc[p] \notin {"out", "dead"}
  /\ crashes < MaxCrashes /\ crashes' = crashes + 1
  /\ CloseLock(p)
  /\ entryFd' = [entryFd EXCEPT ![p] = NoInode]
  /\ op' = [op EXCEPT ![p] = NoOp]
  /\ Goto(p, "dead")
  /\ UNCHANGED <<disk, failures>>
-----------------------------------------------------------------------------
Step(p) == \/ LockEntry(p) \/ Body(p) \/ Reopen(p) \/ LockWrite(p)
           \/ Clear(p) \/ Fill(p) \/ UnlinkLock(p) \/ UnlinkEntryLock(p)
           \/ LockRead(p) \/ Leave(p)

Next == \E p \in Procs :
          \/ Step(p) \/ Acquire(p) \/ Release(p)
          \/ \E o \in Ops : Call(p, o)
          \/ InsertFails(p) \/ Crash(p)

(* A process goes on with an operation, and a reader ends.                 *)
Spec == /\ Init /\ [][Next]_vars
        /\ \A p \in Procs : WF_vars(Step(p)) /\ WF_vars(Release(p))
-----------------------------------------------------------------------------
Reading(p) == lockMode[p] = "read"

(* Types; files are open where the code has them open, and locks are only  *)
(* on open files.                                                          *)
TypeOK ==
  /\ entry \in {None} \cup Procs
  /\ lockPath \in {NoInode} \cup Inodes /\ entryPath \in {NoInode} \cup Inodes
  /\ lockFd \in [Procs -> {NoInode} \cup Inodes]
  /\ entryFd \in [Procs -> {NoInode} \cup Inodes]
  /\ lockMode \in [Procs -> {"none", "read", "write"}]
  /\ pc \in [Procs -> {"out", "in", "dead"} \cup InCall]
  /\ op \in [Procs -> Ops \cup {NoOp}]
  /\ unlinked \in BOOLEAN
  /\ failures \in 0..MaxFailures /\ crashes \in 0..MaxCrashes
  /\ \A p \in Procs :
       /\ entryFd[p] # NoInode <=> pc[p] \in InCall
       /\ lockMode[p] # "none" => lockFd[p] # NoInode

(* Where no process calls Remove, an entry on which a reader has the read  *)
(* lock stays as it is until the reader gives the lock up.                 *)
ReadersKeepEntry ==
  [][~unlinked' => \A p \in Procs : Reading(p) /\ Reading(p)' =>
       entry # None /\ entry' = entry]_vars

(* Where no process calls Remove, SetDefault takes the write lock only for *)
(* a key that has no entry, and nobody adds one before it does.            *)
DefaultKeepsEntry ==
  ~unlinked => \A p \in Procs :
    op[p].name = "SetDefault" /\ pc[p] \in {"waitW", "clear", "fill"} =>
      entry = None

(* Whatever is called, removed, raised or killed, the processes never wait *)
(* for one another in a circle: one may wait for the monitor, for one in   *)
(* the monitor that waits for the key lock, but the holder of the key lock *)
(* waits for nobody.  EntryLock's refusal of readers is what this needs.   *)
WaitsFor(p, q) ==
  /\ p # q
  /\ \/ pc[p] = "waitE" /\ entryFd[q] = entryFd[p] /\ pc[q] \in Monitor
     \/ /\ lockFd[q] = lockFd[p]
        /\ \/ pc[p] = "waitW" /\ lockMode[q] # "none"
           \/ pc[p] = "waitR" /\ lockMode[q] = "write"
NoCircularWait ==
  \A p, q, r \in Procs : WaitsFor(p, q) /\ WaitsFor(q, r) =>
    \A s \in Procs : ~WaitsFor(r, s)

(* So as long as one process is in an operation, some operation gets to    *)
(* its end.                                                                *)
Busy == \E p \in Procs : pc[p] \in InCall
NeverStuck == Busy ~> (\E p \in Procs : pc[p] = "leave") \/ ~Busy

(* "If the entry exists, acquire and maintain a read lock on it": nobody   *)
(* changes the entry while a reader has the lock.                          *)
ReadLockMaintained ==
  [][\A p \in Procs : Reading(p) /\ Reading(p)' => entry' = entry]_vars
=============================================================================
